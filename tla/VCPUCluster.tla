----------------------------- MODULE VCPUCluster -----------------------------
(***************************************************************************)
(* ParallelVCPUCluster: one host thread per secondary virtual CPU, all     *)
(* sleeping on one NSCondition, and the interrupt controller whose wake    *)
(* handler broadcasts it.  A worker sleeps when its CPU is off, when the   *)
(* guest has executed WFI, and when its execution is paced.                *)
(*                                                                         *)
(* Each worker keeps two copies of its CPU's lifecycle: `vmLife`, in the   *)
(* virtual machine that its thread runs without a lock, and `state`, which *)
(* it publishes under the condition's lock and on which others decide.     *)
(* The primary keeps a third, `powerTable`, for the guest's PSCI calls.    *)
(*                                                                         *)
(* A critical section is one step; the interrupt controller has a lock of  *)
(* its own, and the call of its wake handler comes after that is released, *)
(* so an interrupt and its broadcast are two steps.  Guest code is any     *)
(* sequence of the operations that reach the controller, the timers or     *)
(* PSCI.  Step counts, profiles and failure texts are left out.            *)
(***************************************************************************)
EXTENDS InterruptController

VARIABLES
    workerPC,          \* per worker: where its thread is
    state,       \* per worker: the published lifecycle
    vmLife,      \* per worker: the lifecycle in its virtual machine
    workerTimer,       \* per worker: its generic timer
    shouldStop,  \* workers told to stop
    powerTable,  \* the primary's view of the secondaries' lifecycle
    joined,      \* workers that stop() has waited for
    stopped      \* stop() has been called

workerVars == <<workerPC, state, vmLife, workerTimer, shouldStop, powerTable, joined, stopped>>
clusterVars == <<controllerVars, workerVars>>

Workers == VCPUs \ {0}

Lifecycle == {"offline", "runnable", "wfi", "halted"}
PoweredOn == {"runnable", "wfi"}
Asleep == {"parked", "untimed", "timed", "pacing"}
RunSteps == {"start", "recheck", "exec", "suspend", "publish", "failed"}
WorkerSteps == Asleep \cup RunSteps \cup {"top", "woken", "failSignal", "finished"}

ClusterTypes ==
    /\ ControllerTypes
    /\ workerPC \in [Workers -> WorkerSteps]
    /\ state \in [Workers -> Lifecycle]
    /\ vmLife \in [Workers -> Lifecycle]
    /\ workerTimer \in [Workers -> {"off", "armed", "expired"}]
    /\ shouldStop \subseteq Workers
    /\ powerTable \in [Workers -> Lifecycle]
    /\ joined \subseteq shouldStop
    /\ stopped \in BOOLEAN

ClusterInit ==
    /\ ControllerInit
    /\ workerPC = [w \in Workers |-> "top"]
    /\ state = [w \in Workers |-> "offline"]
    /\ vmLife = [w \in Workers |-> "offline"]
    /\ workerTimer = [w \in Workers |-> "off"]
    /\ shouldStop = {}
    /\ powerTable = [w \in Workers |-> "offline"]
    /\ joined = {}
    /\ stopped = FALSE

Moves(w, step) == workerPC' = [workerPC EXCEPT ![w] = step]

\* Where a broadcast sends a thread: the park re-tests its condition, a WFI
\* wait only tests shouldStop, and a paced thread goes round its loop.
Awakened(step) == CASE step \in {"parked", "pacing"} -> "top"
                    [] step \in {"untimed", "timed"} -> "woken"
                    [] OTHER                         -> step
Broadcast == [w \in Workers |-> Awakened(workerPC[w])]

-----------------------------------------------------------------------------
(* The wake handler.                                                       *)

\* signal(), by the thread that owes it.
SignalWorkers(t) ==
    /\ t \in waking
    /\ waking' = waking \ {t}
    /\ workerPC' = Broadcast
    /\ UNCHANGED <<pendingLines, enabled, active, sharedTargetMasks, targetedPending,
                   targetedEnabled, targetedActive, wakeHandler, state, vmLife,
                   workerTimer, shouldStop, powerTable, joined, stopped>>

-----------------------------------------------------------------------------
(* SecondaryWorker.runLoop                                                 *)

\* hostTimerWaitNanoseconds: 0 when an interrupt is deliverable or the
\* deadline has passed, nil when no timer is armed.  Broken: WaitForTimer, as
\* if an interrupt's arrival had always been signalled.
WaitForTimer(w) == CASE workerTimer[w] = "off"   -> "untimed"
                     [] workerTimer[w] = "armed" -> "timed"
                     [] OTHER                    -> "start"

HostTimerWait(w) == IF Deliverable(w) THEN "start" ELSE WaitForTimer(w)

\* The loop's first critical section, up to a wait or to the unlock.
Top(w) ==
    /\ workerPC[w] = "top"
    /\ Moves(w, IF w \in shouldStop THEN "finished"
                ELSE CASE state[w] \in {"offline", "halted"} -> "parked"
                       [] state[w] = "wfi"                   -> HostTimerWait(w)
                       [] OTHER                              -> "start")
    /\ UNCHANGED <<controllerVars, state, vmLife, workerTimer, shouldStop, powerTable,
                   joined, stopped>>

\* A timed wait reaches its date.
TimedOut(w) ==
    /\ workerPC[w] \in {"timed", "pacing"}
    /\ Moves(w, Awakened(workerPC[w]))
    /\ UNCHANGED <<controllerVars, state, vmLife, workerTimer, shouldStop, powerTable,
                   joined, stopped>>

Woken(w) ==
    /\ workerPC[w] = "woken"
    /\ Moves(w, IF w \in shouldStop THEN "finished" ELSE "start")
    /\ UNCHANGED <<controllerVars, state, vmLife, workerTimer, shouldStop, powerTable,
                   joined, stopped>>

\* updateGenericTimerInterrupts: the timer's line follows its condition.
RefreshTimer(w) ==
    \E l \in Timers :
        IF workerTimer[w] = "expired" THEN RaiseLineFor(l, w, w) ELSE ClearLineFor(l, w)

\* runExternallyManagedVirtualCPU: a CPU in WFI refreshes its timer and looks
\* for an interrupt.
Start(w) ==
    /\ workerPC[w] = "start"
    /\ IF vmLife[w] = "wfi" /\ Timers # {}
         THEN RefreshTimer(w)
         ELSE UNCHANGED controllerVars
    /\ Moves(w, IF vmLife[w] = "wfi" THEN "recheck" ELSE "exec")
    /\ UNCHANGED <<state, vmLife, workerTimer, shouldStop, powerTable, joined, stopped>>

Recheck(w) ==
    /\ workerPC[w] = "recheck"
    /\ w \notin waking
    /\ IF Deliverable(w)
         THEN /\ Moves(w, "exec")
              /\ vmLife' = [vmLife EXCEPT ![w] = "runnable"]
         ELSE /\ Moves(w, "publish")
              /\ UNCHANGED vmLife
    /\ UNCHANGED <<controllerVars, state, workerTimer, shouldStop, powerTable, joined, stopped>>

\* The run returns: the budget is spent, or the guest halts.
EndRun(w) ==
    /\ workerPC[w] = "exec"
    /\ w \notin waking
    /\ Moves(w, "publish")
    /\ vmLife' \in {vmLife, [vmLife EXCEPT ![w] = "halted"]}
    /\ UNCHANGED <<controllerVars, state, workerTimer, shouldStop, powerTable, joined, stopped>>

\* The second critical section: publish, and perhaps pace.  The delay depends
\* on the clock and on the latest wake.
Publish(w) ==
    /\ workerPC[w] = "publish"
    /\ state' = [state EXCEPT ![w] = vmLife[w]]
    /\ \/ Moves(w, "top")
       \/ /\ vmLife[w] = "runnable"
          /\ w \notin shouldStop
          /\ \A v \in VCPUs : ~Deliverable(v)
          /\ Moves(w, "pacing")
    /\ UNCHANGED <<controllerVars, vmLife, workerTimer, shouldStop, powerTable, joined, stopped>>

\* An error is thrown: the CPU is published as halted and the host is woken.
Throw(w) ==
    /\ workerPC[w] = "exec"
    /\ w \notin waking
    /\ Moves(w, "failed")
    /\ UNCHANGED <<controllerVars, state, vmLife, workerTimer, shouldStop, powerTable,
                   joined, stopped>>

Fail(w) ==
    /\ workerPC[w] = "failed"
    /\ state' = [state EXCEPT ![w] = "halted"]
    /\ Moves(w, "failSignal")
    /\ UNCHANGED <<controllerVars, vmLife, workerTimer, shouldStop, powerTable, joined, stopped>>

FailSignal(w) ==
    /\ workerPC[w] = "failSignal"
    /\ workerPC' = [Broadcast EXCEPT ![w] = "top"]
    /\ UNCHANGED <<controllerVars, state, vmLife, workerTimer, shouldStop, powerTable,
                   joined, stopped>>

-----------------------------------------------------------------------------
(* The guest.                                                              *)

\* A virtual CPU executes guest code: a worker inside run(), the primary
\* until its runner has ended, which it has when stop() is called.
Executing(v) ==
    /\ v \notin waking
    /\ IF v = 0 THEN ~stopped ELSE workerPC[v] = "exec"

\* Accesses to the GIC.
GuestAcknowledge(v) ==
    Executing(v) /\ AcknowledgeLine(v) /\ UNCHANGED workerVars

GuestComplete(v) ==
    /\ Executing(v)
    /\ \E l \in active \cup targetedActive[v] : Complete(l, v, v)
    /\ UNCHANGED workerVars

GuestEnableShared(v) ==
    /\ Executing(v)
    /\ \E l \in SharedLines : SetEnabled(l, l \notin enabled, v)
    /\ UNCHANGED workerVars

GuestSetTargets(v) ==
    /\ Executing(v)
    /\ \E l \in SharedLines, mask \in Routes :
          mask # sharedTargetMasks[l] /\ SetTargetMask(l, mask, v)
    /\ UNCHANGED workerVars

GuestEnableTimer(v) ==
    /\ Executing(v)
    /\ \E l \in Timers : SetEnabledFor(l, l \notin targetedEnabled[v], v, v)
    /\ UNCHANGED workerVars

GuestSendSGI(v) ==
    /\ Executing(v)
    /\ \E l \in SGIs, target \in VCPUs : RaiseLineFor(l, target, v)
    /\ UNCHANGED workerVars

\* The generic timer of a worker's CPU: the guest programs it, the counter
\* passes its deadline, and executed code refreshes its line.
ProgramTimer(w) ==
    /\ Executing(w)
    /\ Timers # {}
    /\ \E t \in {"off", "armed"} : workerTimer' = [workerTimer EXCEPT ![w] = t]
    /\ UNCHANGED <<controllerVars, workerPC, state, vmLife, shouldStop, powerTable,
                   joined, stopped>>

TimerExpires(w) ==
    /\ workerTimer[w] = "armed"
    /\ workerTimer' = [workerTimer EXCEPT ![w] = "expired"]
    /\ UNCHANGED <<controllerVars, workerPC, state, vmLife, shouldStop, powerTable,
                   joined, stopped>>

TimerTick(w) ==
    Executing(w) /\ RefreshTimer(w) /\ UNCHANGED workerVars

\* executeWaitForInterrupt: refresh the timer, then suspend unless an
\* interrupt is deliverable.
WaitForInterrupt(w) ==
    /\ Executing(w)
    /\ IF Timers # {} THEN RefreshTimer(w) ELSE UNCHANGED controllerVars
    /\ Moves(w, "suspend")
    /\ UNCHANGED <<state, vmLife, workerTimer, shouldStop, powerTable, joined, stopped>>

Suspend(w) ==
    /\ workerPC[w] = "suspend"
    /\ w \notin waking
    /\ IF Deliverable(w)
         THEN /\ Moves(w, "exec")
              /\ UNCHANGED vmLife
         ELSE /\ Moves(w, "publish")
              /\ vmLife' = [vmLife EXCEPT ![w] = "wfi"]
    /\ UNCHANGED <<controllerVars, state, workerTimer, shouldStop, powerTable, joined, stopped>>

\* activate(): fresh state for a worker that is off.  Broken: no broadcast
\* after the state is installed.
ActivateSilently(w) ==
    /\ vmLife' = [vmLife EXCEPT ![w] = "runnable"]
    /\ state' = [state EXCEPT ![w] = "runnable"]
    /\ workerTimer' = [workerTimer EXCEPT ![w] = "off"]
    /\ UNCHANGED workerPC

Activate(w) ==
    /\ vmLife' = [vmLife EXCEPT ![w] = "runnable"]
    /\ state' = [state EXCEPT ![w] = "runnable"]
    /\ workerTimer' = [workerTimer EXCEPT ![w] = "off"]
    /\ workerPC' = Broadcast

\* PSCI CPU_ON on the primary.
CPUOn(w) ==
    /\ Executing(0)
    /\ powerTable[w] \notin PoweredOn
    /\ IF w \notin shouldStop /\ state[w] \in {"offline", "halted"}
         THEN /\ powerTable' = [powerTable EXCEPT ![w] = "runnable"]
              /\ Activate(w)
         ELSE /\ powerTable' = [powerTable EXCEPT ![w] = "offline"]
              /\ UNCHANGED <<workerPC, state, vmLife, workerTimer>>
    /\ UNCHANGED <<controllerVars, shouldStop, joined, stopped>>

-----------------------------------------------------------------------------
(* Devices and the host.                                                   *)

DeviceRaise ==
    /\ Device \notin waking
    /\ \E l \in SharedLines : RaiseLine(l, Device)
    /\ UNCHANGED workerVars

DeviceClear ==
    /\ Device \notin waking
    /\ \E l \in SharedLines : ClearLine(l)
    /\ UNCHANGED workerVars

\* configureRunBudget and setContinuousExecutionPacing broadcast as well, and
\* so does the host's signal() after touch and keyboard input.
Reconfigure ==
    /\ ~stopped
    /\ workerPC' = Broadcast
    /\ UNCHANGED <<controllerVars, state, vmLife, workerTimer, shouldStop, powerTable,
                   joined, stopped>>

\* stop(): the handler goes first, then every worker is told, then every
\* worker is waited for.
Stop ==
    /\ ~stopped
    /\ 0 \notin waking
    /\ stopped' = TRUE
    /\ RemoveHandler
    /\ UNCHANGED <<workerPC, state, vmLife, workerTimer, shouldStop, powerTable, joined>>

\* Broken: without the broadcast.
StopWorkerSilently(w) ==
    /\ stopped
    /\ w \notin shouldStop
    /\ \A u \in Workers : u < w => u \in shouldStop
    /\ shouldStop' = shouldStop \cup {w}
    /\ UNCHANGED <<controllerVars, workerPC, state, vmLife, workerTimer, powerTable, joined, stopped>>

StopWorker(w) ==
    /\ stopped
    /\ w \notin shouldStop
    /\ \A u \in Workers : u < w => u \in shouldStop
    /\ shouldStop' = shouldStop \cup {w}
    /\ workerPC' = Broadcast
    /\ UNCHANGED <<controllerVars, state, vmLife, workerTimer, powerTable, joined, stopped>>

WaitUntilStopped(w) ==
    /\ shouldStop = Workers
    /\ w \notin joined
    /\ \A u \in Workers : u < w => u \in joined
    /\ workerPC[w] = "finished"
    /\ joined' = joined \cup {w}
    /\ UNCHANGED <<controllerVars, workerPC, state, vmLife, workerTimer, shouldStop, powerTable,
                   stopped>>

-----------------------------------------------------------------------------
HostSteps(w) ==
    Top(w) \/ Woken(w) \/ Start(w) \/ Recheck(w) \/ Suspend(w)
           \/ Publish(w) \/ Fail(w) \/ FailSignal(w)

GuestSteps(v) ==
    \/ GuestAcknowledge(v) \/ GuestComplete(v) \/ GuestEnableShared(v)
    \/ GuestSetTargets(v)  \/ GuestEnableTimer(v) \/ GuestSendSGI(v)

ClusterNext ==
    \/ \E t \in WakingThreads : SignalWorkers(t)
    \/ \E w \in Workers :
          \/ HostSteps(w)
          \/ TimedOut(w) \/ EndRun(w) \/ Throw(w)
          \/ ProgramTimer(w) \/ TimerExpires(w) \/ TimerTick(w)
          \/ WaitForInterrupt(w) \/ CPUOn(w)
          \/ StopWorker(w) \/ WaitUntilStopped(w)
    \/ \E v \in VCPUs : GuestSteps(v)
    \/ DeviceRaise \/ DeviceClear \/ Reconfigure \/ Stop

ClusterSpec == ClusterInit /\ [][ClusterNext]_clusterVars

\* A thread goes on until it waits, a handler call that is owed is made, and
\* run() returns because its step budget is finite.  No timed wait is assumed
\* to end: where a broadcast is due, the timeout must not be needed.
ClusterFairness ==
    /\ \A t \in WakingThreads : WF_clusterVars(SignalWorkers(t))
    /\ \A w \in Workers : WF_clusterVars(HostSteps(w)) /\ SF_clusterVars(EndRun(w))
    /\ \A w \in Workers : WF_clusterVars(StopWorker(w)) /\ WF_clusterVars(WaitUntilStopped(w))

ClusterFairSpec == ClusterSpec /\ ClusterFairness

-----------------------------------------------------------------------------
(* An interrupt that a sleeping virtual CPU could take has its broadcast   *)
(* still to come: `the wake notification can precede the host condition    *)
(* wait', and hostTimerWaitNanoseconds therefore looks again under the     *)
(* condition's lock.  A paced worker sleeps through no interrupt of any    *)
(* virtual CPU.                                                            *)
NoInterruptSleptThrough ==
    \A w \in Workers :
        /\ workerPC[w] \in {"untimed", "timed"} /\ Deliverable(w) /\ ~stopped => waking # {}
        /\ workerPC[w] = "pacing" /\ (\E v \in VCPUs : Deliverable(v)) /\ ~stopped => waking # {}

(* The three copies of a lifecycle agree where a decision rests on them.   *)
(* A worker whose thread is in run() is published as powered on, which is  *)
(* what makes activate() refuse to install new state in its virtual        *)
(* machine, and a thread that waits in WFI still finds WFI there.          *)
ActivationIsExclusive ==
    \A w \in Workers :
        /\ workerPC[w] \in RunSteps \cup {"woken", "untimed", "timed"} => state[w] \in PoweredOn
        /\ workerPC[w] \in {"untimed", "timed", "woken"} => vmLife[w] = "wfi"

(* A CPU that runs is never reported as off by AFFINITY_INFO, and a CPU    *)
(* that CPU_ON has started does not leave its thread parked.               *)
PowerOnTakesEffect ==
    \A w \in Workers :
        /\ workerPC[w] \in RunSteps \/ state[w] \in PoweredOn => powerTable[w] \in PoweredOn
        /\ workerPC[w] = "parked" => state[w] \notin PoweredOn

(* No worker that was told to stop is asleep, or will be: stop() has       *)
(* removed the wake handler and waits without a timeout for every thread.  *)
StoppedWorkersAwake ==
    \A w \in shouldStop : workerPC[w] \notin Asleep

(* No virtual CPU sleeps while an interrupt it would take is pending, and   *)
(* the copies of its lifecycle agree where activate, CPU_ON and stop rest   *)
(* on them, in whatever order routing, failures and broadcasts arrive.      *)
ClusterAwake ==
    /\ NoInterruptSleptThrough
    /\ ActivationIsExclusive /\ PowerOnTakesEffect /\ StoppedWorkersAwake

(* A virtual CPU that sleeps in WFI with a deliverable interrupt executes  *)
(* again, or the interrupt is taken or withdrawn, or the cluster stops.    *)
InterruptWakes ==
    \A w \in Workers :
        []<>(workerPC[w] \in {"untimed", "timed"} /\ Deliverable(w) => stopped)

(* stop() returns.                                                         *)
StopReturns == []<>(stopped => joined = Workers)
=============================================================================
