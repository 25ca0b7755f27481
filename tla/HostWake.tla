------------------------------ MODULE HostWake -------------------------------
(***************************************************************************)
(* The runner task of the iOS host and the wake signal it sleeps on.  The  *)
(* runner executes the guest in slices; when the guest waits for an        *)
(* interrupt and nothing is pending it suspends on HostWakeSignal, and     *)
(* when the guest runs on without input it pauses there briefly.  Input    *)
(* from the main actor, interrupts raised on device threads, frames from   *)
(* the network and committed display frames all signal.  Signals are       *)
(* counted by a generation, which the runner reads before it decides that  *)
(* there is nothing to do; a wait that starts with an old generation       *)
(* returns at once.                                                        *)
(*                                                                         *)
(* The queues are abstracted to whether they hold anything, the guest to   *)
(* the outcome of a slice.                                                 *)
(***************************************************************************)
EXTENDS WakeWaiters

CONSTANTS
    Inputs,         \* the host's input queues: serial, touch, keyboard
    MaxSignals      \* bound on the signals of a behaviour

ASSUME MaxSignalsAssumption == MaxSignals \in Nat

Producers == {"ui", "device", "network"}
Steps == {"loop", "slice", "decide", "traffic", "interrupts", "pacing",
          "pacingTraffic", "enter", "register", "waiting", "done"}

VARIABLES
    generation,     \* HostWakeSignal.generation
    pending,        \* the input queues that are not empty
    irq,            \* an interrupt is pending for some virtual CPU
    traffic,        \* networkBridge.hasPendingAsynchronousTraffic
    toSignal,       \* per producer: signal() calls it still has to make
    pumping,        \* the network thread is before pumpNetworkReceiveQueue
    pc,             \* the runner's position in its loop
    wfi,            \* lastRunSliceObservedWFI
    observed,       \* the generation the runner captured
    idle            \* the wait is an idle wait, not a pacing pause

hostVars == <<generation, pending, irq, traffic, toSignal, pumping,
              pc, wfi, observed, idle>>
vars == <<waiterVars, hostVars>>

\* Signals made and signals that are certain to come; bounds a behaviour.
Budget == generation + toSignal["ui"] + toSignal["device"] + toSignal["network"]
            + (IF pumping THEN 2 ELSE 0)

Init ==
    /\ WaiterInit
    /\ generation = 0
    /\ pending = {}
    /\ irq = FALSE
    /\ traffic = FALSE
    /\ toSignal = [p \in Producers |-> 0]
    /\ pumping = FALSE
    /\ pc = "loop"
    /\ wfi = FALSE
    /\ observed = 0
    /\ idle = FALSE

-----------------------------------------------------------------------------
(* Producers.                                                              *)

\* queueInput, queueTouch and queueKeyboardEvents append under the runtime's
\* lock and signal after unlocking.  Touches and keys first signal the vCPU
\* cluster, whose wake handler is this same signal.  An event its queue
\* refuses changes nothing.
QueueInput(k) ==
    /\ toSignal["ui"] = 0
    /\ Budget + 2 <= MaxSignals
    /\ pc # "done"
    /\ pending' = pending \cup {k}
    /\ toSignal' = [toSignal EXCEPT !["ui"] = IF k = "serial" THEN 1 ELSE 2]
    /\ UNCHANGED <<waiterVars, generation, irq, traffic, pumping, pc, wfi, observed, idle>>

\* A device raises an interrupt line; the controller's wake handler reaches
\* the signal through the vCPU cluster.
RaiseInterrupt ==
    /\ toSignal["device"] = 0
    /\ Budget + 1 <= MaxSignals
    /\ irq' = TRUE
    /\ toSignal' = [toSignal EXCEPT !["device"] = 1]
    /\ UNCHANGED <<waiterVars, generation, pending, traffic, pumping, pc, wfi, observed, idle>>

\* onDisplayFrameCommitted signals for a frame; nothing the runner checks
\* changes.
CommitFrame ==
    /\ toSignal["device"] = 0
    /\ Budget + 1 <= MaxSignals
    /\ toSignal' = [toSignal EXCEPT !["device"] = 1]
    /\ UNCHANGED <<waiterVars, generation, pending, irq, traffic, pumping, pc, wfi, observed, idle>>

\* The network backend queues frames and then calls onFramesAvailable.
ReceiveFrames ==
    /\ ~pumping
    /\ toSignal["network"] = 0
    /\ Budget + 2 <= MaxSignals
    /\ traffic' = TRUE
    /\ pumping' = TRUE
    /\ UNCHANGED <<waiterVars, generation, pending, irq, toSignal, pc, wfi, observed, idle>>

\* onFramesAvailable: the device takes the frames and raises its line if the
\* guest has posted buffers; then the signal.  A TCP connection that stays
\* open keeps the traffic flag.
PumpFrames ==
    /\ pumping
    /\ pumping' = FALSE
    /\ \E delivered \in BOOLEAN, open \in BOOLEAN :
         /\ irq' = (irq \/ delivered)
         /\ traffic' = (traffic /\ open)
         /\ toSignal' = [toSignal EXCEPT !["network"] = IF delivered THEN 2 ELSE 1]
    /\ UNCHANGED <<waiterVars, generation, pending, pc, wfi, observed, idle>>

\* HostWakeSignal.signal().  Broken: the generation stays.
SignalSilently(p) ==
    /\ toSignal[p] > 0
    /\ toSignal' = [toSignal EXCEPT ![p] = @ - 1]
    /\ TakeAll
    /\ UNCHANGED <<generation, pending, irq, traffic, pumping, pc, wfi, observed, idle>>

Signal(p) ==
    /\ toSignal[p] > 0
    /\ toSignal' = [toSignal EXCEPT ![p] = @ - 1]
    /\ generation' = generation + 1
    /\ TakeAll
    /\ UNCHANGED <<pending, irq, traffic, pumping, pc, wfi, observed, idle>>

-----------------------------------------------------------------------------
(* The runner.                                                             *)

Goto(step) == pc' = step

\* A slice starts by draining the queues.  The UART FIFO and the touch device
\* may have room for less than is queued; all keys are taken.
BeginSlice ==
    /\ pc = "loop"
    /\ ~cancelled
    /\ \E rest \in SUBSET (pending \ {"keys"}) : pending' = rest
    /\ Goto("slice")
    /\ UNCHANGED <<waiterVars, generation, irq, traffic, toSignal, pumping, wfi, observed, idle>>

LeaveLoop ==
    /\ pc = "loop"
    /\ cancelled
    /\ Goto("done")
    /\ UNCHANGED <<waiterVars, generation, pending, irq, traffic, toSignal, pumping, wfi, observed, idle>>

\* The slice ends: the guest may have taken its interrupts, the pump may have
\* emptied the network queue, and the outcome says whether the guest waits.
EndSlice ==
    /\ pc = "slice"
    /\ wfi' \in BOOLEAN
    /\ \E served \in BOOLEAN, drained \in BOOLEAN :
         /\ irq' = (irq /\ ~served)
         /\ traffic' = (traffic /\ ~drained)
    /\ Goto("decide")
    /\ UNCHANGED <<waiterVars, generation, pending, toSignal, pumping, observed, idle>>

\* The guest halts or the slice throws: the runner finishes.
StopRunning ==
    /\ pc = "slice"
    /\ Goto("done")
    /\ UNCHANGED <<waiterVars, generation, pending, irq, traffic, toSignal, pumping, wfi, observed, idle>>

\* shouldContinueInteractiveBurst: a touch still awaits its frame.
ContinueBurst ==
    /\ pc = "decide"
    /\ Goto("loop")
    /\ UNCHANGED <<waiterVars, generation, pending, irq, traffic, toSignal, pumping, wfi, observed, idle>>

\* hostIdleWaitGeneration, the locked part: the generation, then the queues.
\* Whether the shell prompt was seen and a touch is latency sensitive is left
\* open.
ObserveIdle ==
    /\ pc = "decide"
    /\ observed' = generation
    /\ \E shouldIdle \in BOOLEAN :
         /\ shouldIdle => wfi /\ pending = {}
         /\ Goto(IF shouldIdle THEN "traffic" ELSE "pacing")
    /\ idle' = TRUE
    /\ UNCHANGED <<waiterVars, generation, pending, irq, traffic, toSignal, pumping, wfi>>

CheckTraffic ==
    /\ pc = "traffic"
    /\ Goto(IF traffic THEN "pacing" ELSE "interrupts")
    /\ UNCHANGED <<waiterVars, generation, pending, irq, traffic, toSignal, pumping, wfi, observed, idle>>

CheckInterrupts ==
    /\ pc = "interrupts"
    /\ Goto(IF irq THEN "pacing" ELSE "enter")
    /\ UNCHANGED <<waiterVars, generation, pending, irq, traffic, toSignal, pumping, wfi, observed, idle>>

\* continuousExecutionPacingGeneration, the locked part.
ObservePacing ==
    /\ pc = "pacing"
    /\ observed' = generation
    /\ \E shouldPace \in BOOLEAN :
         /\ shouldPace => ~wfi /\ pending = {}
         /\ Goto(IF shouldPace THEN "pacingTraffic" ELSE "loop")
    /\ idle' = FALSE
    /\ UNCHANGED <<waiterVars, generation, pending, irq, traffic, toSignal, pumping, wfi>>

\* No pause while the network is active, during an application launch, or
\* when the pacer asks for none.
CheckPacingTraffic ==
    /\ pc = "pacingTraffic"
    /\ \E pause \in BOOLEAN :
         /\ pause => ~traffic
         /\ Goto(IF pause THEN "enter" ELSE "loop")
    /\ UNCHANGED <<waiterVars, generation, pending, irq, traffic, toSignal, pumping, wfi, observed, idle>>

EnterWait ==
    /\ pc = "enter"
    /\ \E id \in WaitIds : BeginWait(id)
    /\ Goto("register")
    /\ UNCHANGED <<generation, pending, irq, traffic, toSignal, pumping, wfi, observed, idle>>

\* wait(after:timeoutNanoseconds:) under the signal's lock.  Broken: the
\* generation is not compared, or the cancellation flag is not.
RegisterUnchecked ==
    /\ pc = "register"
    /\ \E due \in BOOLEAN :
         IF ~cancelled /\ ~due
           THEN Store(TRUE) ELSE UNCHANGED waiterVars
    /\ Goto("waiting")
    /\ UNCHANGED <<generation, pending, irq, traffic, toSignal, pumping, wfi, observed, idle>>

RegisterCancelled ==
    /\ pc = "register"
    /\ \E due \in BOOLEAN :
         IF generation = observed /\ ~due
           THEN Store(TRUE) ELSE UNCHANGED waiterVars
    /\ Goto("waiting")
    /\ UNCHANGED <<generation, pending, irq, traffic, toSignal, pumping, wfi, observed, idle>>

Register ==
    /\ pc = "register"
    /\ \E due \in BOOLEAN :     \* the guest's timer has expired: no timeout left
         IF generation = observed /\ ~cancelled /\ ~due
           THEN Store(TRUE) ELSE UNCHANGED waiterVars
    /\ Goto("waiting")
    /\ UNCHANGED <<generation, pending, irq, traffic, toSignal, pumping, wfi, observed, idle>>

LeaveWait ==
    /\ pc = "waiting"
    /\ EndWait
    /\ Goto("loop")
    /\ UNCHANGED <<generation, pending, irq, traffic, toSignal, pumping, wfi, observed, idle>>

Runner ==
    \/ BeginSlice \/ LeaveLoop \/ EndSlice \/ StopRunning
    \/ ContinueBurst \/ ObserveIdle \/ CheckTraffic \/ CheckInterrupts
    \/ ObservePacing \/ CheckPacingTraffic
    \/ EnterWait \/ Register \/ LeaveWait

-----------------------------------------------------------------------------
(* The host: cancellation by stop(), timeouts and resumptions.             *)

StopRequested == Cancel /\ UNCHANGED hostVars
CancelHandler(id) == RunCancelHandler(id) /\ UNCHANGED hostVars
Timeout(id) == TimeoutFires(id) /\ UNCHANGED hostVars
ResumeTask(id) == Resume(id) /\ UNCHANGED hostVars

Next ==
    \/ \E k \in Inputs : QueueInput(k)
    \/ RaiseInterrupt \/ CommitFrame \/ ReceiveFrames \/ PumpFrames
    \/ \E p \in Producers : Signal(p)
    \/ Runner
    \/ StopRequested
    \/ \E id \in WaitIds : CancelHandler(id) \/ Timeout(id) \/ ResumeTask(id)

Spec == Init /\ [][Next]_vars

(***************************************************************************)
(* Threads that are running go on running, and a task whose continuation   *)
(* was resumed is scheduled.  Nothing obliges anyone to queue input, and   *)
(* no timeout is assumed to fire: a wake must not depend on one.           *)
(***************************************************************************)
Fairness ==
    /\ WF_vars(Runner)
    /\ WF_vars(PumpFrames)
    /\ \A p \in Producers : WF_vars(Signal(p))
    /\ \A id \in WaitIds : WF_vars(CancelHandler(id)) /\ WF_vars(ResumeTask(id))

FairSpec == Spec /\ Fairness

-----------------------------------------------------------------------------
(* Properties.                                                             *)

TypeOK ==
    /\ WaiterTypes
    /\ generation \in Nat
    /\ pending \subseteq Inputs
    /\ irq \in BOOLEAN
    /\ traffic \in BOOLEAN
    /\ toSignal \in [Producers -> 0..2]
    /\ pumping \in BOOLEAN
    /\ pc \in Steps
    /\ wfi \in BOOLEAN
    /\ observed \in Nat
    /\ idle \in BOOLEAN

\* Somebody has still to call HostWakeSignal.signal().
SignalComing == \E p \in Producers : toSignal[p] > 0

\* No activity is slept through.  While the runner's continuation is stored,
\* queued input has a signal of the main actor still to come, whatever the
\* order of queueInput, hostIdleWaitGeneration and wait(after:); and during an
\* idle wait the same holds of a pending interrupt, and of network traffic
\* (whose signal follows the pump).
NoActivitySleptThrough ==
    wait \in waiters =>
        /\ pending # {} => toSignal["ui"] > 0
        /\ idle /\ irq => SignalComing
        /\ idle /\ traffic => SignalComing \/ pumping

\* The runner decided on a generation it read before it looked: from then on
\* until it is resumed, activity it did not see has moved the generation or is
\* about to.
Decided(steps) == pc \in steps \/ wait \in waiters

\* The inductive strengthening of the two safety properties.
WakeInvariant ==
    /\ TypeOK
    /\ ExactlyOneResumer
    /\ (wait # NoWait) <=> (pc \in {"register", "waiting"})
    /\ suspended => pc = "waiting"
    /\ observed <= generation
    /\ wait \in waiters => generation = observed
    /\ pc \in {"traffic", "interrupts"} => idle
    /\ pc = "pacingTraffic" => ~idle
    /\ generation = observed =>
         /\ Decided({"traffic", "interrupts", "pacingTraffic", "enter", "register"})
              => (pending # {} => toSignal["ui"] > 0)
         /\ idle /\ Decided({"interrupts", "enter", "register"})
              => (traffic => SignalComing \/ pumping)
         /\ idle /\ Decided({"enter", "register"})
              => (irq => SignalComing)

\* Queued input is served without the help of a timeout: the runner starts
\* another slice, which drains the queues, unless it has finished.
InputIsServed == []<>(pending # {} => pc \in {"slice", "done"})

\* A cancelled runner finishes, also when stop() races with the start of a
\* wait, so that the cleanup task that awaits it finishes too.
StopEndsRunner == []<>(cancelled => pc = "done")
=============================================================================
