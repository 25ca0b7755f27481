------------------------------ MODULE MCProgress ------------------------------
(* The loops that sleep and the loop that must end, one in focus at a time:  *)
(* the runner of the primary with its wake signal, the display publisher,    *)
(* the thread of a secondary virtual CPU, and the native execution slice.    *)
(* The first two are tasks that wait in the same way and share the state of  *)
(* WakeWaiters, except that each is cancelled by itself.                     *)
EXTENDS HostWake, ExecutionChain

CONSTANT Device

VARIABLES
    focus,
    committed, hasFrame, noting, noted, publisherPC, snapshot, metadata, published, feed,
    publisherCancelled, pendingLines, enabled, active, sharedTargetMasks, targetedPending, targetedEnabled,
    targetedActive, waking, wakeHandler, workerPC, state, vmLife, workerTimer, shouldStop,
    powerTable, joined, stopped

Publishing == INSTANCE DisplayPublisher WITH 
    pc <- publisherPC, cancelled <- publisherCancelled, MaxCommits <- 5

(* One secondary with a timer and a software interrupt of its own. *)
Cluster == INSTANCE VCPUCluster WITH
    VCPUs <- {0, 1}, SharedLines <- {}, Timers <- {27}, SGIs <- {1}, Routes <- {}

(* A guest of seven blocks: a loop of two that a graph joins, with an       *)
(* access that needs C and a store into code, an exception, a system        *)
(* instruction, a wait, and a fault.                                        *)
GuestCode ==
    [a |-> <<"alu", "alu">>, b |-> <<"slow", "alu">>, c |-> <<"code">>, d |-> <<"alu", "svc">>,
     e |-> <<"alu", "sys">>, f |-> <<"wfi">>, g |-> <<"alu", "fault">>]
Follows ==
    [a |-> {"a", "b", "d"}, b |-> {"a", "c", "g"}, c |-> {"e", "f"}, d |-> {"e"},
     e |-> {"a", "f"}, f |-> {"a"}, g |-> {"a"}]

publisherVars == <<committed, hasFrame, noting, noted, publisherPC, snapshot, metadata,
                   published, feed, publisherCancelled>>
clusterVars == <<pendingLines, enabled, active, sharedTargetMasks, targetedPending,
                 targetedEnabled, targetedActive, waking, wakeHandler, workerPC, state,
                 vmLife, workerTimer, shouldStop, powerTable, joined, stopped>>
all == <<focus, vars, publisherVars, clusterVars, sliceVars>>

Run(A) == focus = "runner" /\ A /\ UNCHANGED <<focus, publisherVars, clusterVars, sliceVars>>
Publish(A) == focus = "publisher" /\ A /\ UNCHANGED <<focus, cancelled, hostVars, clusterVars, sliceVars>>
Power(A) == focus = "cluster" /\ A /\ UNCHANGED <<focus, vars, publisherVars, sliceVars>>
Execute(A) == focus = "slice" /\ A /\ UNCHANGED <<focus, vars, publisherVars, clusterVars>>

MCInit ==
    /\ focus \in {"runner", "publisher", "cluster", "slice"}
    /\ Init /\ Publishing!Init /\ Cluster!ClusterInit /\ SliceInit
    /\ focus # "slice" => ck.limit = 3 /\ timer.compare = 4 /\ timer.live

MCNext == Run(Next) \/ Publish(Publishing!Next) \/ Power(Cluster!ClusterNext) \/ Execute(SliceNext)

(* The fairness of each loop's own specification.  Focus never changes, so  *)
(* one formula for several loops is as many formulas: whichever disjunct    *)
(* can be taken at all is one of the loop in focus.                         *)
MCFairness ==
    /\ WF_all(\/ Run(Runner) \/ Publish(Publishing!Publisher)
              \/ Power(Cluster!HostSteps(1)) \/ Execute(SliceNext))
    /\ SF_all(Power(Cluster!EndRun(1)))
    /\ WF_all(Run(PumpFrames) \/ Publish(Publishing!Note) \/ Power(Cluster!StopWorker(1)))
    /\ WF_all(Run(Signal("ui")) \/ Power(Cluster!SignalWorkers(0)))
    /\ WF_all(Run(Signal("device")) \/ Power(Cluster!SignalWorkers(1)))
    /\ WF_all(Run(Signal("network")) \/ Power(Cluster!SignalWorkers(Device)))
    /\ WF_all(Power(Cluster!WaitUntilStopped(1)))
    /\ \A id \in WaitIds :
          /\ WF_all(Run(CancelHandler(id)) \/ Publish(Publishing!CancelHandler(id)))
          /\ WF_all(Run(ResumeTask(id)) \/ Publish(Publishing!ResumeTask(id)))

MCSpec == MCInit /\ [][MCNext]_all /\ MCFairness

(* The runner serves queued input, and the publisher advertises the last    *)
(* frame of a burst, without the help of a timeout; a task that stop()      *)
(* cancels ends, also when the cancellation races with a wait.              *)
TasksProgress == InputIsServed /\ StopEndsRunner /\ Publishing!PublisherProgress

(* A secondary asleep in WFI wakes for a deliverable interrupt without any  *)
(* timeout, and stop() returns.                                             *)
ClusterProgress == Cluster!InterruptWakes /\ Cluster!StopReturns

(* A slice ends: no round of the loop, and no refused graph, repeats        *)
(* without progress.                                                        *)
SlicesEnd == []<>(focus = "slice" => phase = "done")
===============================================================================
