--------------------------- MODULE MCDeviceProgress ---------------------------
(* The two devices with the fairness of their threads, one at a time as in   *)
(* MCDeviceSafety.                                                           *)
EXTENDS TouchPipeline

VARIABLES focus, avail, gpuUsed, offered, kick, seen, inISR, gpuReady, lastAvailableIndex,
          gpuInterrupt, gpuCommands, nextGPUCommandToken, handler, reservations,
          accelerator, resetEpoch, delivering, posted, drains

(* The scripted swipe sends touches without a phase. *)
Unphased(isDown, point) == [phase |-> "none", isDown |-> isDown, point |-> point]
ScriptedTouches == {Unphased(TRUE, 1), Unphased(TRUE, 2), Unphased(FALSE, 1)}

(* Two submissions in flight with a cursor update between or behind them. *)
LiveShapes ==
  {[queue |-> "control", reads |-> {1}, writes |-> {}, global |-> FALSE,
    submit3D |-> TRUE, bytes |-> 1, usable |-> TRUE, fits |-> TRUE],
   [queue |-> "cursor", reads |-> {}, writes |-> {}, global |-> TRUE,
    submit3D |-> FALSE, bytes |-> 1, usable |-> TRUE, fits |-> TRUE]}

GPU == INSTANCE GPUCommandQueue WITH
  used <- gpuUsed, ready <- gpuReady, interruptStatus <- gpuInterrupt,
  Shapes <- LiveShapes, Resources <- {1, 2},
  maximumInFlightGPUCommands <- 2, maximumPendingGPUCommands <- 2,
  maximumPendingGPURequestBytes <- 3, CallbackThreads <- 1, MaxOffers <- 3, MaxResets <- 1

gpuVars == <<avail, gpuUsed, offered, kick, seen, inISR, gpuReady, lastAvailableIndex,
             gpuInterrupt, gpuCommands, nextGPUCommandToken, handler, reservations,
             accelerator, resetEpoch, delivering, posted, drains>>
all == <<focus, touchVars, gpuVars>>

MCInit == focus \in {"gpu", "touch"} /\ TouchInit /\ GPU!Init

Touching(A) == focus = "touch" /\ A /\ UNCHANGED <<focus, gpuVars>>
Rendering(A) == focus = "gpu" /\ A /\ UNCHANGED <<focus, touchVars>>

MCNext == Touching(TouchNext) \/ Rendering(GPU!Next)

(* The fairness of each device's own specification.  Focus never changes,   *)
(* so a formula for both is the two formulas: whichever disjunct can be     *)
(* taken at all is one of the device in focus.                              *)
MCFairness ==
  /\ WF_all(Touching(Device) \/ Rendering(GPU!Processing))
  /\ SF_all(Touching(Runtime) \/ Rendering(GPU!RunPosted))
  /\ SF_all(Touching(TouchDriver) \/ Rendering(GPU!Notify("control")))
  /\ SF_all(Rendering(GPU!Notify("cursor")))
  /\ WF_all(Rendering(GPU!FinishReset \/ GPU!FinishReplaceAccelerator))
  /\ WF_all(Rendering(\E t \in DOMAIN reservations : GPU!AcceleratorCompletes(t)))
  /\ WF_all(Rendering(\E d \in delivering : GPU!Deliver(d)))

MCSpec == MCInit /\ [][MCNext]_all /\ MCFairness

(* A reset or a change of accelerator ends its drain: the completions it    *)
(* waits for arrive although it holds deviceLock.                           *)
DrainTerminates == GPU!DrainTerminates

(* Every well-formed request is answered unless a reset or an unusable      *)
(* request intervenes.                                                      *)
EveryRequestAnswered == GPU!EveryRequestAnswered
================================================================================
