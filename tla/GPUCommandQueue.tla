---------------------------- MODULE GPUCommandQueue ----------------------------
(***************************************************************************)
(* The virtio-gpu command pipeline: VirtualVirtIODevice stages guest        *)
(* descriptors into gpuCommands, dispatches the ones without a resource     *)
(* hazard, and retires them into the used ring in queue order, while the    *)
(* accelerator of VirtIOGPUDevice completes deferred submissions on other   *)
(* threads.                                                                 *)
(*                                                                          *)
(* Threads: vCPUs in MMIO handlers (under deviceLock), the host replacing   *)
(* the accelerator (under deviceLock), accelerator callbacks (which only    *)
(* try deviceLock) and the serial completion dispatch queue.                *)
(*                                                                          *)
(* gpuCommands is a function on tokens.  The array of the code is appended  *)
(* to with ever larger tokens and elements are only removed, so its order   *)
(* is the order of the tokens.                                              *)
(***************************************************************************)
EXTENDS Integers, Sequences, FiniteSets, FiniteSetsExt

CONSTANTS
  Shapes,                         \* requests the guest driver may queue
  Resources,                      \* GPU resource identifiers
  maximumInFlightGPUCommands,     \* 3 in the code
  maximumPendingGPUCommands,      \* 32 in the code
  maximumPendingGPURequestBytes,  \* 1 MiB in the code
  CallbackThreads,                \* concurrent accelerator callbacks; 1 = serial
  MaxOffers,                      \* bound: requests offered in a behaviour
  MaxResets                       \* bound: resets and accelerator replacements

Control == "control"
Cursor == "cursor"
Queues == {Control, Cursor}

(***************************************************************************)
(* What staging, scheduling and retirement can tell apart in a request:     *)
(* the resources it touches (GPUResourceAccess), whether it is a submit3D   *)
(* that can be deferred, its size, whether its descriptor chain is usable,  *)
(* and whether its response descriptors hold the response.                  *)
(***************************************************************************)
ShapeType == [queue : Queues, reads : SUBSET Resources, writes : SUBSET Resources,
              global : BOOLEAN, submit3D : BOOLEAN, bytes : Nat,
              usable : BOOLEAN, fits : BOOLEAN]

ASSUME ShapesAssumption == Shapes \subseteq ShapeType

ASSUME LimitsAssumption ==
  /\ maximumInFlightGPUCommands \in Nat \ {0}
  /\ maximumPendingGPUCommands \in Nat \ {0}
  /\ maximumPendingGPURequestBytes \in Nat
  /\ CallbackThreads \in Nat \ {0}
  /\ MaxOffers \in Nat
  /\ MaxResets \in Nat

VARIABLES
  avail,          \* guest memory: requests made available, per queue
  used,           \* guest memory: used ring entries, per queue
  offered,        \* requests offered so far; numbers the requests
  kick,           \* the driver owes the device a notification
  seen,           \* used entries the driver has consumed, per queue
  inISR,          \* the driver acknowledged and is about to scan the rings
  ready,          \* queues[q].ready
  lastAvailableIndex,  \* queues[q].lastAvailableIndex
  interruptStatus,     \* the used-buffer bit of interruptStatus
  gpuCommands,    \* staged commands, by token
  nextGPUCommandToken,
  handler,        \* the thread inside deviceLock and where it is
  reservations,   \* ExecutionGate.reservations, by command token
  accelerator,    \* graphicsAccelerator # nil
  resetEpoch,
  delivering,     \* callbacks past the gate, about to try deviceLock
  posted,         \* gpuCompletionDispatchQueue
  drains          \* resets and replacements so far

ring == <<avail, offered, kick>>
irq == <<seen, inISR>>
queue == <<ready, lastAvailableIndex>>
gate == <<reservations, accelerator, resetEpoch>>
late == <<delivering, posted>>
vars == <<avail, used, offered, kick, seen, inISR, ready, lastAvailableIndex,
          interruptStatus, gpuCommands, nextGPUCommandToken, handler, reservations,
          accelerator, resetEpoch, delivering, posted, drains>>

NoResponse == 0       \* response == nil
EmptyResponse == -1   \* the [] that a completion of an older epoch delivers

Idle == [holder |-> "free", step |-> "idle", queue |-> Control, availableIndex |-> 0,
         dispatched |-> FALSE, stagingError |-> FALSE, resume |-> "loop",
         cursorNext |-> FALSE]

-----------------------------------------------------------------------------
(* GPUResourceAccess.conflicts *)
Conflicts(a, b) ==
  \/ a.global
  \/ b.global
  \/ a.writes \cap b.writes # {}
  \/ a.writes \cap b.reads # {}
  \/ a.reads \cap b.writes # {}

Tokens == DOMAIN gpuCommands
Active == {t \in Tokens : gpuCommands[t].started /\ gpuCommands[t].response = NoResponse}

(* Mutants of Runnable: a later command may overtake a blocked one; the     *)
(* hazards of running commands are ignored; the in-flight limit is off by   *)
(* one.                                                                     *)
OvertakingRunnable(t) ==
  /\ Cardinality(Active) < maximumInFlightGPUCommands
  /\ t \in Tokens
  /\ ~gpuCommands[t].started
  /\ \A u \in Active : ~Conflicts(gpuCommands[t].shape, gpuCommands[u].shape)

HazardBlindRunnable(t) ==
  /\ Cardinality(Active) < maximumInFlightGPUCommands
  /\ t \in Tokens
  /\ ~gpuCommands[t].started
  /\ \A u \in Tokens : u < t /\ ~gpuCommands[u].started
                         => ~Conflicts(gpuCommands[t].shape, gpuCommands[u].shape)

OneMoreRunnable(t) ==
  /\ Cardinality(Active) <= maximumInFlightGPUCommands
  /\ t \in Tokens
  /\ ~gpuCommands[t].started
  /\ \A u \in Active : ~Conflicts(gpuCommands[t].shape, gpuCommands[u].shape)
  /\ \A u \in Tokens : u < t /\ ~gpuCommands[u].started
                         => ~Conflicts(gpuCommands[t].shape, gpuCommands[u].shape)

(* nextRunnableGPUCommand: the first command that is eligible *)
Runnable(t) ==
  /\ Cardinality(Active) < maximumInFlightGPUCommands
  /\ t \in Tokens
  /\ ~gpuCommands[t].started
  /\ \A u \in Active : ~Conflicts(gpuCommands[t].shape, gpuCommands[u].shape)
  /\ \A u \in Tokens : u < t /\ ~gpuCommands[u].started
                         => ~Conflicts(gpuCommands[t].shape, gpuCommands[u].shape)

IsNextRunnable(t) == Runnable(t) /\ \A u \in Tokens : Runnable(u) => t <= u

(* Mutant of Retirable: commands retire as soon as they are answered. *)
EagerRetirable(t) == t \in Tokens /\ gpuCommands[t].response # NoResponse

(* retireGPUCommands: the first command its queue does not hold back *)
Retirable(t) ==
  /\ t \in Tokens
  /\ gpuCommands[t].response # NoResponse
  /\ \A u \in Tokens : u < t => gpuCommands[u].shape.queue # gpuCommands[t].shape.queue

IsNextRetirable(t) == Retirable(t) /\ \A u \in Tokens : Retirable(u) => t <= u

RetainedBytes == MapThenSumSet(LAMBDA t : gpuCommands[t].shape.bytes, Tokens)

(* ExecutionGate.begin(access: .global): every reservation conflicts *)
Drained == DOMAIN reservations = {}

(* ExecutionGate.begin waits while this is false *)
GateOpen(shape) == \A r \in DOMAIN reservations : ~Conflicts(shape, reservations[r].shape)

-----------------------------------------------------------------------------
(* Entering and leaving the locked region *)

(* processGPUQueue up to its loop: the available index is read once *)
ProcessQueue(holder, q, cursorNext) ==
  [holder |-> holder, step |-> "stage", queue |-> q, availableIndex |-> Len(avail[q]),
   dispatched |-> FALSE, stagingError |-> FALSE, resume |-> "loop",
   cursorNext |-> cursorNext]

(* Mutant of ProcessBoth: a completion does not restart the queues. *)
ForgetfulProcessBoth(holder) == Idle

(* completeDeferredGPUCommandLocked processes control and then cursor; a    *)
(* queue that is not ready is skipped.                                      *)
ProcessBoth(holder) ==
  IF ready[Control] THEN ProcessQueue(holder, Control, TRUE)
  ELSE IF ready[Cursor] THEN ProcessQueue(holder, Cursor, FALSE)
  ELSE Idle

QueueDone ==
  IF handler.cursorNext /\ ready[Cursor]
  THEN ProcessQueue(handler.holder, Cursor, FALSE)
  ELSE Idle

-----------------------------------------------------------------------------
(* The guest driver (Linux virtio), external *)

Offer(s) ==
  /\ ready[s.queue]
  /\ offered < MaxOffers
  /\ offered' = offered + 1
  /\ avail' = [avail EXCEPT ![s.queue] = Append(@, [id |-> offered + 1, shape |-> s])]
  /\ kick' = [kick EXCEPT ![s.queue] = TRUE]
  /\ UNCHANGED <<used, irq, queue, interruptStatus, gpuCommands, nextGPUCommandToken,
                 handler, gate, late, drains>>

ScanUsedRings ==
  /\ inISR
  /\ inISR' = FALSE
  /\ seen' = [q \in Queues |-> Len(used[q])]
  /\ UNCHANGED <<ring, used, queue, interruptStatus, gpuCommands, nextGPUCommandToken,
                 handler, gate, late, drains>>

-----------------------------------------------------------------------------
(* MMIO handlers, each under deviceLock *)

(* Queue ready: the driver hands over fresh rings *)
EnableQueue(q) ==
  /\ handler.holder = "free"
  /\ ~ready[q]
  /\ ready' = [ready EXCEPT ![q] = TRUE]
  /\ avail' = [avail EXCEPT ![q] = <<>>]
  /\ used' = [used EXCEPT ![q] = <<>>]
  /\ seen' = [seen EXCEPT ![q] = 0]
  /\ kick' = [kick EXCEPT ![q] = FALSE]
  /\ UNCHANGED <<offered, inISR, lastAvailableIndex, interruptStatus, gpuCommands,
                 nextGPUCommandToken, handler, gate, late, drains>>

(* notify *)
Notify(q) ==
  /\ handler.holder = "free"
  /\ kick[q]
  /\ kick' = [kick EXCEPT ![q] = FALSE]
  /\ handler' = IF ready[q] THEN ProcessQueue("mmio", q, FALSE) ELSE handler
  /\ UNCHANGED <<avail, used, offered, irq, queue, interruptStatus, gpuCommands,
                 nextGPUCommandToken, gate, late, drains>>

(* write of InterruptACK *)
AcknowledgeInterrupt ==
  /\ handler.holder = "free"
  /\ interruptStatus
  /\ interruptStatus' = FALSE
  /\ inISR' = TRUE
  /\ UNCHANGED <<ring, used, seen, queue, gpuCommands, nextGPUCommandToken, handler,
                 gate, late, drains>>

(* Mutant: reset keeps the staged commands. *)
KeepCommands == gpuCommands

(* gpuCommands.removeAll, and "tokens are not reused on reset" *)
CommandsAfterReset == [t \in {} |-> 0]
TokenAfterReset == nextGPUCommandToken

(* status := 0: resetNegotiationState up to the wait inside gpu.reset *)
BeginReset ==
  /\ handler.holder = "free"
  /\ drains < MaxResets
  /\ drains' = drains + 1
  /\ ready' = [q \in Queues |-> FALSE]
  /\ lastAvailableIndex' = [q \in Queues |-> 0]
  /\ interruptStatus' = FALSE
  /\ gpuCommands' = CommandsAfterReset
  /\ nextGPUCommandToken' = TokenAfterReset
  /\ handler' = [Idle EXCEPT !.holder = "mmio", !.step = "reset"]
  /\ UNCHANGED <<ring, used, irq, gate, late>>

(* VirtIOGPUDevice.reset: the global access waits for every reservation *)
FinishReset ==
  /\ handler.step = "reset"
  /\ Drained
  /\ resetEpoch' = resetEpoch + 1
  /\ handler' = Idle
  /\ UNCHANGED <<ring, used, irq, queue, interruptStatus, gpuCommands,
                 nextGPUCommandToken, reservations, accelerator, late, drains>>

(* attachGraphicsAccelerator, by the host *)
BeginReplaceAccelerator ==
  /\ handler.holder = "free"
  /\ drains < MaxResets
  /\ drains' = drains + 1
  /\ handler' = [Idle EXCEPT !.holder = "host", !.step = "replace"]
  /\ UNCHANGED <<ring, used, irq, queue, interruptStatus, gpuCommands,
                 nextGPUCommandToken, gate, late>>

FinishReplaceAccelerator ==
  /\ handler.step = "replace"
  /\ Drained
  /\ accelerator' \in BOOLEAN
  /\ handler' = Idle
  /\ UNCHANGED <<ring, used, irq, queue, interruptStatus, gpuCommands,
                 nextGPUCommandToken, reservations, resetEpoch, late, drains>>

-----------------------------------------------------------------------------
(* processGPUQueue: stage, dispatch, retire, repeat *)

NextRequest == avail[handler.queue][lastAvailableIndex[handler.queue] + 1]

HasRoom ==
  /\ lastAvailableIndex[handler.queue] # handler.availableIndex
  /\ Cardinality(Tokens) < maximumPendingGPUCommands

Malformed(s) == ~s.usable \/ s.bytes > maximumPendingGPURequestBytes

WithinBudget(s) == s.bytes <= maximumPendingGPURequestBytes - RetainedBytes

(* One iteration of stageGPUCommands *)
Stage ==
  LET c == NextRequest
      q == handler.queue
      t == nextGPUCommandToken + 1
  IN
  /\ handler.step = "stage"
  /\ HasRoom
  /\ ~Malformed(c.shape)
  /\ WithinBudget(c.shape)
  /\ nextGPUCommandToken' = t
  /\ gpuCommands' = [u \in Tokens \cup {t} |->
                       IF u = t
                       THEN [id |-> c.id, shape |-> c.shape, position |-> lastAvailableIndex[q] + 1,
                             started |-> FALSE, response |-> NoResponse]
                       ELSE gpuCommands[u]]
  /\ lastAvailableIndex' = [lastAvailableIndex EXCEPT ![q] = @ + 1]
  /\ UNCHANGED <<ring, used, irq, ready, interruptStatus, handler, gate, late, drains>>

(* stageGPUCommands returns, or throws on a chain it cannot use *)
StageEnd ==
  /\ handler.step = "stage"
  /\ HasRoom => Malformed(NextRequest.shape) \/ ~WithinBudget(NextRequest.shape)
  /\ handler' = [handler EXCEPT !.step = "dispatch",
                                !.stagingError = HasRoom /\ Malformed(NextRequest.shape)]
  /\ UNCHANGED <<ring, used, irq, queue, interruptStatus, gpuCommands,
                 nextGPUCommandToken, gate, late, drains>>

CanDefer(t) == gpuCommands[t].shape.queue = Control /\ gpuCommands[t].shape.submit3D

(* process, or a processDeferred that answers at once: the native path, an  *)
(* error response, or an accelerator that declines.                         *)
DispatchNow(t) ==
  /\ handler.step = "dispatch"
  /\ IsNextRunnable(t)
  /\ GateOpen(gpuCommands[t].shape)
  /\ gpuCommands' = [gpuCommands EXCEPT ![t].started = TRUE,
                                        ![t].response = gpuCommands[t].id]
  /\ handler' = [handler EXCEPT !.dispatched = TRUE]
  /\ UNCHANGED <<ring, used, irq, queue, interruptStatus, nextGPUCommandToken, gate,
                 late, drains>>

(* processDeferred hands the work to the accelerator *)
DispatchDeferred(t) ==
  /\ handler.step = "dispatch"
  /\ IsNextRunnable(t)
  /\ CanDefer(t)
  /\ accelerator
  /\ GateOpen(gpuCommands[t].shape)
  /\ gpuCommands' = [gpuCommands EXCEPT ![t].started = TRUE]
  /\ reservations' = [r \in DOMAIN reservations \cup {t} |->
                        IF r = t
                        THEN [id |-> gpuCommands[t].id, shape |-> gpuCommands[t].shape,
                              epoch |-> resetEpoch]
                        ELSE reservations[r]]
  /\ handler' = [handler EXCEPT !.dispatched = TRUE]
  /\ UNCHANGED <<ring, used, irq, queue, interruptStatus, nextGPUCommandToken,
                 accelerator, resetEpoch, late, drains>>

(* The accelerator answers before DeferredCompletion.arm: the completion    *)
(* runs on this thread, re-enters deviceLock and retires; the nested        *)
(* processGPUQueue returns at once because processingGPUCommands is set.    *)
DispatchInline(t) ==
  /\ handler.step = "dispatch"
  /\ IsNextRunnable(t)
  /\ CanDefer(t)
  /\ accelerator
  /\ GateOpen(gpuCommands[t].shape)
  /\ gpuCommands' = [gpuCommands EXCEPT ![t].started = TRUE,
                                        ![t].response = gpuCommands[t].id]
  /\ handler' = [handler EXCEPT !.dispatched = TRUE, !.step = "retire", !.resume = "dispatch"]
  /\ UNCHANGED <<ring, used, irq, queue, interruptStatus, nextGPUCommandToken, gate,
                 late, drains>>

DispatchEnd ==
  /\ handler.step = "dispatch"
  /\ ~\E t \in Tokens : Runnable(t)
  /\ handler' = [handler EXCEPT !.step = "retire", !.resume = "loop"]
  /\ UNCHANGED <<ring, used, irq, queue, interruptStatus, gpuCommands,
                 nextGPUCommandToken, gate, late, drains>>

(* Mutant of Retire: the interrupt is left to the end of notify. *)
SilentRetire(t) ==
  LET c == gpuCommands[t]
      q == c.shape.queue
  IN
  /\ handler.step = "retire"
  /\ IsNextRetirable(t)
  /\ q = Control => c.shape.fits
  /\ used' = [used EXCEPT ![q] = Append(@, [id |-> c.id, response |-> c.response])]
  /\ gpuCommands' = [u \in Tokens \ {t} |-> gpuCommands[u]]
  /\ UNCHANGED <<ring, irq, queue, interruptStatus, nextGPUCommandToken, handler, gate,
                 late, drains>>

(* One iteration of retireGPUCommands that publishes a used element *)
Retire(t) ==
  LET c == gpuCommands[t]
      q == c.shape.queue
  IN
  /\ handler.step = "retire"
  /\ IsNextRetirable(t)
  /\ q = Control => c.shape.fits
  /\ used' = [used EXCEPT ![q] = Append(@, [id |-> c.id, response |-> c.response])]
  /\ gpuCommands' = [u \in Tokens \ {t} |-> gpuCommands[u]]
  /\ interruptStatus' = TRUE
  /\ UNCHANGED <<ring, irq, queue, nextGPUCommandToken, handler, gate, late, drains>>

(* retireGPUCommands throws: the response does not fit.  A completion       *)
(* catches the error and raises the interrupt; notify drops it.             *)
RetireThrows(t) ==
  /\ handler.step = "retire"
  /\ IsNextRetirable(t)
  /\ gpuCommands[t].shape.queue = Control /\ ~gpuCommands[t].shape.fits
  /\ handler' = IF handler.resume = "dispatch"
                THEN [handler EXCEPT !.step = "dispatch"]
                ELSE Idle
  /\ interruptStatus' = (interruptStatus \/ handler.resume = "dispatch"
                                         \/ handler.holder \in {"callback", "async"})
  /\ UNCHANGED <<ring, used, irq, queue, gpuCommands, nextGPUCommandToken, gate, late,
                 drains>>

(* retireGPUCommands returns to its caller *)
RetireEnd ==
  /\ handler.step = "retire"
  /\ ~\E t \in Tokens : Retirable(t)
  /\ handler' =
       CASE handler.resume = "dispatch" -> [handler EXCEPT !.step = "dispatch"]
         [] handler.resume = "complete" -> ProcessBoth(handler.holder)
         [] handler.resume = "loop" ->
              IF handler.stagingError THEN Idle
              ELSE IF handler.dispatched /\ HasRoom
              THEN [handler EXCEPT !.step = "stage", !.dispatched = FALSE]
              ELSE QueueDone
  /\ interruptStatus' = (interruptStatus \/
                         (/\ handler.resume = "loop"
                          /\ handler.stagingError
                          /\ handler.holder \in {"callback", "async"}))
  /\ UNCHANGED <<ring, used, irq, queue, gpuCommands, nextGPUCommandToken, gate, late,
                 drains>>

-----------------------------------------------------------------------------
(* Accelerator callbacks *)

(* The DeferredCompletion handler: beginCompletion, the epoch check, the    *)
(* CPU-visible finish and the release of the reservation.                   *)
AcceleratorCompletes(t) ==
  /\ t \in DOMAIN reservations
  /\ Cardinality(delivering) < CallbackThreads
  /\ delivering' = delivering \cup
       {[token |-> t, response |-> IF reservations[t].epoch = resetEpoch
                                   THEN reservations[t].id ELSE EmptyResponse]}
  /\ reservations' = [r \in DOMAIN reservations \ {t} |-> reservations[r]]
  /\ UNCHANGED <<ring, used, irq, queue, interruptStatus, gpuCommands,
                 nextGPUCommandToken, handler, accelerator, resetEpoch, posted, drains>>

(* completeDeferredGPUCommandLocked.  A token that is no longer staged is   *)
(* a completion from before a reset.                                        *)
CompleteLocked(d, holder) ==
  IF /\ d.token \in Tokens
     /\ gpuCommands[d.token].started
     /\ gpuCommands[d.token].response = NoResponse
  THEN /\ gpuCommands' = [gpuCommands EXCEPT ![d.token].response = d.response]
       /\ handler' = [Idle EXCEPT !.holder = holder, !.step = "retire", !.resume = "complete"]
  ELSE UNCHANGED <<gpuCommands, handler>>

(* Mutant of Deliver: the callback waits for deviceLock. *)
BlockingDeliver(d) ==
  /\ d \in delivering
  /\ handler.holder = "free"
  /\ delivering' = delivering \ {d}
  /\ CompleteLocked(d, "callback")
  /\ UNCHANGED <<ring, used, irq, queue, interruptStatus, nextGPUCommandToken, gate,
                 posted, drains>>

(* completeDeferredGPUCommand: deviceLock.try *)
Deliver(d) ==
  /\ d \in delivering
  /\ delivering' = delivering \ {d}
  /\ IF handler.holder = "free"
     THEN CompleteLocked(d, "callback") /\ UNCHANGED posted
     ELSE posted' = Append(posted, d) /\ UNCHANGED <<gpuCommands, handler>>
  /\ UNCHANGED <<ring, used, irq, queue, interruptStatus, nextGPUCommandToken, gate,
                 drains>>

(* The completion dispatch queue, one closure at a time *)
RunPosted ==
  /\ posted # <<>>
  /\ handler.holder = "free"
  /\ posted' = Tail(posted)
  /\ CompleteLocked(Head(posted), "async")
  /\ UNCHANGED <<ring, used, irq, queue, interruptStatus, nextGPUCommandToken, gate,
                 delivering, drains>>

-----------------------------------------------------------------------------
Init ==
  /\ avail = [q \in Queues |-> <<>>]
  /\ used = [q \in Queues |-> <<>>]
  /\ offered = 0
  /\ kick = [q \in Queues |-> FALSE]
  /\ seen = [q \in Queues |-> 0]
  /\ inISR = FALSE
  /\ ready = [q \in Queues |-> FALSE]
  /\ lastAvailableIndex = [q \in Queues |-> 0]
  /\ interruptStatus = FALSE
  /\ gpuCommands = [t \in {} |-> 0]
  /\ nextGPUCommandToken = 0
  /\ handler = Idle
  /\ reservations = [t \in {} |-> 0]
  /\ accelerator = TRUE
  /\ resetEpoch = 0
  /\ delivering = {}
  /\ posted = <<>>
  /\ drains = 0

Driver == (\E s \in Shapes : Offer(s)) \/ ScanUsedRings \/ AcknowledgeInterrupt
          \/ \E q \in Queues : EnableQueue(q) \/ Notify(q)

Draining == BeginReset \/ FinishReset \/ BeginReplaceAccelerator \/ FinishReplaceAccelerator

Processing ==
  \/ Stage \/ StageEnd \/ DispatchEnd \/ RetireEnd
  \/ \E t \in Tokens : DispatchNow(t) \/ DispatchDeferred(t) \/ DispatchInline(t)
                       \/ Retire(t) \/ RetireThrows(t)

Callbacks ==
  \/ \E t \in DOMAIN reservations : AcceleratorCompletes(t)
  \/ \E d \in delivering : Deliver(d)
  \/ RunPosted

Next == Driver \/ Draining \/ Processing \/ Callbacks

(***************************************************************************)
(* Threads inside the lock keep running, started drains are not abandoned,  *)
(* the accelerator and Metal complete every submission, dispatch queues run *)
(* what is posted, and the driver sends the notifications it owes.  Nothing *)
(* is assumed about new requests, resets or replacements.  Deliver, RunPosted*)
(* and Notify compete for the lock with AcknowledgeInterrupt and the like,   *)
(* whose number is bounded, so weak fairness on the waiters would let the    *)
(* lock pass them by: a mutex that is free again and again is granted (SF).  *)
(***************************************************************************)
Fairness ==
  /\ WF_vars(Processing)
  /\ WF_vars(FinishReset \/ FinishReplaceAccelerator)
  /\ WF_vars(\E t \in DOMAIN reservations : AcceleratorCompletes(t))
  /\ WF_vars(\E d \in delivering : Deliver(d))
  /\ SF_vars(RunPosted)
  /\ \A q \in Queues : SF_vars(Notify(q))

Spec == Init /\ [][Next]_vars
FairSpec == Spec /\ Fairness

-----------------------------------------------------------------------------
(* Properties *)

CommandType == [id : Nat \ {0}, shape : Shapes, position : Nat \ {0},
                started : BOOLEAN, response : Int]
RequestType == [id : Nat \ {0}, shape : Shapes]
HandlerType == [holder : {"free", "mmio", "host", "callback", "async"},
                step : {"idle", "stage", "dispatch", "retire", "reset", "replace"},
                queue : Queues, availableIndex : Nat, dispatched : BOOLEAN,
                stagingError : BOOLEAN, resume : {"loop", "dispatch", "complete"},
                cursorNext : BOOLEAN]
CompletionType == [token : Nat, response : Int]

(* Types of the device, ring, gate and driver state. *)
TypeOK ==
  /\ avail \in [Queues -> Seq(RequestType)]
  /\ used \in [Queues -> Seq([id : Nat \ {0}, response : Int])]
  /\ offered \in Nat
  /\ kick \in [Queues -> BOOLEAN]
  /\ seen \in [Queues -> Nat]
  /\ inISR \in BOOLEAN
  /\ ready \in [Queues -> BOOLEAN]
  /\ lastAvailableIndex \in [Queues -> Nat]
  /\ interruptStatus \in BOOLEAN
  /\ Tokens \subseteq 1..nextGPUCommandToken
  /\ gpuCommands \in [Tokens -> CommandType]
  /\ nextGPUCommandToken \in Nat
  /\ handler \in HandlerType
  /\ handler.holder = "free" <=> handler.step = "idle"
  /\ DOMAIN reservations \subseteq 1..nextGPUCommandToken
  /\ reservations \in [DOMAIN reservations -> [id : Nat \ {0}, shape : Shapes, epoch : Nat]]
  /\ accelerator \in BOOLEAN
  /\ resetEpoch \in Nat
  /\ delivering \subseteq CompletionType
  /\ posted \in Seq(CompletionType)
  /\ drains \in Nat

(* A command never starts while an earlier one it conflicts with is         *)
(* unfinished, whatever completes out of order: nextRunnableGPUCommand      *)
(* keeps every resource hazard in staging order.                            *)
HazardOrder ==
  \A t, u \in Tokens :
    u < t /\ gpuCommands[t].started /\ Conflicts(gpuCommands[t].shape, gpuCommands[u].shape)
      => gpuCommands[u].response # NoResponse

(* Every used-ring entry answers the request the guest offered in that      *)
(* place, with that request's own response: retirement is in queue order,   *)
(* nothing is answered twice, and no completion from before a reset gets    *)
(* into a new ring.                                                         *)
UsedInOrder ==
  \A q \in Queues :
    /\ Len(used[q]) <= Len(avail[q])
    /\ \A n \in 1..Len(used[q]) :
         used[q][n].id = avail[q][n].id /\ used[q][n].response = avail[q][n].id

(* The limits of the pipeline hold at every step: commands that run, and    *)
(* staged commands, the completed ones that wait for retirement included.   *)
WithinLimits ==
  /\ Cardinality(Active) <= maximumInFlightGPUCommands
  /\ Cardinality(Tokens) <= maximumPendingGPUCommands

(* "Out-of-order completions must not allow an unbounded backlog": the      *)
(* bytes of all retained requests stay within the budget.                   *)
WithinByteBudget == RetainedBytes <= maximumPendingGPURequestBytes

(* A vCPU that dispatches never waits in ExecutionGate.begin for a fence:   *)
(* what nextRunnableGPUCommand lets through conflicts with no reservation.  *)
(* processDeferred promises to start commands "without holding the calling  *)
(* vCPU until the host GPU completes".                                      *)
DispatchNeverWaits ==
  handler.step = "dispatch" =>
    \A t \in Tokens : Runnable(t) => GateOpen(gpuCommands[t].shape)

(* Work in flight was submitted in the current epoch to the accelerator     *)
(* that is still attached: reset and replacement drain first, so the        *)
(* epoch check of the completion handler never fails.                       *)
InFlightIsCurrent ==
  \A r \in DOMAIN reservations : accelerator /\ reservations[r].epoch = resetEpoch

(* A used entry the driver has not looked at is announced: the interrupt is *)
(* up, or the driver acknowledged it and is still to scan the rings.        *)
InterruptNotLost ==
  \A q \in Queues : ready[q] /\ seen[q] < Len(used[q]) => interruptStatus \/ inISR

(* After a reset the device leaves the old rings alone: used changes only   *)
(* while the queue is ready, or when the driver supplies a new ring.        *)
QuietAfterReset ==
  [][\A q \in Queues : used'[q] # used[q] /\ ~ready[q] => used'[q] = <<>>]_vars

(* Reset and accelerator replacement always come back, even when the        *)
(* accelerator delivers its callbacks one at a time: a callback gives up on *)
(* deviceLock instead of keeping the next one from releasing a reservation. *)
DrainTerminates == []<>(handler.step \notin {"reset", "replace"})

AnswerFits(s) == s.queue = Control => s.fits

(* Request n is offered on a ready queue, and no request that the device    *)
(* cannot process stands before it, on the other queue, or unanswerable.    *)
Answerable(n) ==
  \E q \in Queues : ready[q] /\ \E p \in 1..Len(avail[q]) :
    /\ avail[q][p].id = n
    /\ \A i \in 1..p : ~Malformed(avail[q][i].shape)
    /\ \A r \in Queues \ {q} : \A i \in 1..Len(avail[r]) : ~Malformed(avail[r][i].shape)
    /\ \A r \in Queues : \A i \in 1..Len(avail[r]) : AnswerFits(avail[r][i].shape)

Answered(n) == \E q \in Queues : \E p \in 1..Len(used[q]) : used[q][p].id = n

(* Every well-formed request is answered unless a reset or an unusable      *)
(* request intervenes: no request is forgotten at the staging limits, behind*)
(* a hazard, or because its completion found the lock taken.                *)
EveryRequestAnswered == []<>(\A n \in 1..MaxOffers : Answerable(n) => Answered(n))

-----------------------------------------------------------------------------
(* The inductive invariant behind the safety properties *)

(* processingGPUCommands *)
InProcessQueue ==
  \/ handler.step \in {"stage", "dispatch"}
  \/ handler.step = "retire" /\ handler.resume # "complete"

RingIndices(q) ==
  /\ lastAvailableIndex[q] <= Len(avail[q])
  /\ ready[q] => Len(used[q]) <= lastAvailableIndex[q]
  /\ ~ready[q] => lastAvailableIndex[q] = 0
  /\ \A n \in 1..Len(avail[q]) : avail[q][n].shape.queue = q

(* The indices of a ring do not pass each other. *)
Indices ==
  /\ \A q \in Queues : RingIndices(q)
  /\ InProcessQueue => /\ ready[handler.queue]
                       /\ lastAvailableIndex[handler.queue] <= handler.availableIndex
                       /\ handler.availableIndex <= Len(avail[handler.queue])

QueueOf(t) == gpuCommands[t].shape.queue

InItsPlace(t) ==
  /\ ready[QueueOf(t)]
  /\ Len(used[QueueOf(t)]) < gpuCommands[t].position
  /\ gpuCommands[t].position <= lastAvailableIndex[QueueOf(t)]
  /\ avail[QueueOf(t)][gpuCommands[t].position].id = gpuCommands[t].id

InTokenOrder(t, u) ==
  u < t /\ QueueOf(u) = QueueOf(t) => gpuCommands[u].position < gpuCommands[t].position

PlaceIsStaged(q, n) == \E t \in Tokens : QueueOf(t) = q /\ gpuCommands[t].position = n

(* Each staged command stands for one place of its ring, in token order,    *)
(* and no place between the used and the available index is without one.    *)
Positions ==
  /\ \A t \in Tokens : InItsPlace(t)
  /\ \A t, u \in Tokens : InTokenOrder(t, u)
  /\ \A q \in Queues : ready[q] =>
       \A n \in Len(used[q]) + 1 .. lastAvailableIndex[q] : PlaceIsStaged(q, n)

AnswerIsOwn(t) ==
  /\ gpuCommands[t].response \in {NoResponse, gpuCommands[t].id}
  /\ gpuCommands[t].response # NoResponse => gpuCommands[t].started

(* A response is the command's own, and only a started command has one. *)
Answers == \A t \in Tokens : AnswerIsOwn(t)

ReservedFor(r) ==
  /\ reservations[r].epoch = resetEpoch
  /\ accelerator
  /\ handler.step # "reset" => r \in Tokens
  /\ r \in Tokens => /\ gpuCommands[r].started
                      /\ gpuCommands[r].response = NoResponse
                      /\ reservations[r].id = gpuCommands[r].id
                      /\ reservations[r].shape = gpuCommands[r].shape

(* Reservations belong to running commands, except while reset waits. *)
Reserved == \A r \in DOMAIN reservations : ReservedFor(r)

LateFor(d) ==
  /\ d.token <= nextGPUCommandToken
  /\ d.token \notin DOMAIN reservations
  /\ d.token \in Tokens => /\ gpuCommands[d.token].started
                            /\ d.response = gpuCommands[d.token].id

(* A completion on its way holds no reservation, comes from a token that    *)
(* was handed out, and carries the response of its command.                 *)
Late ==
  /\ \A d \in delivering : LateFor(d)
  /\ \A i \in 1..Len(posted) : LateFor(posted[i])

(* The conjunction the theorems rest on. *)
PipelineInvariant ==
  /\ TypeOK
  /\ Indices
  /\ Positions
  /\ Answers
  /\ Reserved
  /\ Late
  /\ UsedInOrder
  /\ HazardOrder
================================================================================
