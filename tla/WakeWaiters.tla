----------------------------- MODULE WakeWaiters -----------------------------
(***************************************************************************)
(* The continuation protocol that HostWakeSignal and DisplayCommitSignal   *)
(* share.  One task suspends itself on a checked continuation and stores   *)
(* it in the dictionary `waiters` under a fresh UUID; a signal, a timeout  *)
(* and the task's cancellation handler race to take it out again.  Each    *)
(* takes the continuation under the lock and resumes it after unlocking,   *)
(* so between the two the continuation is in that thread's hands only.     *)
(* Swift traps when a continuation is resumed twice and leaks the task     *)
(* when it is never resumed.                                               *)
(***************************************************************************)
EXTENDS Naturals, FiniteSets

CONSTANTS
    WaitIds,    \* the UUIDs that `wait` draws its identifiers from
    NoWait      \* no wait call is in progress

ASSUME NoWaitFresh == NoWait \notin WaitIds

VARIABLES
    waiters,    \* identifiers whose continuation is stored in the dictionary
    hands,      \* per identifier: threads about to resume its continuation
    suspended,  \* the task is suspended on the continuation of its last wait
    wait,       \* identifier of the wait call in progress, else NoWait
    timers,     \* identifiers with a timeout closure that has not run yet
    cancelled,  \* Task.isCancelled of the waiting task
    onCancel    \* identifiers whose onCancel closure is about to run

waiterVars == <<waiters, hands, suspended, wait, timers, cancelled, onCancel>>

WaiterTypes ==
    /\ waiters \subseteq WaitIds
    /\ hands \in [WaitIds -> Nat]
    /\ suspended \in BOOLEAN
    /\ wait \in WaitIds \cup {NoWait}
    /\ timers \subseteq WaitIds
    /\ cancelled \in BOOLEAN
    /\ onCancel \subseteq WaitIds

WaiterInit ==
    /\ waiters = {}
    /\ hands = [i \in WaitIds |-> 0]
    /\ suspended = FALSE
    /\ wait = NoWait
    /\ timers = {}
    /\ cancelled = FALSE
    /\ onCancel = {}

\* An identifier that no dictionary entry and no closure still mentions.
Fresh(id) == id \notin timers \cup onCancel

\* Entering wait(): a new UUID, and the cancellation handler installed.  A
\* handler installed on a cancelled task runs at once; it finds no entry for
\* the new identifier, so it changes nothing.
BeginWait(id) ==
    /\ wait = NoWait
    /\ Fresh(id)
    /\ wait' = id
    /\ UNCHANGED <<waiters, hands, suspended, timers, cancelled, onCancel>>

\* The locked part of wait(): store the continuation, or resume it on the
\* spot, which leaves the task running.  `timed` says that a timeout closure
\* is scheduled for the identifier.
Store(timed) ==
    /\ waiters' = waiters \cup {wait}
    /\ suspended' = TRUE
    /\ timers' = IF timed THEN timers \cup {wait} ELSE timers
    /\ UNCHANGED <<hands, wait, cancelled, onCancel>>

\* Leaving wait(): the cancellation handler is removed.
EndWait ==
    /\ wait # NoWait
    /\ ~suspended
    /\ wait' = NoWait
    /\ UNCHANGED <<waiters, hands, suspended, timers, cancelled, onCancel>>

\* The locked part of signal(): every stored continuation is taken.  Broken:
\* the dictionary keeps the entries it hands out.
TakeAllKeepsEntries ==
    /\ hands' = [i \in WaitIds |-> IF i \in waiters THEN hands[i] + 1 ELSE hands[i]]
    /\ UNCHANGED <<waiters, suspended, wait, timers, cancelled, onCancel>>

TakeAll ==
    /\ hands' = [i \in WaitIds |-> IF i \in waiters THEN hands[i] + 1 ELSE hands[i]]
    /\ waiters' = {}
    /\ UNCHANGED <<suspended, wait, timers, cancelled, onCancel>>

\* The locked part of resumeWaiter(_:): one continuation is taken, if it is
\* still stored.
Take(id) ==
    /\ hands' = [hands EXCEPT ![id] = IF id \in waiters THEN @ + 1 ELSE @]
    /\ waiters' = waiters \ {id}

\* A thread that took a continuation resumes it after unlocking.
Resume(id) ==
    /\ hands[id] > 0
    /\ hands' = [hands EXCEPT ![id] = @ - 1]
    /\ suspended' = IF id = wait THEN FALSE ELSE suspended
    /\ UNCHANGED <<waiters, wait, timers, cancelled, onCancel>>

\* The timeout closure of a wait that may long be over.
TimeoutFires(id) ==
    /\ id \in timers
    /\ timers' = timers \ {id}
    /\ Take(id)
    /\ UNCHANGED <<suspended, wait, cancelled, onCancel>>

\* Task.cancel(): the flag is set, then the handler installed at that moment
\* runs on the cancelling thread.
Cancel ==
    /\ ~cancelled
    /\ cancelled' = TRUE
    /\ onCancel' = IF wait = NoWait THEN onCancel ELSE onCancel \cup {wait}
    /\ UNCHANGED <<waiters, hands, suspended, wait, timers>>

RunCancelHandler(id) ==
    /\ id \in onCancel
    /\ onCancel' = onCancel \ {id}
    /\ Take(id)
    /\ UNCHANGED <<suspended, wait, timers, cancelled>>

(***************************************************************************)
(* A suspended task has exactly one party that can resume it: the          *)
(* dictionary, or one thread that took its continuation.  A running task   *)
(* has none.  So HostWakeSignal.signal, the timeout and onCancel never     *)
(* resume a continuation twice and never drop one, however they race.      *)
(***************************************************************************)
ExactlyOneResumer ==
    /\ suspended =>
         /\ wait \in WaitIds
         /\ waiters \subseteq {wait}
         /\ hands[wait] = IF wait \in waiters THEN 0 ELSE 1
         /\ \A i \in WaitIds \ {wait} : hands[i] = 0
    /\ ~suspended =>
         /\ waiters = {}
         /\ \A i \in WaitIds : hands[i] = 0
=============================================================================
