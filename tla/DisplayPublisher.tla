-------------------------- MODULE DisplayPublisher ---------------------------
(***************************************************************************)
(* The task that advertises committed display frames to the UI.  The GPU   *)
(* device commits frames under its lock and, when a pass over its queues   *)
(* has moved the frame generation, notes the final one on                  *)
(* DisplayCommitSignal.  The publisher compares the noted generation with  *)
(* the one it advertised last, asks the device for newer metadata, hands   *)
(* it to the main actor, and otherwise suspends.  Its wait has no timeout, *)
(* so a note it misses is missed for good.  Frames are their generations.  *)
(***************************************************************************)
EXTENDS WakeWaiters, Integers

CONSTANT MaxCommits     \* bound on the generations of a behaviour

NoFrame == -1           \* publishedGeneration is nil

VARIABLES
    committed,      \* the device's committedGeneration
    hasFrame,       \* hasCommittedFrame: FALSE from a reset to the next commit
    noting,         \* a queue pass moved the generation and has yet to note it
    noted,          \* DisplayCommitSignal.generation
    pc,             \* the publisher's position in its loop
    snapshot,       \* the noted generation this round started from
    metadata,       \* the generation of the metadata in hand
    published,      \* publishedGeneration, else NoFrame
    feed            \* the generation displayFeed advertised last, else NoFrame

frameVars == <<committed, hasFrame, noting, noted>>
loopVars == <<pc, snapshot, metadata, published, feed>>
vars == <<waiterVars, frameVars, loopVars>>

Init ==
    /\ WaiterInit
    /\ committed = 0
    /\ hasFrame = FALSE
    /\ noting = FALSE
    /\ noted = 0
    /\ pc = "snapshot"
    /\ snapshot = 0
    /\ metadata = NoFrame
    /\ published = NoFrame
    /\ feed = NoFrame

-----------------------------------------------------------------------------
(* The device.                                                             *)

\* A flush, scanout or cursor command commits a frame inside processGPUQueue;
\* a pass may commit several.
CommitFrame ==
    /\ committed < MaxCommits
    /\ committed' = committed + 1
    /\ hasFrame' = TRUE
    /\ noting' = TRUE
    /\ UNCHANGED <<waiterVars, noted, loopVars>>

Note ==
    /\ noting
    /\ noting' = FALSE
    /\ IF committed > noted
         THEN noted' = committed /\ TakeAll
         ELSE UNCHANGED <<noted, waiterVars>>
    /\ UNCHANGED <<committed, hasFrame, loopVars>>

\* A device reset clears the frame and moves the generation without a note;
\* it holds the device lock, so it never falls between a commit and its note.
ResetDevice ==
    /\ ~noting
    /\ committed < MaxCommits
    /\ committed' = committed + 1
    /\ hasFrame' = FALSE
    /\ UNCHANGED <<waiterVars, noting, noted, loopVars>>

-----------------------------------------------------------------------------
(* The publisher's loop.                                                   *)

LeaveLoop ==
    /\ pc = "snapshot"
    /\ cancelled
    /\ pc' = "done"
    /\ UNCHANGED <<waiterVars, frameVars, snapshot, metadata, published, feed>>

\* The loop head reads the noted generation; if it was advertised already the
\* publisher waits for the next.
TakeSnapshot ==
    /\ pc = "snapshot"
    /\ ~cancelled
    /\ snapshot' = noted
    /\ pc' = IF noted = published THEN "enter" ELSE "metadata"
    /\ UNCHANGED <<waiterVars, frameVars, metadata, published, feed>>

\* displayFrameMetadata(afterGeneration:) under the device's frame lock.
ReadMetadata ==
    /\ pc = "metadata"
    /\ IF hasFrame /\ published # committed
         THEN metadata' = committed /\ pc' = "publish"
         ELSE pc' = "enter" /\ UNCHANGED metadata
    /\ UNCHANGED <<waiterVars, frameVars, snapshot, published, feed>>

\* recordDisplayPublished and publishedGeneration, then the hop to the main
\* actor, which the publisher awaits.
Publish ==
    /\ pc = "publish"
    /\ published' = metadata
    /\ pc' = "receipt"
    /\ UNCHANGED <<waiterVars, frameVars, snapshot, metadata, feed>>

\* recordDisplayMetadata on the main actor.
Advertise ==
    /\ pc = "receipt"
    /\ feed' = metadata
    /\ pc' = "snapshot"
    /\ UNCHANGED <<waiterVars, frameVars, snapshot, metadata, published>>

EnterWait ==
    /\ pc = "enter"
    /\ \E id \in WaitIds : BeginWait(id)
    /\ pc' = "register"
    /\ UNCHANGED <<frameVars, snapshot, metadata, published, feed>>

\* wait(after:) under the signal's lock.  Broken: without the comparison.
RegisterUnchecked ==
    /\ pc = "register"
    /\ IF ~cancelled THEN Store(FALSE) ELSE UNCHANGED waiterVars
    /\ pc' = "waiting"
    /\ UNCHANGED <<frameVars, snapshot, metadata, published, feed>>

Register ==
    /\ pc = "register"
    /\ IF noted = snapshot /\ ~cancelled
         THEN Store(FALSE) ELSE UNCHANGED waiterVars
    /\ pc' = "waiting"
    /\ UNCHANGED <<frameVars, snapshot, metadata, published, feed>>

LeaveWait ==
    /\ pc = "waiting"
    /\ EndWait
    /\ pc' = "snapshot"
    /\ UNCHANGED <<frameVars, snapshot, metadata, published, feed>>

Publisher ==
    \/ LeaveLoop \/ TakeSnapshot \/ ReadMetadata \/ Publish \/ Advertise
    \/ EnterWait \/ Register \/ LeaveWait

StopRequested == Cancel /\ UNCHANGED <<frameVars, loopVars>>
CancelHandler(id) == RunCancelHandler(id) /\ UNCHANGED <<frameVars, loopVars>>
ResumeTask(id) == Resume(id) /\ UNCHANGED <<frameVars, loopVars>>

Next ==
    \/ CommitFrame \/ Note \/ ResetDevice
    \/ Publisher
    \/ StopRequested
    \/ \E id \in WaitIds : CancelHandler(id) \/ ResumeTask(id)

Spec == Init /\ [][Next]_vars

\* The device finishes the pass it is in, the publisher and the main actor
\* are scheduled, and threads that took a continuation resume it.
Fairness ==
    /\ WF_vars(Note)
    /\ WF_vars(Publisher)
    /\ \A id \in WaitIds : WF_vars(CancelHandler(id)) /\ WF_vars(ResumeTask(id))

FairSpec == Spec /\ Fairness

-----------------------------------------------------------------------------
(* Properties.                                                             *)

TypeOK ==
    /\ WaiterTypes
    /\ committed \in Nat /\ noted \in Nat /\ snapshot \in Nat
    /\ hasFrame \in BOOLEAN
    /\ noting \in BOOLEAN
    /\ pc \in {"snapshot", "metadata", "publish", "receipt", "enter",
               "register", "waiting", "done"}
    /\ metadata \in Nat \cup {NoFrame}
    /\ published \in Nat \cup {NoFrame}
    /\ feed \in Nat \cup {NoFrame}

\* The last frame of a burst reaches the UI, although the wait is not timed,
\* unless a reset takes it away or the publisher is stopped.
FrameIsAdvertised ==
    []<>(hasFrame => feed = committed \/ cancelled)

\* A cancelled publisher finishes, so that the cleanup that awaits it does.
StopEndsPublisher == []<>(cancelled => pc = "done")

\* The publisher never sleeps where it has something left to do: it advertises
\* the last frame, and it ends when stop() cancels it.
PublisherProgress == FrameIsAdvertised /\ StopEndsPublisher
=============================================================================
