---------------------------- MODULE TouchMotionQueue ----------------------------
(***************************************************************************)
(* TouchMotionQueue, the single-contact FIFO used by the app in front of    *)
(* the virtual machine and again inside the virtio touchscreen.  The Swift  *)
(* type is a struct whose methods mutate it under its owner's lock, so it   *)
(* is modelled as a record and its methods as operators.  Timestamps are in *)
(* TouchClock; trace identities are telemetry and left out.                 *)
(***************************************************************************)
EXTENDS Integers, Sequences, FiniteSets, FiniteSetsExt

Edges == {"down", "up", "cancel"}
NoPoint == 0                    \* lastPoint == nil; points are positive

(* limit = 0 stands for maximumPendingMotionSamplesPerGesture == nil *)
EmptyQueue(capacity, limit) ==
  [capacity |-> capacity, limit |-> limit, entries |-> <<>>, active |-> FALSE,
   rejectingContact |-> FALSE, lastPoint |-> NoPoint,
   discardedMotionCount |-> 0, rejectedGestureCount |-> 0]

IsDown(phase) == phase \in {"down", "move"}

Entry(phase, point, finalMove) == [phase |-> phase, point |-> point, finalMove |-> finalMove]

(* The entries that stay, in their order: entry i is the one up to which i stay *)
Without(entries, gone) ==
  LET kept == DOMAIN entries \ gone
      place(i) == CHOOSE j \in kept : Cardinality({k \in kept : k <= j}) = i
  IN  [i \in 1..Cardinality(kept) |-> entries[place(i)]]

Evictable(entry) == entry.phase = "move" /\ ~entry.finalMove

(* makeRoom: the oldest evictable entries go until count <= room *)
MakeRoom(q, room) ==
  LET evictable == {i \in DOMAIN q.entries : Evictable(q.entries[i])}
      gone == {i \in evictable :
                 Cardinality({j \in evictable : j < i}) < Len(q.entries) - room}
  IN  [q EXCEPT !.entries = Without(@, gone), !.discardedMotionCount = @ + Cardinality(gone)]

(* Only the newest motion samples of the active contact stay *)
CompactPendingMotionHistory(q) ==
  LET edges == {i \in DOMAIN q.entries : q.entries[i].phase # "move"}
      start == IF edges = {} THEN 1 ELSE Max(edges) + 1
      excess == Len(q.entries) - (start - 1) - q.limit
  IN  IF q.limit = 0 \/ excess <= 0 THEN q
      ELSE [q EXCEPT !.entries = Without(@, start .. start + excess - 1),
                     !.discardedMotionCount = @ + excess]

(* A press or a move leaves room for itself, a final point and a release *)
SampleLimit(q) == q.capacity - 3

Accepted(q) == [accepted |-> TRUE, queue |-> q]
Rejected(q) == [accepted |-> FALSE, queue |-> q]

EnqueueDown(q, point) ==
  LET roomy == MakeRoom(q, SampleLimit(q))
  IN  IF q.active THEN Rejected(q)
      ELSE IF Len(roomy.entries) > SampleLimit(q)
      THEN Rejected([roomy EXCEPT !.rejectingContact = TRUE, !.rejectedGestureCount = @ + 1])
      ELSE Accepted([roomy EXCEPT !.active = TRUE, !.lastPoint = point,
                                  !.entries = Append(@, Entry("down", point, FALSE))])

EnqueueMove(q, point) ==
  LET roomy == MakeRoom(q, SampleLimit(q))
  IN  IF ~q.active THEN Rejected(q)
      ELSE IF Len(roomy.entries) > SampleLimit(q) THEN Rejected(roomy)
      ELSE Accepted(CompactPendingMotionHistory(
             [roomy EXCEPT !.lastPoint = point,
                           !.entries = Append(@, Entry("move", point, FALSE))]))

(* Mutant of FinalPoint: the release does not carry its point. *)
NoFinalPoint(q, point) == q.entries

(* The point of the release goes ahead of it as a protected move, or        *)
(* protects the move that already has it.                                   *)
FinalPoint(q, point) ==
  LET n == Len(q.entries)
  IN  IF q.lastPoint # point THEN Append(q.entries, Entry("move", point, TRUE))
      ELSE IF n > 0 /\ q.entries[n].phase = "move"
      THEN [q.entries EXCEPT ![n].finalMove = TRUE]
      ELSE q.entries

EnqueueRelease(q, phase, point) ==
  IF ~q.active THEN Rejected(q)
  ELSE Accepted([q EXCEPT !.active = FALSE, !.lastPoint = NoPoint,
                          !.entries = Append(FinalPoint(q, point), Entry(phase, point, FALSE))])

(* A touch without a phase gets one from the state of the contact *)
PhaseOf(q, touch) ==
  IF touch.phase # "none" THEN touch.phase
  ELSE IF ~touch.isDown THEN "up"
  ELSE IF q.active THEN "move" ELSE "down"

(* enqueue: the queue afterwards, and whether the touch was accepted *)
Enqueue(q, touch) ==
  LET phase == PhaseOf(q, touch)
  IN  IF touch.phase # "none" /\ IsDown(touch.phase) # touch.isDown THEN Rejected(q)
      ELSE IF q.rejectingContact
      THEN Rejected([q EXCEPT !.rejectingContact = touch.isDown])
      ELSE CASE phase = "down" -> EnqueueDown(q, touch.point)
             [] phase = "move" -> EnqueueMove(q, touch.point)
             [] phase \in {"up", "cancel"} -> EnqueueRelease(q, phase, touch.point)

(* drain(maxCount:) and popFirst *)
Drain(q, n) == [q EXCEPT !.entries = SubSeq(@, n + 1, Len(@))]

(* removeAll *)
RemoveAll(q) == EmptyQueue(q.capacity, q.limit)

(* What the next owner is given: the event, not finalMove *)
TouchOf(entry) == [phase |-> entry.phase, isDown |-> IsDown(entry.phase), point |-> entry.point]

(* A batch of them, one after the other *)
EnqueueAll(q, batch) ==
  LET after[n \in 0..Len(batch)] ==
        IF n = 0 THEN q ELSE Enqueue(after[n - 1], TouchOf(batch[n])).queue
  IN  after[Len(batch)]
================================================================================
