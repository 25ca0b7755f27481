------------------------ MODULE FramePresentationProofs ------------------------
(***************************************************************************)
(* Proofs about FramePresentation for any screen, any textures and any     *)
(* number of commits, resets and faults.                                   *)
(***************************************************************************)
EXTENDS FramePresentation, FiniteSetTheorems, TLAPS

-----------------------------------------------------------------------------
(* Types.                                                                  *)

Optional(S) == S \cup {Nothing}
Sources == [base : Nat, generation : Nat, present : BOOLEAN, running : BOOLEAN, changed : Pictures]
Schedulers ==
    [epoch : Nat, active : Optional(Slots), latest : Optional(Frames), uploaded : Optional(Frames),
     displayed : Optional(Frames), redraw : BOOLEAN]
Views ==
    [attached : BOOLEAN, window : BOOLEAN, paused : BOOLEAN, frame : Optional(StagedFrames), metalDisabled : BOOLEAN,
     image : Optional(Pictures), fallbackHidden : BOOLEAN, metalHidden : BOOLEAN, drawable : Optional(Pictures)]
StagingJobs == [ticket : Tickets, lease : Leases, previous : Optional(StagedFrames), metal : BOOLEAN]
StagedJobs == [ticket : Tickets, frame : Optional(StagedFrames)]
GPUJobs == [ticket : Tickets, frame : StagedFrames, sent : Pictures]

\* A source o, textures p, a scheduler s, a view v, and the jobs w on the worker,
\* d on their way back and g on the GPU.
Typed(o, p, s, v, w, d, g) ==
    /\ o \in Sources /\ p \in [Textures -> Pictures] /\ s \in Schedulers /\ v \in Views
    /\ w \subseteq StagingJobs /\ d \subseteq StagedJobs /\ g \subseteq GPUJobs

PresentationTypes ==
    /\ Typed(source, pixels, sched, view, staging, staged, gpu)
    /\ publisher \in [published : Optional(Nat), notice : Optional(Frames)] /\ feed \in Optional(Frames)
    /\ resets \in Nat /\ faults \in Nat

-----------------------------------------------------------------------------
(* The inductive invariant.  Its parts are predicates of values, so that a *)
(* callback that calls several methods can be followed from one method to  *)
(* the next.                                                               *)

Active(s) == s.active # Nothing
InPhase(s, phase) == Active(s) /\ s.active.phase = phase
\* The slot was reserved in the scheduler's present epoch.
Current(s) == Active(s) /\ s.active.ticket.epoch = s.epoch

\* Who has the one job: nobody, the worker or the way back from it, or the GPU.
OnWorker(s, w) == \E j \in w : w = {j} /\ j.ticket = s.active.ticket /\ j.lease = s.active.lease
HeldBy(s, jobs) == \E j \in jobs : jobs = {j} /\ j.ticket = s.active.ticket
OneJob(s, w, d, g) ==
    /\ ~Active(s) \/ InPhase(s, "ready") => w = {} /\ d = {} /\ g = {}
    /\ InPhase(s, "uploading") => g = {} /\ ((OnWorker(s, w) /\ d = {}) \/ (w = {} /\ HeldBy(s, d)))
    /\ InPhase(s, "queued") => w = {} /\ d = {} /\ HeldBy(s, g)
\* A reset leaves nothing of the old epoch but the reservation.
Forgotten(s, v) == s.uploaded = Nothing /\ s.displayed = Nothing /\ v.frame = Nothing
Epochs(s, v) ==
    /\ Active(s) => s.active.ticket.epoch <= s.epoch
    /\ Active(s) /\ ~Current(s) => Forgotten(s, v)
    /\ InPhase(s, "ready") => Current(s)
    /\ ~v.attached => ~Current(s) /\ Forgotten(s, v)

\* A picture of a generation of the running guest: a tile that has not changed
\* since is as it is now.
PictureAt(o, picture, generation) ==
    /\ generation <= o.generation
    /\ \A t \in Tiles : o.changed[t] <= generation => picture[t] = o.base + o.changed[t]
\* While there is a frame, its last commit changed some tile.
Newest(o) ==
    /\ o.present => \E t \in Tiles : o.changed[t] = o.generation
    /\ \A t \in Tiles : o.changed[t] <= o.generation
\* A lease has a tile of its commit, and is the picture of its generation for as
\* long as the guest and the view stay connected.
Leased(o, s) ==
    /\ Active(s) => \E t \in Tiles : s.active.lease.pixels[t] = s.active.lease.time
    /\ Current(s) => PictureAt(o, s.active.lease.pixels, s.active.lease.generation)

PictureOf(p, frame) == IF frame.kind = "texture" THEN p[frame.texture] ELSE frame.pixels
IsTexture(frame) == frame # Nothing /\ frame.kind = "texture"
\* The texture that will be reused holds the baseline the scheduler asks damage for.
Baseline(o, p, s, v) ==
    IsTexture(v.frame) /\ s.uploaded # Nothing => PictureAt(o, p[v.frame.texture], s.uploaded.generation)
\* The texture the worker reuses differs from the lease in the damage at most.
Repairable(p, w) ==
    \A j \in w : IsTexture(j.previous) =>
      \A t \in Tiles \ j.lease.damage : p[j.previous.texture][t] = j.lease.pixels[t]
\* From the worker on, the pixels are the lease's.
Staged(p, s, v, d, g) ==
    /\ \A j \in d : j.frame # Nothing => PictureOf(p, j.frame) = s.active.lease.pixels
    /\ (InPhase(s, "ready") \/ InPhase(s, "queued")) /\ Current(s) =>
         v.frame # Nothing /\ PictureOf(p, v.frame) = s.active.lease.pixels
    /\ InPhase(s, "uploading") => v.frame = Nothing
    /\ \A j \in g : PictureOf(p, j.frame) = j.sent /\ j.sent = s.active.lease.pixels
\* What the scheduler holds displayed is on the screen, and what it has submitted
\* goes where it can be seen.
OnScreen(s, v) ==
    /\ s.displayed # Nothing => Screen(v) # Nothing /\ \E t \in Tiles : Screen(v)[t] = s.displayed.time
    /\ InPhase(s, "queued") /\ Current(s) => ~v.metalHidden

\* What the callbacks between a completion and the next acquisition keep.
Consistent(o, p, s, v, w, d, g) ==
    /\ OneJob(s, w, d, g) /\ Epochs(s, v) /\ Leased(o, s)
    /\ Baseline(o, p, s, v) /\ Repairable(p, w) /\ Staged(p, s, v, d, g) /\ OnScreen(s, v)

PresentationInvariant == Newest(source) /\ Consistent(source, pixels, sched, view, staging, staged, gpu)

-----------------------------------------------------------------------------
(* What the scheduler's and the view's methods do, field by field.         *)

\* nil is not a value.
LEMMA NothingIsNoValue ==
    /\ Nothing \notin Nat /\ Nothing \notin Pictures /\ Nothing \notin Frames /\ Nothing \notin Slots
    /\ Nothing \notin StagedFrames
  BY NothingAssumption

\* reset starts an epoch and keeps just the reservation of a worker or GPU job.
LEMMA ResetFacts ==
    ASSUME NEW s \in Schedulers
    PROVE  LET r == ResetScheduler(s)
           IN  /\ r \in Schedulers /\ r.epoch = s.epoch + 1
               /\ r.latest = Nothing /\ r.uploaded = Nothing /\ r.displayed = Nothing
               /\ r.active = IF InPhase(s, "ready") THEN Nothing ELSE s.active
  <1> DEFINE a == IF s.active # Nothing /\ s.active.phase = "ready" THEN Nothing ELSE s.active
             e == s.epoch + 1
  <1>1. a \in Optional(Slots) /\ e \in Nat
    BY DEF Schedulers, Optional
  <1>2. ResetScheduler(s) = [NewScheduler EXCEPT !.epoch = e, !.active = a]
    BY DEF ResetScheduler
  <1>3. a = IF InPhase(s, "ready") THEN Nothing ELSE s.active
    BY DEF InPhase, Active
  <1>4. /\ NewScheduler \in Schedulers
        /\ NewScheduler.latest = Nothing /\ NewScheduler.uploaded = Nothing /\ NewScheduler.displayed = Nothing
    BY DEF NewScheduler, Schedulers, Optional
  <1> HIDE DEF a, e
  <1>5. [NewScheduler EXCEPT !.epoch = e, !.active = a] \in Schedulers
    BY <1>1, <1>4 DEF Schedulers
  <1> DEFINE r == [NewScheduler EXCEPT !.epoch = e, !.active = a]
  <1>6. r.epoch = e /\ r.active = a /\ r.latest = Nothing /\ r.uploaded = Nothing /\ r.displayed = Nothing
    BY <1>4 DEF Schedulers
  <1> QED
    BY <1>2, <1>3, <1>5, <1>6 DEF e

\* A notice or a redraw leaves the slot and the frames it has shown alone.
SameSlot(r, s) ==
    r.epoch = s.epoch /\ r.active = s.active /\ r.uploaded = s.uploaded /\ r.displayed = s.displayed

\* receive takes a notice, unless it is older than what the scheduler knows.
LEMMA ReceiveFacts ==
    ASSUME NEW s \in Schedulers, NEW m \in Frames
    PROVE  Receive(s, m) \in Schedulers /\ SameSlot(Receive(s, m), s)
  BY DEF Receive, Schedulers, Optional, SameSlot

\* requestRedraw only asks for another refresh.
LEMMA RedrawFacts ==
    ASSUME NEW s \in Schedulers
    PROVE  RequestRedraw(s) \in Schedulers /\ SameSlot(RequestRedraw(s), s)
  BY DEF RequestRedraw, Schedulers, SameSlot

\* beginRefresh reserves the slot for a lease and a ticket.
LEMMA BeginRefreshFacts ==
    ASSUME NEW s \in Schedulers, NEW ticket \in Tickets, NEW lease \in Leases
    PROVE  LET r == BeginRefresh(s, ticket, lease)
           IN  /\ r \in Schedulers /\ r.epoch = s.epoch
               /\ r.uploaded = s.uploaded /\ r.displayed = s.displayed
               /\ r.active \in Slots /\ r.active.ticket = ticket /\ r.active.lease = lease
               /\ r.active.phase = "uploading"
  <1> DEFINE a == [ticket |-> ticket, lease |-> lease, phase |-> "uploading"]
             f == FrameOf(lease)
  <1>1. a \in Slots /\ a.ticket = ticket /\ a.lease = lease /\ a.phase = "uploading"
    BY DEF Slots
  <1>2. f \in Frames
    BY DEF Frames, FrameOf, Leases
  <1>3. BeginRefresh(s, ticket, lease) = [s EXCEPT !.latest = f, !.redraw = FALSE, !.active = a]
    BY DEF BeginRefresh
  <1> HIDE DEF a, f
  <1>4. BeginRefresh(s, ticket, lease) \in Schedulers
    BY <1>1, <1>2, <1>3 DEF Schedulers, Optional
  <1>5. /\ BeginRefresh(s, ticket, lease).epoch = s.epoch
        /\ BeginRefresh(s, ticket, lease).uploaded = s.uploaded
        /\ BeginRefresh(s, ticket, lease).displayed = s.displayed
        /\ BeginRefresh(s, ticket, lease).active = a
    BY <1>3 DEF Schedulers
  <1> QED
    BY <1>1, <1>4, <1>5

\* The slot moves to a phase and keeps its ticket and its lease.
Moved(r, s, phase) ==
    /\ r.active \in Slots /\ r.active.ticket = s.active.ticket /\ r.active.lease = s.active.lease
    /\ r.active.phase = phase /\ r.epoch = s.epoch /\ r.displayed = s.displayed

\* A slot in another phase.
LEMMA PhaseFacts ==
    ASSUME NEW s \in Schedulers, Active(s), NEW phase \in {"uploading", "ready", "queued"}
    PROVE  LET a == [s.active EXCEPT !.phase = phase]
           IN  a \in Slots /\ a.ticket = s.active.ticket /\ a.lease = s.active.lease /\ a.phase = phase
  <1>1. s.active \in Slots
    BY DEF Schedulers, Optional, Active
  <1> QED
    BY <1>1 DEF Slots

\* finishUpload of the job the slot waits for: it frees the slot when it is stale
\* or has failed.
LEMMA FinishUploadFacts ==
    ASSUME NEW s \in Schedulers, InPhase(s, "uploading"), NEW ok \in BOOLEAN
    PROVE  LET ticket == s.active.ticket
               r == FinishUpload(s, ticket, ok)
           IN  /\ r \in Schedulers
               /\ Discards(s, ticket, ok) <=> (~Current(s) \/ ~ok)
               /\ Discards(s, ticket, ok) =>
                    /\ r.active = Nothing /\ r.epoch = s.epoch /\ r.displayed = s.displayed
                    /\ r.uploaded = s.uploaded \/ r.uploaded = Nothing
               /\ ~Discards(s, ticket, ok) => Moved(r, s, "ready") /\ r.uploaded = FrameOf(s.active.lease)
  <1> DEFINE ticket == s.active.ticket
             a == [s.active EXCEPT !.phase = "ready"]
             f == FrameOf(s.active.lease)
  <1>1. s.active \in Slots
    BY DEF Schedulers, Optional, InPhase, Active
  <1>2. a \in Slots /\ a.ticket = ticket /\ a.lease = s.active.lease /\ a.phase = "ready"
    BY PhaseFacts DEF InPhase
  <1>3. f \in Frames
    BY <1>1 DEF Frames, FrameOf, Leases, Slots
  <1>4. Uploading(s, ticket)
    BY DEF InPhase, Active, Uploading
  <1>5. Discards(s, ticket, ok) <=> (~Current(s) \/ ~ok)
    BY <1>4 DEF Discards, Current, InPhase
  <1>6. CASE ticket.epoch # s.epoch
    <2>1. FinishUpload(s, ticket, ok) = [s EXCEPT !.active = Nothing]
      BY <1>4, <1>6 DEF FinishUpload
    <2> QED
      BY <2>1, <1>5, <1>6 DEF Schedulers, Optional, Current
  <1>7. CASE ticket.epoch = s.epoch /\ ~ok
    <2>1. FinishUpload(s, ticket, ok) = [s EXCEPT !.active = Nothing, !.uploaded = Nothing]
      BY <1>4, <1>7 DEF FinishUpload
    <2> QED
      BY <2>1, <1>5, <1>7 DEF Schedulers, Optional, Current
  <1>8. CASE ticket.epoch = s.epoch /\ ok
    <2>1. FinishUpload(s, ticket, ok) = [s EXCEPT !.uploaded = f, !.active.phase = "ready"]
      BY <1>4, <1>8 DEF FinishUpload
    <2>2. FinishUpload(s, ticket, ok) = [s EXCEPT !.uploaded = f, !.active = a]
      BY <2>1 DEF Schedulers
    <2>3. ~Discards(s, ticket, ok)
      BY <1>5, <1>8 DEF Current, InPhase
    <2> HIDE DEF a, f
    <2>4. [s EXCEPT !.uploaded = f, !.active = a] \in Schedulers
      BY <1>2, <1>3 DEF Schedulers, Optional
    <2>5. /\ [s EXCEPT !.uploaded = f, !.active = a].active = a
          /\ [s EXCEPT !.uploaded = f, !.active = a].uploaded = f
          /\ [s EXCEPT !.uploaded = f, !.active = a].epoch = s.epoch
          /\ [s EXCEPT !.uploaded = f, !.active = a].displayed = s.displayed
      BY DEF Schedulers
    <2> DEFINE r == FinishUpload(s, ticket, ok)
    <2>6. r \in Schedulers /\ r.active = a /\ r.uploaded = f /\ r.epoch = s.epoch /\ r.displayed = s.displayed
      BY <2>2, <2>4, <2>5
    <2> HIDE DEF r
    <2>7. Moved(r, s, "ready")
      BY <2>6, <1>2 DEF Moved
    <2>8. r.uploaded = FrameOf(s.active.lease)
      BY <2>6 DEF f
    <2> QED
      BY <2>3, <2>6, <2>7, <2>8, <1>5 DEF r
  <1> QED
    BY <1>6, <1>7, <1>8

\* markGPUQueued moves a ready slot of this epoch.
LEMMA MarkQueuedFacts ==
    ASSUME NEW s \in Schedulers, InPhase(s, "ready"), Current(s)
    PROVE  LET r == MarkQueued(s, s.active.ticket)
           IN  r \in Schedulers /\ Moved(r, s, "queued") /\ r.uploaded = s.uploaded
  <1> DEFINE a == [s.active EXCEPT !.phase = "queued"]
  <1>1. a \in Slots /\ a.ticket = s.active.ticket /\ a.lease = s.active.lease /\ a.phase = "queued"
    BY PhaseFacts DEF InPhase
  <1>2. MarkQueued(s, s.active.ticket) = [s EXCEPT !.active = a]
    BY DEF MarkQueued, InPhase, Active, Current, IsCurrent, Schedulers
  <1> HIDE DEF a
  <1> QED
    BY <1>1, <1>2 DEF Moved, Schedulers, Optional

\* complete of the job the slot waits for: a failure loses the baseline, a
\* success counts as displayed, and neither does across a reset.
LEMMA CompleteFacts ==
    ASSUME NEW s \in Schedulers, NEW ok \in BOOLEAN, Active(s), InPhase(s, "queued") \/ (~ok /\ InPhase(s, "ready"))
    PROVE  LET r == Complete(s, s.active.ticket, ok)
           IN  /\ r \in Schedulers /\ r.active = Nothing /\ r.epoch = s.epoch
               /\ Completes(s, s.active.ticket, ok)
               /\ ~Current(s) => r.uploaded = s.uploaded /\ r.displayed = s.displayed
               /\ Current(s) /\ ok => r.uploaded = s.uploaded /\ r.displayed = FrameOf(s.active.lease)
               /\ Current(s) /\ ~ok => r.uploaded = Nothing /\ r.displayed = s.displayed
  <1> DEFINE f == FrameOf(s.active.lease)
  <1>1. s.active \in Slots
    BY DEF Schedulers, Optional, Active
  <1>2. f \in Frames
    BY <1>1 DEF Frames, FrameOf, Leases, Slots
  <1>3. Completes(s, s.active.ticket, ok)
    BY DEF Completes, InPhase, Active
  <1>4. CASE s.active.ticket.epoch # s.epoch
    <2>1. Complete(s, s.active.ticket, ok) = [s EXCEPT !.active = Nothing]
      BY <1>3, <1>4 DEF Complete
    <2> QED
      BY <2>1, <1>3, <1>4 DEF Schedulers, Optional, Current
  <1>5. CASE s.active.ticket.epoch = s.epoch /\ ~ok
    <2>1. Complete(s, s.active.ticket, ok) = [s EXCEPT !.active = Nothing, !.uploaded = Nothing]
      BY <1>3, <1>5 DEF Complete
    <2> QED
      BY <2>1, <1>3, <1>5 DEF Schedulers, Optional, Current
  <1>6. CASE s.active.ticket.epoch = s.epoch /\ ok
    <2>1. Complete(s, s.active.ticket, ok) = [s EXCEPT !.active = Nothing, !.displayed = f]
      BY <1>3, <1>6 DEF Complete
    <2> HIDE DEF f
    <2>2. /\ [s EXCEPT !.active = Nothing, !.displayed = f] \in Schedulers
          /\ [s EXCEPT !.active = Nothing, !.displayed = f].active = Nothing
          /\ [s EXCEPT !.active = Nothing, !.displayed = f].epoch = s.epoch
          /\ [s EXCEPT !.active = Nothing, !.displayed = f].uploaded = s.uploaded
          /\ [s EXCEPT !.active = Nothing, !.displayed = f].displayed = f
      BY <1>2 DEF Schedulers, Optional
    <2>3. Current(s)
      BY <1>6 DEF Current
    <2> QED
      BY <2>1, <2>2, <2>3, <1>3, <1>6 DEF f
  <1> QED
    BY <1>4, <1>5, <1>6

\* What the user sees, and the staged frame behind it, are the same.
SamePicture(u, v) ==
    /\ u.attached = v.attached /\ u.frame = v.frame /\ u.image = v.image /\ u.fallbackHidden = v.fallbackHidden
    /\ u.metalHidden = v.metalHidden /\ u.drawable = v.drawable

\* updateDisplayLink changes nothing but the link.
LEMMA LinkFacts ==
    ASSUME NEW v \in Views, NEW s
    PROVE  UpdateDisplayLink(v, s) \in Views /\ SamePicture(UpdateDisplayLink(v, s), v)
  <1> DEFINE b == ~v.window \/ ~v.attached \/ ~NeedsRefresh(s)
  <1>1. b \in BOOLEAN
    OBVIOUS
  <1>2. UpdateDisplayLink(v, s) = [v EXCEPT !.paused = b]
    BY DEF UpdateDisplayLink
  <1> HIDE DEF b
  <1> QED
    BY <1>1, <1>2 DEF Views, SamePicture

\* resetFrame drops the staged frame and the image.
LEMMA ResetFrameFacts ==
    ASSUME NEW v \in Views
    PROVE  /\ ResetFrame(v) \in Views /\ ResetFrame(v).attached = v.attached /\ ResetFrame(v).frame = Nothing
           /\ \A b \in BOOLEAN : LET u == [ResetFrame(v) EXCEPT !.attached = b]
                                 IN  u \in Views /\ u.attached = b /\ u.frame = Nothing
  <1>1. ResetFrame(v) \in Views /\ ResetFrame(v).attached = v.attached /\ ResetFrame(v).frame = Nothing
    BY DEF ResetFrame, Views, Optional
  <1> QED
    BY <1>1 DEF Views

-----------------------------------------------------------------------------
(* What each kind of callback does to the invariant.                       *)

\* A callback that leaves the slot and the picture alone keeps the invariant.
LEMMA SameSlotKeeps ==
    ASSUME NEW o, NEW p, NEW s, NEW v, NEW w, NEW d, NEW g, Consistent(o, p, s, v, w, d, g),
           NEW r, NEW u, SameSlot(r, s), SamePicture(u, v)
    PROVE  Consistent(o, p, r, u, w, d, g)
  <1>1. \A phase : InPhase(r, phase) <=> InPhase(s, phase)
    BY DEF SameSlot, InPhase, Active
  <1>2. (Active(r) <=> Active(s)) /\ (Current(r) <=> Current(s)) /\ Screen(u) = Screen(v)
    BY DEF SameSlot, SamePicture, Active, Current, Screen
  <1>3. OneJob(r, w, d, g)
    BY <1>1, <1>2 DEF Consistent, OneJob, OnWorker, HeldBy, SameSlot
  <1>4. Epochs(r, u)
    BY <1>1, <1>2 DEF Consistent, Epochs, Forgotten, SameSlot, SamePicture
  <1>5. Leased(o, r)
    BY <1>1, <1>2 DEF Consistent, Leased, SameSlot
  <1>6. Baseline(o, p, r, u)
    BY DEF Consistent, Baseline, SameSlot, SamePicture
  <1>7. Repairable(p, w)
    BY DEF Consistent
  <1>8. Staged(p, r, u, d, g)
    BY <1>1, <1>2 DEF Consistent, Staged, SameSlot, SamePicture
  <1>9. OnScreen(r, u)
    BY <1>1, <1>2 DEF Consistent, OnScreen, SameSlot, SamePicture
  <1> QED
    BY <1>3, <1>4, <1>5, <1>6, <1>7, <1>8, <1>9 DEF Consistent

\* The running guest goes on: generations grow and a tile that changes gets a new one.
Follows(q, o) ==
    /\ q.base = o.base /\ q.generation >= o.generation
    /\ \A t \in Tiles : q.changed[t] = o.changed[t] \/ q.changed[t] > o.generation

\* A picture of a generation stays one while the guest goes on.
LEMMA PicturesLast ==
    ASSUME NEW o \in Sources, NEW q \in Sources, Follows(q, o), NEW picture, NEW n \in Nat, PictureAt(o, picture, n)
    PROVE  PictureAt(q, picture, n)
  <1>1. \A t \in Tiles : q.changed[t] \in Nat /\ o.changed[t] \in Nat
    BY DEF Sources, Pictures
  <1>2. q.generation \in Nat /\ o.generation \in Nat
    BY DEF Sources
  <1>3. n <= q.generation
    BY <1>2 DEF PictureAt, Follows
  <1>4. ASSUME NEW t \in Tiles, q.changed[t] <= n
        PROVE  picture[t] = q.base + q.changed[t]
    <2>1. q.changed[t] = o.changed[t]
      BY <1>1, <1>2, <1>4 DEF PictureAt, Follows
    <2> QED
      BY <2>1, <1>4 DEF PictureAt, Follows
  <1> QED
    BY <1>3, <1>4 DEF PictureAt

\* Commits, and the guest's reset of its GPU, keep the invariant.
LEMMA SourceKeeps ==
    ASSUME NEW o, NEW p, NEW s, NEW v, NEW w, NEW d, NEW g, Typed(o, p, s, v, w, d, g),
           Consistent(o, p, s, v, w, d, g), NEW q \in Sources, Follows(q, o)
    PROVE  Consistent(q, p, s, v, w, d, g)
  <1>1. Leased(q, s)
    <2>1. CASE Current(s)
      <3>1. s.active.lease.generation \in Nat
        BY <2>1 DEF Typed, Schedulers, Optional, Current, Active, Slots, Leases
      <3> QED
        BY <2>1, <3>1, PicturesLast DEF Consistent, Leased, Typed
    <2>2. CASE ~Current(s)
      BY <2>2 DEF Consistent, Leased
    <2> QED
      BY <2>1, <2>2
  <1>2. Baseline(q, p, s, v)
    <2>1. CASE IsTexture(v.frame) /\ s.uploaded # Nothing
      <3>1. s.uploaded.generation \in Nat
        BY <2>1 DEF Typed, Schedulers, Optional, Frames
      <3> QED
        BY <2>1, <3>1, PicturesLast DEF Consistent, Baseline, Typed
    <2>2. CASE ~(IsTexture(v.frame) /\ s.uploaded # Nothing)
      BY <2>2 DEF Baseline
    <2> QED
      BY <2>1, <2>2
  <1> QED
    BY <1>1, <1>2 DEF Consistent

\* A reset of scheduler and view keeps the invariant whatever the source becomes.
LEMMA ResetKeeps ==
    ASSUME NEW o, NEW p, NEW s, NEW v, NEW w, NEW d, NEW g, Typed(o, p, s, v, w, d, g),
           Consistent(o, p, s, v, w, d, g), NEW q, NEW r, NEW u,
           r.epoch = s.epoch + 1, r.uploaded = Nothing, r.displayed = Nothing,
           r.active = IF InPhase(s, "ready") THEN Nothing ELSE s.active, u.frame = Nothing
    PROVE  Consistent(q, p, r, u, w, d, g)
  <1>1. Active(r) => Active(s) /\ ~InPhase(s, "ready") /\ r.active = s.active
    BY DEF Active
  <1>2. \A phase : InPhase(r, phase) => InPhase(s, phase)
    BY <1>1 DEF InPhase
  <1>3. ~Current(r)
    <2>1. SUFFICES ASSUME Active(r) PROVE r.active.ticket.epoch # r.epoch
      BY DEF Current
    <2>2. s.active \in Slots
      BY <2>1, <1>1 DEF Typed, Schedulers, Optional, Active
    <2>3. s.active.ticket.epoch \in Nat /\ s.epoch \in Nat
      BY <2>2 DEF Slots, Tickets, Typed, Schedulers
    <2>4. s.active.ticket.epoch <= s.epoch
      BY <2>1, <1>1 DEF Consistent, Epochs
    <2> QED
      BY <2>1, <2>3, <2>4, <1>1
  <1>4. Active(r) => r.active.ticket.epoch <= r.epoch
    <2>1. SUFFICES ASSUME Active(r) PROVE r.active.ticket.epoch <= r.epoch
      OBVIOUS
    <2>2. s.active \in Slots
      BY <2>1, <1>1 DEF Typed, Schedulers, Optional, Active
    <2>3. s.active.ticket.epoch \in Nat /\ s.epoch \in Nat
      BY <2>2 DEF Slots, Tickets, Typed, Schedulers
    <2>4. s.active.ticket.epoch <= s.epoch
      BY <2>1, <1>1 DEF Consistent, Epochs
    <2> QED
      BY <2>1, <2>3, <2>4, <1>1
  <1>5. OneJob(r, w, d, g)
    <2>1. CASE Active(r)
      <3>1. \A phase : InPhase(r, phase) <=> InPhase(s, phase)
        BY <2>1, <1>1 DEF InPhase
      <3> QED
        BY <2>1, <3>1, <1>1 DEF Consistent, OneJob, OnWorker, HeldBy
    <2>2. CASE ~Active(r)
      <3>1. ~Active(s) \/ InPhase(s, "ready")
        BY <2>2 DEF Active
      <3> QED
        BY <3>1, <2>2 DEF Consistent, OneJob, InPhase
    <2> QED
      BY <2>1, <2>2
  <1>6. Epochs(r, u)
    <2>1. ~InPhase(r, "ready")
      BY <1>1 DEF InPhase
    <2> QED
      BY <2>1, <1>3, <1>4 DEF Epochs, Forgotten
  <1>7. Leased(q, r)
    BY <1>1, <1>3 DEF Consistent, Leased
  <1>8. Baseline(q, p, r, u) /\ Repairable(p, w)
    BY DEF Consistent, Baseline
  <1>9. Staged(p, r, u, d, g)
    <2>1. CASE Active(r)
      BY <2>1, <1>1, <1>3 DEF Consistent, Staged
    <2>2. CASE ~Active(r)
      <3>1. d = {} /\ g = {}
        BY <2>2 DEF Consistent, OneJob, Active
      <3> QED
        BY <2>2, <3>1, <1>3 DEF Staged
    <2> QED
      BY <2>1, <2>2
  <1>10. OnScreen(r, u)
    BY <1>3 DEF OnScreen
  <1> QED
    BY <1>5, <1>6, <1>7, <1>8, <1>9, <1>10 DEF Consistent

\* Without a view nothing depends on the source.
LEMMA DetachedKeeps ==
    ASSUME NEW o, NEW p, NEW s, NEW v, NEW w, NEW d, NEW g, Consistent(o, p, s, v, w, d, g), ~v.attached, NEW q
    PROVE  Consistent(q, p, s, v, w, d, g)
  BY DEF Consistent, Epochs, Forgotten, Leased, Baseline

\* beginRefresh's lease is a picture of its generation with a tile of its last
\* commit, and outside its damage it agrees with any baseline of the upload.
LEMMA LeaseFacts ==
    ASSUME source \in Sources, Newest(source), source.present, NEW s \in Schedulers, s.latest # Nothing
    PROVE  LET lease == RefreshLease(s)
           IN  /\ lease \in Leases
               /\ \E t \in Tiles : lease.pixels[t] = lease.time
               /\ PictureAt(source, lease.pixels, lease.generation)
               /\ \A picture : (s.uploaded # Nothing => PictureAt(source, picture, s.uploaded.generation)) =>
                    \A t \in Tiles \ lease.damage : picture[t] = lease.pixels[t]
  <1> DEFINE picture == [t \in Tiles |-> source.base + source.changed[t]]
             previous == PreviousGeneration(s)
             asked == IF previous # Nothing /\ source.generation < previous THEN Nothing ELSE previous
             damage == IF asked = Nothing \/ asked > source.generation THEN Tiles
                       ELSE {t \in Tiles : source.changed[t] > asked}
             lease == RefreshLease(s)
  <1>1. source.base \in Nat /\ source.generation \in Nat /\ source.changed \in [Tiles -> Nat]
    BY DEF Sources, Pictures
  <1>2. lease = [generation |-> source.generation, time |-> source.base + source.generation,
                 pixels |-> picture, damage |-> damage]
    BY DEF RefreshLease, LeaseAfter, Now
  <1>3. picture \in Pictures
    BY <1>1 DEF Pictures
  <1>4. damage \in SUBSET Tiles
    OBVIOUS
  <1>5. asked = Nothing \/ (s.uploaded # Nothing /\ asked = s.uploaded.generation)
    BY DEF PreviousGeneration
  <1>6. \A t \in Tiles : picture[t] = source.base + source.changed[t]
    OBVIOUS
  <1>7. \A t \in Tiles \ damage : asked # Nothing /\ ~(source.changed[t] > asked)
    OBVIOUS
  <1> HIDE DEF picture, asked, damage
  <1>8. lease \in Leases
    BY <1>1, <1>2, <1>3, <1>4 DEF Leases
  <1>9. \E t \in Tiles : lease.pixels[t] = lease.time
    BY <1>2, <1>6 DEF Newest
  <1>10. PictureAt(source, lease.pixels, lease.generation)
    BY <1>1, <1>2, <1>6 DEF PictureAt
  <1>11. ASSUME NEW other, s.uploaded # Nothing => PictureAt(source, other, s.uploaded.generation),
                NEW t \in Tiles \ lease.damage
         PROVE  other[t] = lease.pixels[t]
    <2>1. t \in Tiles \ damage /\ lease.pixels[t] = source.base + source.changed[t]
      BY <1>2, <1>6
    <2>2. s.uploaded # Nothing /\ ~(source.changed[t] > s.uploaded.generation)
      BY <2>1, <1>5, <1>7
    <2>3. s.uploaded.generation \in Nat /\ source.changed[t] \in Nat
      BY <2>2, <1>1 DEF Schedulers, Optional, Frames
    <2>4. source.changed[t] <= s.uploaded.generation
      BY <2>2, <2>3
    <2> QED
      BY <2>1, <2>2, <2>4, <1>11 DEF PictureAt
  <1> QED
    BY <1>8, <1>9, <1>10, <1>11

\* Acquiring a frame hands the slot to the worker.
LEMMA AcquireKeeps ==
    ASSUME NEW o, NEW p, NEW s, NEW v, NEW w, NEW d, NEW g, Typed(o, p, s, v, w, d, g),
           Consistent(o, p, s, v, w, d, g), s.active = Nothing, v.attached,
           NEW r, r.epoch = s.epoch, r.uploaded = s.uploaded, r.displayed = s.displayed,
           r.active \in Slots, r.active.ticket.epoch = s.epoch, r.active.phase = "uploading",
           \E t \in Tiles : r.active.lease.pixels[t] = r.active.lease.time,
           PictureAt(o, r.active.lease.pixels, r.active.lease.generation),
           \A picture : (s.uploaded # Nothing => PictureAt(o, picture, s.uploaded.generation)) =>
             \A t \in Tiles \ r.active.lease.damage : picture[t] = r.active.lease.pixels[t],
           NEW u, u.attached = v.attached, u.frame = Nothing, Screen(u) = Screen(v),
           NEW j, j.ticket = r.active.ticket, j.lease = r.active.lease, j.previous = v.frame
    PROVE  Consistent(o, p, r, u, w \cup {j}, d, g)
  <1> DEFINE lease == r.active.lease
  <1>1. w = {} /\ d = {} /\ g = {}
    BY DEF Consistent, OneJob, Active
  <1>2. w \cup {j} = {j}
    BY <1>1
  <1>3. Active(r) /\ InPhase(r, "uploading") /\ Current(r) /\ ~InPhase(r, "ready") /\ ~InPhase(r, "queued")
    BY NothingIsNoValue DEF Active, InPhase, Current
  <1>4. OneJob(r, {j}, d, g)
    <2>1. OnWorker(r, {j})
      BY DEF OnWorker
    <2> QED
      BY <2>1, <1>1, <1>3 DEF OneJob
  <1>5. Epochs(r, u)
    <2>1. r.active.ticket.epoch <= r.epoch
      BY DEF Typed, Schedulers
    <2> QED
      BY <2>1, <1>3 DEF Epochs
  <1>6. Leased(o, r) /\ Baseline(o, p, r, u)
    BY DEF Leased, Baseline, IsTexture
  <1>7. Repairable(p, {j})
    <2>1. SUFFICES ASSUME IsTexture(v.frame), NEW t \in Tiles \ lease.damage
                   PROVE  p[v.frame.texture][t] = lease.pixels[t]
      BY DEF Repairable
    <2>2. s.uploaded # Nothing => PictureAt(o, p[v.frame.texture], s.uploaded.generation)
      BY <2>1 DEF Consistent, Baseline
    <2> QED
      BY <2>1, <2>2
  <1>8. Staged(p, r, u, d, g) /\ OnScreen(r, u)
    BY <1>1, <1>3 DEF Staged, OnScreen, Consistent
  <1> QED
    BY <1>2, <1>4, <1>5, <1>6, <1>7, <1>8 DEF Consistent

\* A job on the worker is the only one, and the view holds no frame.
LEMMA WorkerHasSlot ==
    ASSUME NEW o, NEW p, NEW s, NEW v, NEW w, NEW d, NEW g, Typed(o, p, s, v, w, d, g),
           Consistent(o, p, s, v, w, d, g), NEW j \in w
    PROVE  /\ InPhase(s, "uploading") /\ w = {j} /\ d = {} /\ g = {} /\ v.frame = Nothing
           /\ j.ticket = s.active.ticket /\ j.lease = s.active.lease
  <1>1. Active(s)
    BY DEF Consistent, OneJob
  <1>2. s.active.phase \in {"uploading", "ready", "queued"}
    BY <1>1 DEF Typed, Schedulers, Optional, Active, Slots
  <1>3. InPhase(s, "uploading")
    BY <1>1, <1>2 DEF Consistent, OneJob, InPhase
  <1>4. OnWorker(s, w) /\ d = {} /\ g = {}
    BY <1>3 DEF Consistent, OneJob
  <1> QED
    BY <1>3, <1>4 DEF OnWorker, Consistent, Staged

\* The worker's result goes on its way, with the lease's pixels or with none.
LEMMA StageKeeps ==
    ASSUME NEW o, NEW p, NEW s, NEW v, NEW w, NEW d, NEW g, Typed(o, p, s, v, w, d, g),
           Consistent(o, p, s, v, w, d, g), NEW j \in w, NEW q, NEW f,
           f # Nothing => PictureOf(q, f) = j.lease.pixels
    PROVE  Consistent(o, q, s, v, w \ {j}, d \cup {[ticket |-> j.ticket, frame |-> f]}, g)
  <1> DEFINE k == [ticket |-> j.ticket, frame |-> f]
  <1>1. /\ InPhase(s, "uploading") /\ w = {j} /\ d = {} /\ g = {} /\ v.frame = Nothing
        /\ j.ticket = s.active.ticket /\ j.lease = s.active.lease
    BY WorkerHasSlot
  <1>2. w \ {j} = {} /\ d \cup {k} = {k}
    BY <1>1
  <1>3. k.ticket = s.active.ticket /\ k.frame = f
    BY <1>1
  <1> HIDE DEF k
  <1>4. ~InPhase(s, "ready") /\ ~InPhase(s, "queued") /\ Active(s)
    BY <1>1 DEF InPhase
  <1>5. OneJob(s, {}, {k}, g)
    <2>1. HeldBy(s, {k})
      BY <1>3 DEF HeldBy
    <2> QED
      BY <2>1, <1>1, <1>4 DEF OneJob
  <1>6. Baseline(o, q, s, v) /\ Repairable(q, {})
    BY <1>1 DEF Baseline, Repairable, IsTexture
  <1>7. Staged(q, s, v, {k}, g)
    BY <1>1, <1>3, <1>4 DEF Staged
  <1>8. Consistent(o, q, s, v, {}, {k}, g)
    BY <1>5, <1>6, <1>7 DEF Consistent
  <1> QED
    BY <1>2, <1>8 DEF k

\* A result on its way back is the only job, and the view holds no frame.
LEMMA ResultHasSlot ==
    ASSUME NEW o, NEW p, NEW s, NEW v, NEW w, NEW d, NEW g, Typed(o, p, s, v, w, d, g),
           Consistent(o, p, s, v, w, d, g), NEW j \in d
    PROVE  InPhase(s, "uploading") /\ w = {} /\ d = {j} /\ g = {} /\ v.frame = Nothing /\ j.ticket = s.active.ticket
  <1>1. Active(s)
    BY DEF Consistent, OneJob
  <1>2. s.active.phase \in {"uploading", "ready", "queued"}
    BY <1>1 DEF Typed, Schedulers, Optional, Active, Slots
  <1>3. InPhase(s, "uploading")
    BY <1>1, <1>2 DEF Consistent, OneJob, InPhase
  <1>4. w = {} /\ HeldBy(s, d) /\ g = {}
    BY <1>3 DEF Consistent, OneJob
  <1> QED
    BY <1>3, <1>4 DEF HeldBy, Consistent, Staged

\* A submitted command buffer is the only job.
LEMMA BufferHasSlot ==
    ASSUME NEW o, NEW p, NEW s, NEW v, NEW w, NEW d, NEW g, Typed(o, p, s, v, w, d, g),
           Consistent(o, p, s, v, w, d, g), NEW j \in g
    PROVE  InPhase(s, "queued") /\ w = {} /\ d = {} /\ g = {j} /\ j.ticket = s.active.ticket
  <1>1. Active(s)
    BY DEF Consistent, OneJob
  <1>2. s.active.phase \in {"uploading", "ready", "queued"}
    BY <1>1 DEF Typed, Schedulers, Optional, Active, Slots
  <1>3. InPhase(s, "queued")
    BY <1>1, <1>2 DEF Consistent, OneJob, InPhase
  <1>4. w = {} /\ d = {} /\ HeldBy(s, g)
    BY <1>3 DEF Consistent, OneJob
  <1> QED
    BY <1>3, <1>4 DEF HeldBy

\* The slot is freed, and at most its baseline and its frame are forgotten.
LEMMA FreedKeeps ==
    ASSUME NEW o, NEW p, NEW s, NEW v, Epochs(s, v), OnScreen(s, v), Baseline(o, p, s, v), Active(s),
           NEW r, r.active = Nothing, r.displayed = s.displayed,
           r.uploaded = Nothing \/ r.uploaded = s.uploaded,
           NEW u, u.attached = v.attached, u.frame = Nothing \/ u.frame = v.frame,
           s.displayed # Nothing => Screen(u) = Screen(v)
    PROVE  Consistent(o, p, r, u, {}, {}, {})
  <1>1. ~Active(r) /\ ~Current(r) /\ \A phase : ~InPhase(r, phase)
    BY DEF Active, Current, InPhase
  <1>2. OneJob(r, {}, {}, {}) /\ Leased(o, r) /\ Repairable(p, {}) /\ Staged(p, r, u, {}, {})
    BY <1>1 DEF OneJob, Leased, Repairable, Staged
  <1>3. Epochs(r, u)
    BY <1>1 DEF Epochs, Forgotten
  <1>4. Baseline(o, p, r, u)
    BY DEF Baseline, IsTexture
  <1>5. OnScreen(r, u)
    BY <1>1 DEF OnScreen
  <1> QED
    BY <1>2, <1>3, <1>4, <1>5 DEF Consistent

\* finishUpload: a stale result or a failure frees the slot, a success makes its
\* frame the ready one and its lease the next baseline.
LEMMA UploadKeeps ==
    ASSUME NEW o, NEW p, NEW s, NEW v, NEW w, NEW d, NEW g, Typed(o, p, s, v, w, d, g),
           Consistent(o, p, s, v, w, d, g), NEW j \in d
    PROVE  LET ok == j.frame # Nothing
               r == FinishUpload(s, j.ticket, ok)
               u == IF Discards(s, j.ticket, ok) THEN v ELSE [v EXCEPT !.frame = j.frame]
           IN  Typed(o, p, r, u, w, d \ {j}, g) /\ Consistent(o, p, r, u, w, d \ {j}, g)
  <1> DEFINE ok == j.frame # Nothing
             r == FinishUpload(s, j.ticket, ok)
             u == IF Discards(s, j.ticket, ok) THEN v ELSE [v EXCEPT !.frame = j.frame]
  <1>1. InPhase(s, "uploading") /\ w = {} /\ d = {j} /\ g = {} /\ v.frame = Nothing /\ j.ticket = s.active.ticket
    BY ResultHasSlot
  <1>2. /\ s \in Schedulers /\ v \in Views /\ ok \in BOOLEAN /\ Active(s)
        /\ j \in StagedJobs /\ s.active \in Slots
    BY <1>1 DEF Typed, InPhase, Schedulers, Optional, Active
  <1>3. /\ r \in Schedulers
        /\ Discards(s, j.ticket, ok) <=> (~Current(s) \/ ~ok)
        /\ Discards(s, j.ticket, ok) =>
             /\ r.active = Nothing /\ r.epoch = s.epoch /\ r.displayed = s.displayed
             /\ r.uploaded = s.uploaded \/ r.uploaded = Nothing
        /\ ~Discards(s, j.ticket, ok) => Moved(r, s, "ready") /\ r.uploaded = FrameOf(s.active.lease)
    <2> HIDE DEF ok
    <2> QED
      BY <1>1, <1>2, FinishUploadFacts
  <1>4. u \in Views /\ u.attached = v.attached /\ Screen(u) = Screen(v)
    BY <1>2 DEF Views, StagedJobs, Screen
  <1>5. d \ {j} = {}
    BY <1>1
  <1>6. Typed(o, p, r, u, w, d \ {j}, g)
    BY <1>3, <1>4 DEF Typed
  <1>7. CASE Discards(s, j.ticket, ok)
    <2>1. u = v
      BY <1>7
    <2> HIDE DEF r, u
    <2>2. Consistent(o, p, r, u, {}, {}, {})
      BY <1>2, <1>3, <1>7, <2>1, FreedKeeps DEF Consistent
    <2> QED
      BY <2>2, <1>1, <1>5, <1>6 DEF r, u
  <1>8. CASE ~Discards(s, j.ticket, ok)
    <2>1. Current(s) /\ ok /\ Moved(r, s, "ready") /\ r.uploaded = FrameOf(s.active.lease)
      BY <1>3, <1>8
    <2>2. u.frame = j.frame
      BY <1>2, <1>8 DEF Views
    <2>3. PictureOf(p, j.frame) = s.active.lease.pixels /\ j.frame # Nothing
      BY <1>2, <2>1 DEF Consistent, Staged
    <2> HIDE DEF r, u, ok
    <2>4. Active(r) /\ Current(r) /\ InPhase(r, "ready") /\ ~InPhase(r, "uploading") /\ ~InPhase(r, "queued")
      BY <2>1, NothingIsNoValue DEF Moved, Active, Current, InPhase
    <2>5. OneJob(r, {}, {}, {}) /\ Repairable(p, {})
      BY <2>4 DEF OneJob, Repairable
    <2>6. Epochs(r, u)
      BY <1>1, <1>4, <2>1, <2>4 DEF Consistent, Epochs, Moved, Current
    <2>7. Leased(o, r)
      BY <1>2, <2>1, <2>4 DEF Consistent, Leased, Moved
    <2>8. Baseline(o, p, r, u)
      <3>1. PictureAt(o, s.active.lease.pixels, s.active.lease.generation)
        BY <2>1 DEF Consistent, Leased
      <3>2. IsTexture(u.frame) => p[u.frame.texture] = s.active.lease.pixels
        BY <2>2, <2>3 DEF IsTexture, PictureOf
      <3>3. r.uploaded.generation = s.active.lease.generation
        BY <2>1 DEF FrameOf
      <3> QED
        BY <3>1, <3>2, <3>3 DEF Baseline
    <2>9. Staged(p, r, u, {}, {}) /\ OnScreen(r, u)
      BY <1>4, <2>1, <2>2, <2>3, <2>4 DEF Consistent, Staged, OnScreen, Moved
    <2>10. Consistent(o, p, r, u, {}, {}, {})
      BY <2>5, <2>6, <2>7, <2>8, <2>9 DEF Consistent
    <2> QED
      BY <2>10, <1>1, <1>5, <1>6 DEF r, u, ok
  <1> QED
    BY <1>7, <1>8

\* The picture of a staged frame.
LEMMA PictureTypes ==
    ASSUME NEW p \in [Textures -> Pictures], NEW f \in StagedFrames
    PROVE  PictureOf(p, f) \in Pictures
  BY DEF PictureOf, StagedFrames

\* A frame that is ready is the lease, and nobody else holds the slot.
LEMMA ReadyFacts ==
    ASSUME NEW o, NEW p, NEW s, NEW v, NEW w, NEW d, NEW g, Typed(o, p, s, v, w, d, g),
           Consistent(o, p, s, v, w, d, g), InPhase(s, "ready")
    PROVE  /\ w = {} /\ d = {} /\ g = {} /\ Active(s) /\ Current(s) /\ s.active \in Slots
           /\ v.frame \in StagedFrames /\ v.frame # Nothing
           /\ PictureOf(p, v.frame) = s.active.lease.pixels /\ PictureOf(p, v.frame) \in Pictures
           /\ \E t \in Tiles : s.active.lease.pixels[t] = s.active.lease.time
  <1>1. w = {} /\ d = {} /\ g = {}
    BY DEF Consistent, OneJob
  <1>2. Active(s) /\ Current(s)
    BY DEF Consistent, Epochs, InPhase
  <1>3. s.active \in Slots
    BY <1>2 DEF Typed, Schedulers, Optional, Active
  <1>4. v.frame # Nothing /\ PictureOf(p, v.frame) = s.active.lease.pixels
    BY <1>2 DEF Consistent, Staged
  <1>5. v.frame \in StagedFrames
    BY <1>4 DEF Typed, Views, Optional
  <1>6. PictureOf(p, v.frame) \in Pictures
    BY <1>5, PictureTypes DEF Typed
  <1> QED
    BY <1>1, <1>2, <1>3, <1>4, <1>5, <1>6 DEF Consistent, Leased

\* A CPU image goes on the screen at once.
LEMMA ImageKeeps ==
    ASSUME NEW o, NEW s, NEW v, NEW w, NEW d, NEW g, Typed(o, pixels, s, v, w, d, g),
           Consistent(o, pixels, s, v, w, d, g), InPhase(s, "ready"), v.frame.kind = "image"
    PROVE  LET r == PresentImage(v, s)
           IN  r.sched \in Schedulers /\ r.view \in Views /\ Consistent(o, pixels, r.sched, r.view, {}, {}, {})
  <1> DEFINE ticket == s.active.ticket
             picture == v.frame.pixels
             m == MarkQueued(s, ticket)
             r == Complete(m, ticket, TRUE)
             u == [v EXCEPT !.image = picture, !.fallbackHidden = FALSE, !.metalHidden = TRUE]
  <1>1. /\ w = {} /\ d = {} /\ g = {} /\ Active(s) /\ Current(s) /\ s.active \in Slots
        /\ v.frame \in StagedFrames /\ v.frame # Nothing
        /\ PictureOf(pixels, v.frame) = s.active.lease.pixels /\ PictureOf(pixels, v.frame) \in Pictures
        /\ \E t \in Tiles : s.active.lease.pixels[t] = s.active.lease.time
    BY ReadyFacts
  <1>2. s \in Schedulers /\ v \in Views
    BY DEF Typed
  <1>3. picture \in Pictures /\ picture = s.active.lease.pixels
    BY <1>1 DEF PictureOf
  <1>4. m \in Schedulers /\ Moved(m, s, "queued") /\ m.uploaded = s.uploaded
    BY <1>1, <1>2, MarkQueuedFacts
  <1>5. /\ r \in Schedulers /\ r.active = Nothing /\ r.epoch = s.epoch /\ r.uploaded = s.uploaded
        /\ r.displayed = FrameOf(s.active.lease)
    <2> HIDE DEF m
    <2>1. Active(m) /\ InPhase(m, "queued") /\ m.active.ticket = ticket /\ Current(m)
      BY <1>1, <1>4, NothingIsNoValue DEF Moved, Active, InPhase, Current
    <2>2. LET c == Complete(m, m.active.ticket, TRUE)
          IN  /\ c \in Schedulers /\ c.active = Nothing /\ c.epoch = m.epoch
              /\ c.uploaded = m.uploaded /\ c.displayed = FrameOf(m.active.lease)
      BY <2>1, <1>4, CompleteFacts
    <2>3. m.epoch = s.epoch /\ m.active.lease = s.active.lease
      BY <1>4 DEF Moved
    <2> QED
      BY <2>1, <2>2, <2>3, <1>4
  <1> HIDE DEF picture
  <1>6. u \in Views /\ u.attached = v.attached /\ u.frame = v.frame /\ Screen(u) = picture
    BY <1>2, <1>3 DEF Views, Optional, Screen
  <1>7. PresentImage(v, s).sched = r /\ PresentImage(v, s).view = u
    BY DEF PresentImage, picture
  <1> HIDE DEF r, u
  <1>8. ~Active(r) /\ ~Current(r) /\ \A phase : ~InPhase(r, phase)
    BY <1>5 DEF Active, Current, InPhase
  <1>9. OneJob(r, {}, {}, {}) /\ Leased(o, r) /\ Repairable(pixels, {}) /\ Staged(pixels, r, u, {}, {})
    BY <1>8 DEF OneJob, Leased, Repairable, Staged
  <1>10. Epochs(r, u)
    BY <1>1, <1>6, <1>8 DEF Consistent, Epochs
  <1>11. Baseline(o, pixels, r, u)
    BY <1>5, <1>6 DEF Consistent, Baseline
  <1>12. OnScreen(r, u)
    <2>1. Screen(u) # Nothing
      BY <1>3, <1>6, NothingIsNoValue
    <2> QED
      BY <2>1, <1>1, <1>3, <1>5, <1>6, <1>8 DEF OnScreen, FrameOf
  <1>13. Consistent(o, pixels, r, u, {}, {}, {})
    BY <1>9, <1>10, <1>11, <1>12 DEF Consistent
  <1> QED
    BY <1>5, <1>6, <1>7, <1>13

\* Showing the Metal view hides nothing that was on the screen.
LEMMA RevealFacts ==
    ASSUME NEW v \in Views
    PROVE  LET u == [v EXCEPT !.metalHidden = FALSE]
           IN  /\ u \in Views /\ u.attached = v.attached /\ u.frame = v.frame /\ ~u.metalHidden
               /\ Screen(v) # Nothing => Screen(u) = Screen(v)
  BY DEF Views, Screen

\* A submitted frame goes to the GPU with the slot.
LEMMA SubmitKeeps ==
    ASSUME NEW o, NEW s, NEW v, NEW w, NEW d, NEW g, Typed(o, pixels, s, v, w, d, g),
           Consistent(o, pixels, s, v, w, d, g), InPhase(s, "ready")
    PROVE  LET r == Submitted(v, s)
           IN  /\ r.sched \in Schedulers /\ r.view \in Views /\ r.jobs \subseteq GPUJobs
               /\ Consistent(o, pixels, r.sched, r.view, {}, {}, r.jobs)
  <1> DEFINE ticket == s.active.ticket
             m == MarkQueued(s, ticket)
             u == [v EXCEPT !.metalHidden = FALSE]
             job == [ticket |-> ticket, frame |-> v.frame, sent |-> PixelsOf(v.frame)]
  <1>1. /\ w = {} /\ d = {} /\ g = {} /\ Active(s) /\ Current(s) /\ s.active \in Slots
        /\ v.frame \in StagedFrames /\ v.frame # Nothing
        /\ PictureOf(pixels, v.frame) = s.active.lease.pixels /\ PictureOf(pixels, v.frame) \in Pictures
    BY ReadyFacts
  <1>2. s \in Schedulers /\ v \in Views
    BY DEF Typed
  <1>3. PixelsOf(v.frame) = PictureOf(pixels, v.frame)
    BY DEF PixelsOf, PictureOf
  <1>4. m \in Schedulers /\ Moved(m, s, "queued") /\ m.uploaded = s.uploaded
    BY <1>1, <1>2, MarkQueuedFacts
  <1>5. job \in GPUJobs /\ job.ticket = ticket /\ job.frame = v.frame /\ job.sent = s.active.lease.pixels
    BY <1>1, <1>3 DEF GPUJobs, Slots
  <1>6. /\ u \in Views /\ u.attached = v.attached /\ u.frame = v.frame /\ ~u.metalHidden
        /\ Screen(v) # Nothing => Screen(u) = Screen(v)
    BY <1>2, RevealFacts
  <1>7. Submitted(v, s).sched = m /\ Submitted(v, s).view = u /\ Submitted(v, s).jobs = {job}
    BY DEF Submitted
  <1> HIDE DEF m, u, job
  <1>8. Active(m) /\ InPhase(m, "queued") /\ Current(m) /\ ~InPhase(m, "ready") /\ ~InPhase(m, "uploading")
    BY <1>1, <1>4, NothingIsNoValue DEF Moved, Active, InPhase, Current
  <1>9. OneJob(m, {}, {}, {job})
    <2>1. HeldBy(m, {job})
      BY <1>4, <1>5 DEF HeldBy, Moved
    <2> QED
      BY <2>1, <1>8 DEF OneJob
  <1>10. Epochs(m, u)
    BY <1>1, <1>4, <1>6, <1>8 DEF Consistent, Epochs, Moved
  <1>11. Leased(o, m) /\ Baseline(o, pixels, m, u) /\ Repairable(pixels, {})
    BY <1>1, <1>4, <1>6 DEF Consistent, Leased, Baseline, Repairable, Moved
  <1>12. Staged(pixels, m, u, {}, {job})
    BY <1>1, <1>4, <1>5, <1>6, <1>8 DEF Staged, Moved
  <1>13. OnScreen(m, u)
    BY <1>4, <1>6 DEF Consistent, OnScreen, Moved
  <1>14. Consistent(o, pixels, m, u, {}, {}, {job})
    BY <1>9, <1>10, <1>11, <1>12, <1>13 DEF Consistent
  <1> QED
    BY <1>4, <1>5, <1>6, <1>7, <1>14

\* Without a drawable the frame stays ready.
LEMMA UnavailableKeeps ==
    ASSUME NEW o, NEW s, NEW v, NEW w, NEW d, NEW g, Typed(o, pixels, s, v, w, d, g),
           Consistent(o, pixels, s, v, w, d, g), InPhase(s, "ready")
    PROVE  LET r == Unavailable(v, s)
           IN  r.sched = s /\ r.view \in Views /\ Consistent(o, pixels, s, r.view, w, d, g)
  <1> DEFINE u == [v EXCEPT !.metalHidden = FALSE]
  <1>1. /\ u \in Views /\ u.attached = v.attached /\ u.frame = v.frame /\ ~u.metalHidden
        /\ Screen(v) # Nothing => Screen(u) = Screen(v)
    BY RevealFacts DEF Typed
  <1>2. Unavailable(v, s).sched = s /\ Unavailable(v, s).view = u
    BY DEF Unavailable
  <1> HIDE DEF u
  <1>3. Epochs(s, u) /\ Baseline(o, pixels, s, u) /\ Staged(pixels, s, u, d, g)
    BY <1>1 DEF Consistent, Epochs, Forgotten, Baseline, Staged
  <1>4. OnScreen(s, u)
    BY <1>1 DEF Consistent, OnScreen
  <1> QED
    BY <1>1, <1>2, <1>3, <1>4 DEF Consistent

\* A frame Metal would not take frees the slot and is forgotten.
LEMMA SubmissionFailedKeeps ==
    ASSUME NEW o, NEW s, NEW v, NEW w, NEW d, NEW g, Typed(o, pixels, s, v, w, d, g),
           Consistent(o, pixels, s, v, w, d, g), InPhase(s, "ready")
    PROVE  LET r == SubmissionFailed(v, s)
           IN  r.sched \in Schedulers /\ r.view \in Views /\ Consistent(o, pixels, r.sched, r.view, {}, {}, {})
  <1> DEFINE r == Complete(s, s.active.ticket, FALSE)
             u == [v EXCEPT !.metalHidden = FALSE, !.frame = Nothing, !.metalDisabled = TRUE]
  <1>1. Active(s) /\ Current(s) /\ s \in Schedulers /\ v \in Views
    BY ReadyFacts DEF Typed
  <1>2. r \in Schedulers /\ r.active = Nothing /\ r.uploaded = Nothing /\ r.displayed = s.displayed
    BY <1>1, CompleteFacts
  <1>3. /\ u \in Views /\ u.attached = v.attached /\ u.frame = Nothing
        /\ Screen(v) # Nothing => Screen(u) = Screen(v)
    BY <1>1 DEF Views, Optional, Screen
  <1>4. SubmissionFailed(v, s).sched = r /\ SubmissionFailed(v, s).view = u
    BY DEF SubmissionFailed
  <1> HIDE DEF r, u
  <1>5. Consistent(o, pixels, r, u, {}, {}, {})
    BY <1>1, <1>2, <1>3, FreedKeeps DEF Consistent, OnScreen
  <1> QED
    BY <1>2, <1>3, <1>4, <1>5

\* presentReadyFrame keeps the invariant whatever Metal answers.
LEMMA PresentKeeps ==
    ASSUME NEW o, NEW s, NEW v, NEW w, NEW d, NEW g, Typed(o, pixels, s, v, w, d, g),
           Consistent(o, pixels, s, v, w, d, g), NEW r \in PresentReadyFrame(v, s)
    PROVE  /\ Typed(o, pixels, r.sched, r.view, w, d, g \cup r.jobs)
           /\ Consistent(o, pixels, r.sched, r.view, w, d, g \cup r.jobs)
  <1>1. CASE ~Shows(v, s)
    <2>1. r.sched = s /\ r.view = v /\ g \cup r.jobs = g
      BY <1>1 DEF PresentReadyFrame
    <2> QED
      BY <2>1
  <1>2. CASE Shows(v, s)
    <2>1. InPhase(s, "ready")
      BY <1>2 DEF Shows, InPhase, Active
    <2>2. w = {} /\ d = {} /\ g = {}
      BY <2>1, ReadyFacts
    <2>3. CASE v.frame.kind = "image" /\ r = PresentImage(v, s)
      <3>1. r.jobs = {}
        BY <2>3 DEF PresentImage
      <3>2. g \cup r.jobs = {}
        BY <3>1, <2>2
      <3>3. r.sched \in Schedulers /\ r.view \in Views /\ Consistent(o, pixels, r.sched, r.view, {}, {}, {})
        BY <2>1, <2>3, ImageKeeps
      <3> QED
        BY <3>2, <3>3, <2>2 DEF Typed
    <2>4. CASE r = Submitted(v, s)
      <3>1. /\ r.sched \in Schedulers /\ r.view \in Views /\ r.jobs \subseteq GPUJobs
            /\ Consistent(o, pixels, r.sched, r.view, {}, {}, r.jobs)
        BY <2>1, <2>4, SubmitKeeps
      <3>2. g \cup r.jobs = r.jobs
        BY <2>2
      <3> QED
        BY <3>1, <3>2, <2>2 DEF Typed
    <2>5. CASE r = Unavailable(v, s)
      <3>1. r.sched = s /\ r.view \in Views /\ Consistent(o, pixels, s, r.view, w, d, g)
        BY <2>1, <2>5, UnavailableKeeps
      <3>2. g \cup r.jobs = g
        BY <2>5 DEF Unavailable
      <3> QED
        BY <3>1, <3>2 DEF Typed
    <2>6. CASE r = SubmissionFailed(v, s)
      <3>1. r.jobs = {}
        BY <2>6 DEF SubmissionFailed
      <3>2. g \cup r.jobs = {}
        BY <3>1, <2>2
      <3>3. r.sched \in Schedulers /\ r.view \in Views /\ Consistent(o, pixels, r.sched, r.view, {}, {}, {})
        BY <2>1, <2>6, SubmissionFailedKeeps
      <3> QED
        BY <3>2, <3>3, <2>2 DEF Typed
    <2> QED
      BY <1>2, <2>3, <2>4, <2>5, <2>6 DEF PresentReadyFrame
  <1> QED
    BY <1>1, <1>2

\* A command buffer's completion frees the slot; in its own epoch a success is on
\* the screen and counts as displayed, a failure loses the frame and its baseline.
LEMMA GPUKeeps ==
    ASSUME PresentationTypes, PresentationInvariant, NEW job \in gpu, NEW ok \in BOOLEAN, GPUDone(job, ok)
    PROVE  /\ Typed(source, pixels, sched', view', staging, staged, gpu')
           /\ Consistent(source, pixels, sched', view', staging, staged, gpu')
  <1> DEFINE ticket == sched.active.ticket
             picture == PixelsOf(job.frame)
             s == Complete(sched, job.ticket, ok)
             drawn == IF ok THEN [view EXCEPT !.drawable = picture] ELSE view
             u == IF Completes(sched, job.ticket, ok) /\ IsCurrent(sched, job.ticket) /\ ok
                  THEN [drawn EXCEPT !.fallbackHidden = TRUE]
                  ELSE IF IsCurrent(sched, job.ticket) /\ ~ok
                  THEN [view EXCEPT !.metalDisabled = TRUE, !.frame = Nothing] ELSE drawn
  <1> USE DEF PresentationTypes, PresentationInvariant
  <1>1. Typed(source, pixels, sched, view, staging, staged, gpu)
        /\ Consistent(source, pixels, sched, view, staging, staged, gpu)
    OBVIOUS
  <1>2. /\ InPhase(sched, "queued") /\ staging = {} /\ staged = {} /\ gpu = {job} /\ job.ticket = ticket
        /\ Active(sched) /\ sched \in Schedulers /\ view \in Views /\ job \in GPUJobs
    BY <1>1, BufferHasSlot DEF Typed, InPhase
  <1>3. gpu' = {} /\ sched' = s /\ view' = UpdateDisplayLink(u, s)
    BY <1>2 DEF GPUDone
  <1>4. /\ s \in Schedulers /\ s.active = Nothing /\ s.epoch = sched.epoch
        /\ Completes(sched, job.ticket, ok)
        /\ ~Current(sched) => s.uploaded = sched.uploaded /\ s.displayed = sched.displayed
        /\ Current(sched) /\ ok => s.uploaded = sched.uploaded /\ s.displayed = FrameOf(sched.active.lease)
        /\ Current(sched) /\ ~ok => s.uploaded = Nothing /\ s.displayed = sched.displayed
    BY <1>2, CompleteFacts
  <1>5. picture = PictureOf(pixels, job.frame) /\ picture \in Pictures /\ picture = sched.active.lease.pixels
    <2>1. picture = PictureOf(pixels, job.frame)
      BY DEF PixelsOf, PictureOf
    <2>2. PictureOf(pixels, job.frame) = sched.active.lease.pixels
      BY <1>1 DEF Consistent, Staged
    <2>3. job.frame \in StagedFrames
      BY <1>2 DEF GPUJobs
    <2> QED
      BY <2>1, <2>2, <2>3, PictureTypes, <1>1 DEF Typed
  <1>6. IsCurrent(sched, job.ticket) <=> Current(sched)
    BY <1>2 DEF IsCurrent, Current, Active
  <1> HIDE DEF picture
  <1>7. CASE ok /\ Current(sched)
    <2>1. u = [[view EXCEPT !.drawable = picture] EXCEPT !.fallbackHidden = TRUE]
      BY <1>4, <1>6, <1>7
    <2>2. ~view.metalHidden
      BY <1>1, <1>2, <1>7 DEF Consistent, OnScreen
    <2>3. u \in Views /\ u.attached = view.attached /\ u.frame = view.frame /\ Screen(u) = picture
      <3>1. [view EXCEPT !.drawable = picture] \in Views
        BY <1>2, <1>5 DEF Views, Optional
      <3>2. u \in Views
        BY <2>1, <3>1 DEF Views
      <3>3. /\ u.attached = view.attached /\ u.frame = view.frame /\ u.fallbackHidden = TRUE
            /\ u.metalHidden = view.metalHidden /\ u.drawable = picture
        BY <2>1, <3>1, <1>2 DEF Views
      <3> QED
        BY <3>2, <3>3, <2>2 DEF Screen
    <2> HIDE DEF s, u
    <2>4. ~Active(s) /\ ~Current(s) /\ \A phase : ~InPhase(s, phase)
      BY <1>4 DEF Active, Current, InPhase
    <2>5. OneJob(s, {}, {}, {}) /\ Leased(source, s) /\ Repairable(pixels, {}) /\ Staged(pixels, s, u, {}, {})
      BY <2>4 DEF OneJob, Leased, Repairable, Staged
    <2>6. Epochs(s, u)
      BY <1>1, <1>7, <2>3, <2>4 DEF Consistent, Epochs
    <2>7. Baseline(source, pixels, s, u)
      BY <1>1, <1>4, <1>7, <2>3 DEF Consistent, Baseline
    <2>8. OnScreen(s, u)
      <3>1. Screen(u) # Nothing
        BY <1>5, <2>3, NothingIsNoValue
      <3>2. \E t \in Tiles : sched.active.lease.pixels[t] = sched.active.lease.time
        BY <1>1, <1>2 DEF Consistent, Leased
      <3> QED
        BY <3>1, <3>2, <1>4, <1>5, <1>7, <2>3, <2>4 DEF OnScreen, FrameOf
    <2>9. Consistent(source, pixels, s, u, {}, {}, {})
      BY <2>5, <2>6, <2>7, <2>8 DEF Consistent
    <2>10. UpdateDisplayLink(u, s) \in Views /\ SamePicture(UpdateDisplayLink(u, s), u)
      BY <2>3, LinkFacts
    <2>11. SameSlot(s, s)
      BY DEF SameSlot
    <2>12. Consistent(source, pixels, s, UpdateDisplayLink(u, s), {}, {}, {})
      BY <2>9, <2>10, <2>11, SameSlotKeeps
    <2> QED
      BY <2>10, <2>12, <1>1, <1>2, <1>3, <1>4 DEF Typed
  <1>8. CASE ~(ok /\ Current(sched))
    <2>1. /\ u \in Views /\ u.attached = view.attached /\ (u.frame = Nothing \/ u.frame = view.frame)
          /\ sched.displayed # Nothing => Screen(u) = Screen(view)
      <3>1. CASE ok /\ ~Current(sched)
        <4>1. u = [view EXCEPT !.drawable = picture]
          BY <3>1, <1>6
        <4>2. sched.displayed = Nothing
          BY <3>1, <1>1, <1>2 DEF Consistent, Epochs, Forgotten
        <4> QED
          BY <4>1, <4>2, <1>2, <1>5 DEF Views, Optional
      <3>2. CASE ~ok /\ Current(sched)
        <4>1. u = [view EXCEPT !.metalDisabled = TRUE, !.frame = Nothing]
          BY <3>2, <1>6
        <4>2. u \in Views
          BY <4>1, <1>2 DEF Views, Optional
        <4>3. /\ u.attached = view.attached /\ u.frame = Nothing /\ u.image = view.image
              /\ u.fallbackHidden = view.fallbackHidden /\ u.metalHidden = view.metalHidden
              /\ u.drawable = view.drawable
          BY <4>1, <1>2 DEF Views
        <4> QED
          BY <4>2, <4>3 DEF Screen
      <3>3. CASE ~ok /\ ~Current(sched)
        <4>1. u = view
          BY <3>3, <1>6
        <4> QED
          BY <4>1, <1>2
      <3> QED
        BY <3>1, <3>2, <3>3, <1>8
    <2>2. s.displayed = sched.displayed /\ (s.uploaded = Nothing \/ s.uploaded = sched.uploaded)
      BY <1>4, <1>8
    <2> HIDE DEF s, u
    <2>3. Consistent(source, pixels, s, u, {}, {}, {})
      BY <1>1, <1>2, <1>4, <2>1, <2>2, FreedKeeps DEF Consistent
    <2>4. UpdateDisplayLink(u, s) \in Views /\ SamePicture(UpdateDisplayLink(u, s), u)
      BY <2>1, LinkFacts
    <2>5. SameSlot(s, s)
      BY DEF SameSlot
    <2>6. Consistent(source, pixels, s, UpdateDisplayLink(u, s), {}, {}, {})
      BY <2>3, <2>4, <2>5, SameSlotKeeps
    <2> QED
      BY <2>4, <2>6, <1>1, <1>2, <1>3, <1>4 DEF Typed
  <1> QED
    BY <1>7, <1>8

-----------------------------------------------------------------------------
(* Every action keeps types and invariant.                                 *)

\* A reset of the view, for any source: the slot's reservation survives it.
LEMMA SettleResetKeeps ==
    ASSUME PresentationTypes, PresentationInvariant, NEW o \in Sources,
           NEW s \in Schedulers, SameSlot(s, ResetScheduler(sched)), NEW u \in Views, u.frame = Nothing,
           sched' = s, view' = UpdateDisplayLink(u, s)
    PROVE  /\ Typed(o, pixels, sched', view', staging, staged, gpu)
           /\ Consistent(o, pixels, sched', view', staging, staged, gpu)
  <1> USE DEF PresentationTypes, PresentationInvariant
  <1>1. view' \in Views /\ SamePicture(view', u)
    BY LinkFacts
  <1>2. LET r == ResetScheduler(sched)
        IN  /\ r \in Schedulers /\ r.epoch = sched.epoch + 1 /\ r.uploaded = Nothing /\ r.displayed = Nothing
            /\ r.active = IF InPhase(sched, "ready") THEN Nothing ELSE sched.active
    BY ResetFacts DEF Typed
  <1>3. /\ s.epoch = sched.epoch + 1 /\ s.uploaded = Nothing /\ s.displayed = Nothing
        /\ s.active = IF InPhase(sched, "ready") THEN Nothing ELSE sched.active
    BY <1>2 DEF SameSlot
  <1>4. view'.frame = Nothing
    BY <1>1 DEF SamePicture
  <1>5. Consistent(o, pixels, s, view', staging, staged, gpu)
    BY <1>3, <1>4, ResetKeeps
  <1> QED
    BY <1>1, <1>5 DEF Typed

\* The invariant after a step.
Kept == PresentationTypes' /\ PresentationInvariant'

\* Commits and GPU resets: the generation grows, and a changed tile gets the new one.
LEMMA GuestKeeps ==
    ASSUME PresentationTypes, PresentationInvariant, Guest
    PROVE  Kept
  <1> USE DEF PresentationTypes, PresentationInvariant
  <1>1. /\ source \in Sources /\ source.base \in Nat /\ source.generation \in Nat
        /\ source.changed \in [Tiles -> Nat] /\ \A t \in Tiles : source.changed[t] \in Nat
    BY DEF Typed, Sources, Pictures
  <1>2. CASE ResetSource
    <2> DEFINE n == source.generation + 1
    <2>1. n \in Nat /\ n > source.generation
      BY <1>1
    <2>2. source' = [source EXCEPT !.generation = n, !.present = FALSE]
      BY <1>2, <1>1 DEF ResetSource, Sources
    <2> HIDE DEF n
    <2>3. /\ source' \in Sources /\ source'.generation = n /\ ~source'.present
          /\ source'.base = source.base /\ source'.changed = source.changed
      BY <1>1, <2>1, <2>2 DEF Sources
    <2>4. Follows(source', source)
      BY <1>1, <2>1, <2>3 DEF Follows
    <2>5. Newest(source')
      BY <1>1, <2>1, <2>3 DEF Newest
    <2>6. Consistent(source', pixels, sched, view, staging, staged, gpu)
      BY <2>3, <2>4, SourceKeeps
    <2> QED
      BY <1>2, <2>3, <2>5, <2>6 DEF ResetSource, Kept, Typed
  <1>3. ASSUME NEW tiles \in (SUBSET Tiles) \ {{}}, Commit(tiles)
        PROVE  Kept
    <2> DEFINE n == source.generation + 1
               changed == [t \in Tiles |-> IF t \in tiles \/ ~source.present THEN n ELSE source.changed[t]]
    <2>1. n \in Nat /\ n > source.generation
      BY <1>1
    <2>2. changed \in Pictures
      BY <1>1, <2>1 DEF Pictures
    <2>3. source' = [source EXCEPT !.generation = n, !.present = TRUE, !.changed = changed]
      BY <1>3, <1>1 DEF Commit, Sources
    <2>4. /\ \A t \in Tiles : changed[t] = n \/ changed[t] = source.changed[t]
          /\ \A t \in tiles : changed[t] = n
      OBVIOUS
    <2> HIDE DEF n, changed
    <2>5. /\ source' \in Sources /\ source'.generation = n /\ source'.base = source.base
          /\ source'.changed = changed
      BY <1>1, <2>1, <2>2, <2>3 DEF Sources
    <2>6. Follows(source', source)
      BY <1>1, <2>1, <2>4, <2>5 DEF Follows
    <2>7. Newest(source')
      <3>1. \A t \in Tiles : source.changed[t] <= source.generation
        BY DEF Newest
      <3>2. \A t \in Tiles : changed[t] <= n
        BY <3>1, <1>1, <2>1, <2>4
      <3>3. PICK t \in tiles : t \in Tiles
        BY <1>3
      <3> QED
        BY <3>2, <3>3, <2>4, <2>5 DEF Newest
    <2>8. Consistent(source', pixels, sched, view, staging, staged, gpu)
      BY <2>5, <2>6, SourceKeeps
    <2> QED
      BY <1>3, <2>5, <2>7, <2>8 DEF Commit, Kept, Typed
  <1> QED
    BY <1>2, <1>3 DEF Guest

\* The publisher's notice.
LEMMA PublishKeeps ==
    ASSUME PresentationTypes, PresentationInvariant, PublishMetadata
    PROVE  Kept
  <1> USE DEF PresentationTypes, PresentationInvariant
  <1>1. Metadata \in Frames /\ source.generation \in Nat
    BY DEF Metadata, Now, Frames, Typed, Sources
  <1> DEFINE m == Metadata
             n == source.generation
  <1>2. publisher' = [publisher EXCEPT !.published = n, !.notice = m]
    BY DEF PublishMetadata
  <1> HIDE DEF m, n
  <1>3. publisher' \in [published : Optional(Nat), notice : Optional(Frames)]
    BY <1>1, <1>2 DEF m, n, Optional
  <1> QED
    BY <1>3 DEF PublishMetadata, Kept

\* A callback that changes nothing but what the scheduler knows of the source and
\* the view's link and window.
LEMMA SettleSameKeeps ==
    ASSUME PresentationTypes, PresentationInvariant, NEW s \in Schedulers, SameSlot(s, sched),
           NEW u \in Views, SamePicture(u, view), sched' = s, view' = UpdateDisplayLink(u, s)
    PROVE  /\ Typed(source, pixels, sched', view', staging, staged, gpu)
           /\ Consistent(source, pixels, sched', view', staging, staged, gpu)
  <1> USE DEF PresentationTypes, PresentationInvariant
  <1>1. view' \in Views /\ SamePicture(view', u)
    BY LinkFacts
  <1>2. SamePicture(view', view)
    BY <1>1 DEF SamePicture
  <1>3. Consistent(source, pixels, s, view', staging, staged, gpu)
    BY <1>2, SameSlotKeeps
  <1> QED
    BY <1>1, <1>3 DEF Typed

\* The notice's delivery to feed and scheduler.
LEMMA DeliverKeeps ==
    ASSUME PresentationTypes, PresentationInvariant, DeliverMetadata
    PROVE  Kept
  <1> USE DEF PresentationTypes, PresentationInvariant
  <1>1. publisher.notice \in Frames
    BY DEF DeliverMetadata, Optional
  <1>2. publisher' \in [published : Optional(Nat), notice : Optional(Frames)]
    BY DEF DeliverMetadata, Optional
  <1>3. /\ UNCHANGED <<source, pixels, staging, staged, gpu, resets, faults>>
        /\ feed' = feed \/ feed' = publisher.notice
    BY DEF DeliverMetadata, Settle
  <1>4. CASE UNCHANGED <<sched, view>>
    BY <1>1, <1>2, <1>3, <1>4 DEF Kept, Optional
  <1>5. CASE Settle(view, Receive(sched, publisher.notice))
    <2>1. Receive(sched, publisher.notice) \in Schedulers /\ SameSlot(Receive(sched, publisher.notice), sched)
      BY <1>1, ReceiveFacts DEF Typed
    <2>2. view \in Views /\ SamePicture(view, view)
      BY DEF Typed, SamePicture
    <2>3. /\ Typed(source, pixels, sched', view', staging, staged, gpu)
          /\ Consistent(source, pixels, sched', view', staging, staged, gpu)
      BY <1>5, <2>1, <2>2, SettleSameKeeps DEF Settle
    <2> QED
      BY <1>1, <1>2, <1>3, <2>3 DEF Kept, Optional
  <1> QED
    BY <1>4, <1>5 DEF DeliverMetadata

\* The end of a run.
LEMMA StopKeeps ==
    ASSUME PresentationTypes, PresentationInvariant, Stop
    PROVE  Kept
  <1> USE DEF PresentationTypes, PresentationInvariant
  <1>1. /\ source' \in Sources /\ source'.generation = source.generation /\ ~source'.present
        /\ source'.base = source.base /\ source'.changed = source.changed
    BY DEF Stop, Typed, Sources
  <1>2. source.generation \in Nat
    BY DEF Typed, Sources
  <1>3. Follows(source', source) /\ Newest(source')
    BY <1>1, <1>2 DEF Follows, Newest
  <1>4. Consistent(source', pixels, sched, view, staging, staged, gpu)
    BY <1>1, <1>3, SourceKeeps
  <1>5. resets' \in Nat
    BY DEF Stop
  <1> QED
    BY <1>1, <1>3, <1>4, <1>5 DEF Stop, Kept, Typed

\* A new run of the guest.
LEMMA BootKeeps ==
    ASSUME PresentationTypes, PresentationInvariant, Boot
    PROVE  Kept
  <1> USE DEF PresentationTypes, PresentationInvariant
  <1> DEFINE changed == [t \in Tiles |-> 0]
             base == source.base + source.generation + 1
  <1>1. changed \in Pictures /\ base \in Nat /\ \A t \in Tiles : changed[t] = 0
    BY DEF Typed, Sources, Pictures
  <1>2. source' = [base |-> base, generation |-> 0, present |-> FALSE, running |-> TRUE, changed |-> changed]
    BY DEF Boot, Now
  <1> HIDE DEF changed, base
  <1>3. source' \in Sources
    BY <1>1, <1>2 DEF Sources
  <1>4. Newest(source')
    BY <1>1, <1>2 DEF Newest
  <1>5. /\ publisher' \in [published : Optional(Nat), notice : Optional(Frames)] /\ feed' \in Optional(Frames)
        /\ UNCHANGED <<pixels, staging, staged, gpu, resets, faults>>
    BY DEF Boot, Settle, Optional
  <1>6. /\ Typed(source', pixels, sched', view', staging, staged, gpu)
        /\ Consistent(source', pixels, sched', view', staging, staged, gpu)
    <2>1. CASE view.attached
      <3>1. ResetScheduler(sched) \in Schedulers /\ SameSlot(ResetScheduler(sched), ResetScheduler(sched))
        BY ResetFacts DEF Typed, SameSlot
      <3>2. ResetFrame(view) \in Views /\ ResetFrame(view).frame = Nothing
        BY ResetFrameFacts DEF Typed
      <3> QED
        BY <2>1, <3>1, <3>2, <1>3, SettleResetKeeps DEF Boot, Settle
    <2>2. CASE ~view.attached
      <3>1. UNCHANGED <<sched, view>>
        BY <2>2 DEF Boot
      <3> QED
        BY <2>2, <3>1, <1>3, DetachedKeeps DEF Typed
    <2> QED
      BY <2>1, <2>2
  <1> QED
    BY <1>4, <1>5, <1>6 DEF Kept

\* The view gets a feed, or loses it.
LEMMA ConnectionKeeps ==
    ASSUME PresentationTypes, PresentationInvariant, Configure \/ Disconnect
    PROVE  Kept
  <1> USE DEF PresentationTypes, PresentationInvariant
  <1>1. UNCHANGED <<source, publisher, feed, pixels, staging, staged, gpu, faults>> /\ resets' \in Nat
    BY DEF Configure, Disconnect, Settle
  <1>2. ResetScheduler(sched) \in Schedulers
    BY ResetFacts DEF Typed
  <1>3. PICK b \in BOOLEAN, s \in Schedulers :
           SameSlot(s, ResetScheduler(sched)) /\ Settle([ResetFrame(view) EXCEPT !.attached = b], s)
    <2>1. SameSlot(ResetScheduler(sched), ResetScheduler(sched))
      BY DEF SameSlot
    <2>2. CASE Disconnect
      BY <2>1, <2>2, <1>2 DEF Disconnect
    <2>3. CASE Configure /\ feed = Nothing
      BY <2>1, <2>3, <1>2 DEF Configure
    <2>4. CASE Configure /\ feed # Nothing
      <3>1. feed \in Frames
        BY <2>4 DEF Optional
      <3>2. Receive(ResetScheduler(sched), feed) \in Schedulers
            /\ SameSlot(Receive(ResetScheduler(sched), feed), ResetScheduler(sched))
        BY <3>1, <1>2, ReceiveFacts
      <3> QED
        BY <2>4, <3>2 DEF Configure
    <2> QED
      BY <2>2, <2>3, <2>4
  <1> DEFINE u == [ResetFrame(view) EXCEPT !.attached = b]
  <1>4. u \in Views /\ u.frame = Nothing
    BY ResetFrameFacts DEF Typed
  <1> HIDE DEF u
  <1>5. sched' = s /\ view' = UpdateDisplayLink(u, s)
    BY <1>3 DEF Settle, u
  <1>6. /\ Typed(source, pixels, sched', view', staging, staged, gpu)
        /\ Consistent(source, pixels, sched', view', staging, staged, gpu)
    BY <1>3, <1>4, <1>5, SettleResetKeeps DEF Typed
  <1> QED
    BY <1>1, <1>6 DEF Kept

\* The view's window and layout.
LEMMA WindowKeeps ==
    ASSUME PresentationTypes, PresentationInvariant, EnterWindow \/ LeaveWindow \/ ChangeLayout
    PROVE  Kept
  <1> USE DEF PresentationTypes, PresentationInvariant
  <1>1. UNCHANGED <<source, publisher, feed, pixels, staging, staged, gpu, faults>> /\ resets' \in Nat
    BY DEF EnterWindow, LeaveWindow, ChangeLayout, Settle
  <1>2. PICK u \in Views, s \in Schedulers : SamePicture(u, view) /\ SameSlot(s, sched) /\ Settle(u, s)
    <2>1. sched \in Schedulers /\ SameSlot(sched, sched) /\ view \in Views /\ SamePicture(view, view)
      BY DEF SameSlot, SamePicture, Typed
    <2>2. \A b \in BOOLEAN : [view EXCEPT !.window = b] \in Views /\ SamePicture([view EXCEPT !.window = b], view)
      BY <2>1 DEF Views, SamePicture
    <2>3. RequestRedraw(sched) \in Schedulers /\ SameSlot(RequestRedraw(sched), sched)
      BY <2>1, RedrawFacts
    <2>4. CASE EnterWindow
      BY <2>1, <2>2, <2>4 DEF EnterWindow
    <2>5. CASE LeaveWindow
      BY <2>1, <2>2, <2>5 DEF LeaveWindow
    <2>6. CASE ChangeLayout
      BY <2>1, <2>3, <2>6 DEF ChangeLayout
    <2> QED
      BY <2>4, <2>5, <2>6
  <1>3. sched' = s /\ view' = UpdateDisplayLink(u, s)
    BY <1>2 DEF Settle
  <1>4. /\ Typed(source, pixels, sched', view', staging, staged, gpu)
        /\ Consistent(source, pixels, sched', view', staging, staged, gpu)
    BY <1>2, <1>3, SettleSameKeeps
  <1> QED
    BY <1>1, <1>4 DEF Kept

\* presentReadyFrame and updateDisplayLink, from a state that callbacks before
\* them have reached.
LEMMA PresentFromKeeps ==
    ASSUME PresentationTypes, NEW s, NEW u, NEW d, Typed(source, pixels, s, u, staging, d, gpu),
           Consistent(source, pixels, s, u, staging, d, gpu), PresentFrom(u, s)
    PROVE  /\ Typed(source, pixels, sched', view', staging, d, gpu')
           /\ Consistent(source, pixels, sched', view', staging, d, gpu')
           /\ faults' \in Nat
  <1>1. PICK r \in PresentReadyFrame(u, s) :
           /\ faults' = faults + r.faults /\ sched' = r.sched
           /\ view' = UpdateDisplayLink(r.view, r.sched) /\ gpu' = gpu \cup r.jobs
    BY DEF PresentFrom
  <1>2. /\ Typed(source, pixels, r.sched, r.view, staging, d, gpu \cup r.jobs)
        /\ Consistent(source, pixels, r.sched, r.view, staging, d, gpu \cup r.jobs)
    BY PresentKeeps
  <1>3. view' \in Views /\ SamePicture(view', r.view)
    BY <1>1, <1>2, LinkFacts DEF Typed
  <1>4. Consistent(source, pixels, sched', view', staging, d, gpu')
    <2>1. SameSlot(sched', r.sched)
      BY <1>1 DEF SameSlot
    <2> QED
      BY <1>1, <1>2, <1>3, <2>1, SameSlotKeeps
  <1>5. r.faults \in Nat
    <2>1. /\ PresentImage(u, s).faults = 0 /\ Submitted(u, s).faults = 0
          /\ Unavailable(u, s).faults = 1 /\ SubmissionFailed(u, s).faults = 1
      BY DEF PresentImage, Submitted, Unavailable, SubmissionFailed
    <2> QED
      BY <2>1 DEF PresentReadyFrame
  <1>6. faults' \in Nat
    BY <1>1, <1>5 DEF PresentationTypes
  <1> QED
    BY <1>1, <1>2, <1>3, <1>4, <1>6 DEF Typed

\* The display link's callback with a frame ready.
LEMMA ReadyKeeps ==
    ASSUME PresentationTypes, PresentationInvariant, RefreshReady
    PROVE  Kept
  <1>1. /\ Typed(source, pixels, sched', view', staging, staged, gpu')
        /\ Consistent(source, pixels, sched', view', staging, staged, gpu')
        /\ faults' \in Nat
    BY PresentFromKeeps DEF RefreshReady, PresentationTypes, PresentationInvariant
  <1> QED
    BY <1>1 DEF RefreshReady, Kept, PresentationTypes, PresentationInvariant

\* Without a reservation no ticket is held.
LEMMA TicketFacts ==
    ASSUME sched \in Schedulers, sched.active = Nothing, staging = {}, staged = {}, gpu = {}
    PROVE  FreshTicket \in Tickets /\ FreshTicket.epoch = sched.epoch
  <1> DEFINE held == {j.ticket.id : j \in staging \cup staged \cup gpu}
                     \cup (IF sched.active = Nothing THEN {} ELSE {sched.active.ticket.id})
             id == CHOOSE n \in 0..Cardinality(held) : n \notin held
  <1>1. held = {}
    OBVIOUS
  <1>2. Cardinality(held) = 0
    BY <1>1, FS_EmptySet
  <1>3. \E n \in 0..Cardinality(held) : n \notin held
    BY <1>1, <1>2
  <1>4. id \in 0..Cardinality(held)
    BY <1>3
  <1>5. id \in Nat
    BY <1>2, <1>4
  <1>6. FreshTicket = [epoch |-> sched.epoch, id |-> id]
    BY DEF FreshTicket
  <1> HIDE DEF id
  <1> QED
    BY <1>5, <1>6 DEF Tickets, Schedulers

\* The display link's callback that acquires a frame.
LEMMA AcquiringKeeps ==
    ASSUME PresentationTypes, PresentationInvariant, RefreshAcquire
    PROVE  Kept
  <1> USE DEF PresentationTypes, PresentationInvariant
  <1> DEFINE lease == RefreshLease(sched)
             ticket == FreshTicket
             s == BeginRefresh(sched, ticket, lease)
             job == [ticket |-> ticket, lease |-> lease, previous |-> view.frame, metal |-> ~view.metalDisabled]
             u == [view EXCEPT !.frame = Nothing]
  <1>1. /\ sched.active = Nothing /\ sched.latest # Nothing /\ source.present /\ view.attached
        /\ staging' = staging \cup {job} /\ sched' = s /\ view' = UpdateDisplayLink(u, s)
        /\ UNCHANGED <<source, publisher, feed, pixels, staged, gpu, resets, faults>>
    BY DEF RefreshAcquire, LinkFires, Refreshable, NeedsRefresh, CanLease, Settle
  <1>2. sched \in Schedulers /\ view \in Views /\ source \in Sources
    BY DEF Typed
  <1>3. staging = {} /\ staged = {} /\ gpu = {}
    BY <1>1 DEF Consistent, OneJob, Active
  <1>4. ticket \in Tickets /\ ticket.epoch = sched.epoch
    BY <1>1, <1>2, <1>3, TicketFacts
  <1>5. /\ lease \in Leases
        /\ \E t \in Tiles : lease.pixels[t] = lease.time
        /\ PictureAt(source, lease.pixels, lease.generation)
        /\ \A picture : (sched.uploaded # Nothing => PictureAt(source, picture, sched.uploaded.generation)) =>
             \A t \in Tiles \ lease.damage : picture[t] = lease.pixels[t]
    BY <1>1, <1>2, LeaseFacts
  <1> HIDE DEF lease, ticket
  <1>6. /\ s \in Schedulers /\ s.epoch = sched.epoch
        /\ s.uploaded = sched.uploaded /\ s.displayed = sched.displayed
        /\ s.active \in Slots /\ s.active.ticket = ticket /\ s.active.lease = lease
        /\ s.active.phase = "uploading"
    BY <1>2, <1>4, <1>5, BeginRefreshFacts
  <1>7. job \in StagingJobs /\ job.ticket = ticket /\ job.lease = lease /\ job.previous = view.frame
    <2> DEFINE metal == ~view.metalDisabled
    <2>1. metal \in BOOLEAN
      OBVIOUS
    <2> HIDE DEF metal
    <2> QED
      BY <2>1, <1>2, <1>4, <1>5 DEF StagingJobs, Views
  <1>8. u \in Views /\ u.attached = view.attached /\ u.frame = Nothing /\ Screen(u) = Screen(view)
    BY <1>2 DEF Views, Optional, Screen
  <1> HIDE DEF s, job, u
  <1>9. Consistent(source, pixels, s, u, staging \cup {job}, staged, gpu)
    <2>1. /\ \E t \in Tiles : s.active.lease.pixels[t] = s.active.lease.time
          /\ PictureAt(source, s.active.lease.pixels, s.active.lease.generation)
          /\ \A picture : (sched.uploaded # Nothing => PictureAt(source, picture, sched.uploaded.generation)) =>
               \A t \in Tiles \ s.active.lease.damage : picture[t] = s.active.lease.pixels[t]
      BY <1>5, <1>6
    <2>2. s.active.ticket.epoch = sched.epoch /\ job.ticket = s.active.ticket /\ job.lease = s.active.lease
      BY <1>4, <1>6, <1>7
    <2> QED
      BY <1>1, <1>6, <1>7, <1>8, <2>1, <2>2, AcquireKeeps
  <1>10. view' \in Views /\ SamePicture(view', u) /\ SameSlot(s, s)
    BY <1>1, <1>8, LinkFacts DEF SameSlot
  <1>11. Consistent(source, pixels, s, view', staging \cup {job}, staged, gpu)
    BY <1>9, <1>10, SameSlotKeeps
  <1> QED
    BY <1>1, <1>6, <1>7, <1>10, <1>11 DEF Kept, Typed

\* The worker has staged a job's lease, or has failed.
LEMMA DoneKeeps ==
    ASSUME PresentationTypes, PresentationInvariant, NEW job \in staging, NEW f \in Optional(StagedFrames),
           StageDone(job, f), pixels' \in [Textures -> Pictures], faults' \in Nat,
           f # Nothing => PictureOf(pixels', f) = job.lease.pixels
    PROVE  Kept
  <1> USE DEF PresentationTypes, PresentationInvariant
  <1> DEFINE k == [ticket |-> job.ticket, frame |-> f]
  <1>1. /\ UNCHANGED <<source, publisher, feed, sched, view, gpu, resets>>
        /\ staging' = staging \ {job} /\ staged' = staged \cup {k}
    BY DEF StageDone
  <1>2. k \in StagedJobs
    BY DEF Typed, StagingJobs, StagedJobs
  <1>3. Consistent(source, pixels', sched, view, staging', staged', gpu)
    BY <1>1, StageKeeps
  <1> QED
    BY <1>1, <1>2, <1>3 DEF Kept, Typed

\* The worker: a texture, a shared texture, an image, or a failure.
LEMMA WorkerKeeps ==
    ASSUME PresentationTypes, PresentationInvariant, Stage
    PROVE  Kept
  <1> USE DEF PresentationTypes, PresentationInvariant
  <1>1. PICK job \in staging : StageTexture(job) \/ StageShared(job) \/ StageImage(job) \/ StageFails(job)
    BY DEF Stage
  <1>2. job \in StagingJobs /\ pixels \in [Textures -> Pictures] /\ view \in Views
    BY DEF Typed
  <1>3. job.lease.pixels \in Pictures
    BY <1>2 DEF StagingJobs, Leases
  <1>4. staged = {} /\ gpu = {} /\ staging = {job} /\ view.frame = Nothing
    BY WorkerHasSlot
  <1>5. CASE StageTexture(job)
    <2> DEFINE reuse == ReusableTexture(job)
               target == IF reuse # Nothing THEN reuse ELSE CHOOSE x \in Textures : x \notin TexturesInUse
               f == [kind |-> "texture", texture |-> target]
               picture == [t \in Tiles |-> IF t \in UploadPlan(job) THEN job.lease.pixels[t] ELSE pixels[target][t]]
    <2>1. pixels' = [pixels EXCEPT ![target] = picture] /\ StageDone(job, f) /\ faults' = faults
      BY <1>5 DEF StageTexture
    <2>2. target \in Textures
      <3>1. CASE reuse # Nothing
        <4>1. job.previous \in StagedFrames /\ job.previous.kind = "texture" /\ reuse = job.previous.texture
          BY <3>1, <1>2 DEF ReusableTexture, StagingJobs, Optional
        <4> QED
          BY <3>1, <4>1 DEF StagedFrames
      <3>2. CASE reuse = Nothing
        <4>1. TexturesInUse = {}
          BY <3>2, <1>4 DEF TexturesInUse
        <4>2. \E x \in Textures : x \notin TexturesInUse
          BY <4>1, FramePresentationAssumption
        <4> QED
          BY <3>2, <4>2
      <3> QED
        BY <3>1, <3>2
    <2>3. picture = job.lease.pixels
      <3>1. \A t \in Tiles : t \notin UploadPlan(job) => pixels[target][t] = job.lease.pixels[t]
        <4>1. CASE reuse # Nothing
          <5>1. IsTexture(job.previous) /\ target = job.previous.texture /\ UploadPlan(job) = job.lease.damage
            BY <4>1 DEF ReusableTexture, IsTexture, UploadPlan
          <5> QED
            BY <5>1 DEF Consistent, Repairable
        <4>2. CASE reuse = Nothing
          BY <4>2 DEF UploadPlan
        <4> QED
          BY <4>1, <4>2
      <3>2. picture = [t \in Tiles |-> job.lease.pixels[t]]
        BY <3>1
      <3> QED
        BY <3>2, <1>3 DEF Pictures
    <2> HIDE DEF target, picture
    <2>4. pixels' \in [Textures -> Pictures] /\ pixels'[target] = picture
      BY <2>1, <2>2, <2>3, <1>2, <1>3
    <2>5. f \in Optional(StagedFrames) /\ PictureOf(pixels', f) = picture
      BY <2>2, <2>4 DEF StagedFrames, Optional, PictureOf
    <2> QED
      BY <2>1, <2>3, <2>4, <2>5, DoneKeeps
  <1>6. ASSUME NEW kind \in {"shared", "image"},
               StageDone(job, [kind |-> kind, pixels |-> job.lease.pixels]), UNCHANGED pixels, faults' \in Nat
        PROVE  Kept
    <2> DEFINE f == [kind |-> kind, pixels |-> job.lease.pixels]
    <2>1. f \in Optional(StagedFrames) /\ PictureOf(pixels', f) = job.lease.pixels
      BY <1>3 DEF StagedFrames, Optional, PictureOf
    <2> HIDE DEF f
    <2> QED
      BY <2>1, <1>2, <1>6, DoneKeeps DEF f
  <1>7. CASE StageShared(job)
    BY <1>6, <1>7 DEF StageShared
  <1>8. CASE StageImage(job)
    <2>1. faults' \in Nat
      BY <1>8 DEF StageImage
    <2> QED
      BY <1>6, <1>8, <2>1 DEF StageImage
  <1>9. CASE StageFails(job)
    <2>1. faults' \in Nat /\ pixels' \in [Textures -> Pictures] /\ StageDone(job, Nothing)
      BY <1>2, <1>9 DEF StageFails
    <2> QED
      BY <2>1, DoneKeeps DEF Optional
  <1> QED
    BY <1>1, <1>5, <1>7, <1>8, <1>9

\* The worker's result on the main thread.
LEMMA ResultKeeps ==
    ASSUME PresentationTypes, PresentationInvariant, FinishStaging
    PROVE  Kept
  <1> USE DEF PresentationTypes, PresentationInvariant
  <1>1. PICK job \in staged :
           /\ staged' = staged \ {job}
           /\ IF Discards(sched, job.ticket, job.frame # Nothing)
              THEN Settle(view, FinishUpload(sched, job.ticket, job.frame # Nothing))
              ELSE PresentFrom([view EXCEPT !.frame = job.frame],
                               FinishUpload(sched, job.ticket, job.frame # Nothing))
           /\ UNCHANGED <<source, publisher, feed, pixels, staging, resets>>
    BY DEF FinishStaging
  <1> DEFINE s == FinishUpload(sched, job.ticket, job.frame # Nothing)
             gone == Discards(sched, job.ticket, job.frame # Nothing)
             u == IF gone THEN view ELSE [view EXCEPT !.frame = job.frame]
  <1>2. /\ Typed(source, pixels, s, u, staging, staged', gpu)
        /\ Consistent(source, pixels, s, u, staging, staged', gpu)
    BY <1>1, UploadKeeps
  <1>3. IF gone THEN Settle(u, s) ELSE PresentFrom(u, s)
    BY <1>1
  <1> HIDE DEF s, u, gone
  <1>4. /\ Typed(source, pixels, sched', view', staging, staged', gpu')
        /\ Consistent(source, pixels, sched', view', staging, staged', gpu')
        /\ faults' \in Nat
    <2>1. CASE gone
      <3>1. sched' = s /\ view' = UpdateDisplayLink(u, s) /\ UNCHANGED <<gpu, faults>>
        BY <1>3, <2>1 DEF Settle
      <3>2. view' \in Views /\ SamePicture(view', u) /\ SameSlot(s, s)
        BY <1>2, <3>1, LinkFacts DEF Typed, SameSlot
      <3>3. Consistent(source, pixels, s, view', staging, staged', gpu)
        BY <1>2, <3>2, SameSlotKeeps
      <3> QED
        BY <1>2, <3>1, <3>2, <3>3 DEF Typed
    <2>2. CASE ~gone
      BY <1>2, <1>3, <2>2, PresentFromKeeps
    <2> QED
      BY <2>1, <2>2
  <1> QED
    BY <1>1, <1>4 DEF Kept

\* The command buffer's completion on the main thread.
LEMMA CompletionKeeps ==
    ASSUME PresentationTypes, PresentationInvariant, FinishGPU
    PROVE  Kept
  <1> USE DEF PresentationTypes, PresentationInvariant
  <1>1. PICK job \in gpu, ok \in BOOLEAN : GPUDone(job, ok) /\ faults' \in Nat
    <2>1. PICK job \in gpu : \/ GPUDone(job, TRUE) /\ UNCHANGED faults
                             \/ faults < MaxFaults /\ GPUDone(job, FALSE) /\ faults' = faults + 1
      BY DEF FinishGPU
    <2>2. faults' \in Nat
      <3>1. faults' = faults \/ faults' = faults + 1
        BY <2>1
      <3> QED
        BY <3>1
    <2>3. GPUDone(job, TRUE) \/ GPUDone(job, FALSE)
      BY <2>1
    <2> QED
      BY <2>2, <2>3
  <1>2. /\ Typed(source, pixels, sched', view', staging, staged, gpu')
        /\ Consistent(source, pixels, sched', view', staging, staged, gpu')
    BY <1>1, GPUKeeps
  <1>3. UNCHANGED <<source, publisher, feed, pixels, staging, staged, resets>>
    BY <1>1 DEF GPUDone
  <1> QED
    BY <1>1, <1>2, <1>3 DEF Kept

-----------------------------------------------------------------------------

(* The theorems.                                                          *)

\* Before the first commit nothing is reserved.
LEMMA InitHolds == Init => PresentationTypes /\ PresentationInvariant
  <1> SUFFICES ASSUME Init PROVE PresentationTypes /\ PresentationInvariant
    OBVIOUS
  <1> DEFINE zero == [t \in Tiles |-> 0]
  <1>1. zero \in Pictures /\ \A t \in Tiles : zero[t] = 0
    BY DEF Pictures
  <1>2. source = [base |-> 0, generation |-> 0, present |-> FALSE, running |-> TRUE, changed |-> zero]
        /\ pixels = [x \in Textures |-> zero]
    BY DEF Init
  <1> HIDE DEF zero
  <1>3. source \in Sources /\ pixels \in [Textures -> Pictures] /\ Newest(source)
    BY <1>1, <1>2 DEF Sources, Newest
  <1>4. sched \in Schedulers /\ view \in Views
    BY DEF Init, NewScheduler, NewView, Schedulers, Views, Optional
  <1>5. PresentationTypes
    BY <1>3, <1>4 DEF Init, PresentationTypes, Typed, Optional
  <1>6. /\ sched.active = Nothing /\ sched.uploaded = Nothing /\ sched.displayed = Nothing /\ view.frame = Nothing
        /\ staging = {} /\ staged = {} /\ gpu = {}
    BY DEF Init, NewScheduler, NewView
  <1>7. ~Active(sched) /\ ~Current(sched) /\ \A phase : ~InPhase(sched, phase)
    BY <1>6 DEF Active, Current, InPhase
  <1>8. Consistent(source, pixels, sched, view, staging, staged, gpu)
    BY <1>6, <1>7 DEF Consistent, OneJob, Epochs, Forgotten, Leased, Baseline, Repairable, Staged, OnScreen
  <1> QED
    BY <1>3, <1>5, <1>8 DEF PresentationInvariant

\* One callback of the main thread, the worker, the guest or the publisher keeps
\* types and invariant.
LEMMA StepKeeps == PresentationTypes /\ PresentationInvariant /\ [Next]_vars => Kept
  <1> SUFFICES ASSUME PresentationTypes, PresentationInvariant, [Next]_vars PROVE Kept
    OBVIOUS
  <1>1. CASE Next
    BY <1>1, GuestKeeps, PublishKeeps, DeliverKeeps, StopKeeps, BootKeeps, ConnectionKeeps, WindowKeeps,
       ReadyKeeps, AcquiringKeeps, WorkerKeeps, ResultKeeps, CompletionKeeps DEF Next
  <1>2. CASE UNCHANGED vars
    BY <1>2 DEF vars, Kept, PresentationTypes, PresentationInvariant
  <1> QED
    BY <1>1, <1>2

\* The invariant of the scheduler (FramePresentationScheduler) and the view
\* (GuestDisplaySurfaceView): the one slot says who has the job, a reset leaves
\* just the reservation, the texture to reuse is the baseline of the damage.
THEOREM PresentationIsConsistent == Spec => [](PresentationTypes /\ PresentationInvariant)
  <1>1. PresentationTypes /\ PresentationInvariant /\ [Next]_vars => (PresentationTypes /\ PresentationInvariant)'
    BY StepKeeps DEF Kept
  <1> QED
    BY <1>1, InitHolds, PTL DEF Spec

\* "One slot is reserved from acquisition through worker/GPU completion, including
\* reset": never two jobs, and no texture written while a command buffer reads it.
THEOREM SlotStaysReserved == Spec => []SlotIsReserved
  <1>1. PresentationTypes /\ PresentationInvariant => SlotIsReserved
    <2> SUFFICES ASSUME PresentationTypes, PresentationInvariant PROVE SlotIsReserved
      OBVIOUS
    <2> USE DEF PresentationTypes, PresentationInvariant
    <2>1. Cardinality(staging) + Cardinality(staged) + Cardinality(gpu) <= 1
      <3>1. \/ staging = {} /\ staged = {} /\ gpu = {}
            \/ \E j : staging = {j} /\ staged = {} /\ gpu = {}
            \/ \E j : staging = {} /\ staged = {j} /\ gpu = {}
            \/ \E j : staging = {} /\ staged = {} /\ gpu = {j}
        <4>1. ASSUME NEW j \in staging PROVE staging = {j} /\ staged = {} /\ gpu = {}
          BY WorkerHasSlot
        <4>2. ASSUME NEW j \in staged PROVE staging = {} /\ staged = {j} /\ gpu = {}
          BY ResultHasSlot
        <4>3. ASSUME NEW j \in gpu PROVE staging = {} /\ staged = {} /\ gpu = {j}
          BY BufferHasSlot
        <4> QED
          BY <4>1, <4>2, <4>3
      <3>2. Cardinality({}) = 0 /\ \A j : Cardinality({j}) = 1
        BY FS_EmptySet, FS_Singleton
      <3> QED
        <4>1. Cardinality(staging) = 0 \/ Cardinality(staging) = 1
          BY <3>1, <3>2
        <4>2. /\ Cardinality(staging) = 1 => Cardinality(staged) = 0 /\ Cardinality(gpu) = 0
              /\ Cardinality(staging) = 0 => \/ Cardinality(staged) = 0 /\ Cardinality(gpu) = 0
                                             \/ Cardinality(staged) = 1 /\ Cardinality(gpu) = 0
                                             \/ Cardinality(staged) = 0 /\ Cardinality(gpu) = 1
          BY <3>1, <3>2
        <4> QED
          BY <4>1, <4>2
    <2>2. staging \cup staged \cup gpu # {} => sched.active # Nothing
      BY DEF Consistent, OneJob, Active
    <2>3. GPUReadsStable
      BY DEF GPUReadsStable, Consistent, Staged, PixelsOf, PictureOf
    <2> QED
      BY <2>1, <2>2, <2>3 DEF SlotIsReserved, OneReservation
  <1> QED
    BY <1>1, PresentationIsConsistent, PTL

\* What is ready or submitted is the picture that was leased, although just the
\* damage was copied, and the frame held displayed is the one on the screen.
THEOREM ShowsTheLease == Spec => []ShowsWhatWasLeased
  <1>1. PresentationTypes /\ PresentationInvariant => ShowsWhatWasLeased
    <2> SUFFICES ASSUME PresentationTypes, PresentationInvariant PROVE ShowsWhatWasLeased
      OBVIOUS
    <2>1. StagedIsLeased
      BY DEF PresentationInvariant, Consistent, Staged, StagedIsLeased, InPhase, Active, Current, PixelsOf, PictureOf
    <2>2. ScreenShowsDisplayed
      BY DEF PresentationInvariant, Consistent, OnScreen, ScreenShowsDisplayed
    <2> QED
      BY <2>1, <2>2 DEF ShowsWhatWasLeased
  <1> QED
    BY <1>1, PresentationIsConsistent, PTL
===============================================================================
