-------------------------- MODULE FramePresentation --------------------------
(***************************************************************************)
(* From published frames to the screen: the display publisher's metadata   *)
(* notices and the feed (MobileOSHostModel, GuestDisplayFeed), the         *)
(* scheduler that owns the one presentation slot                           *)
(* (FramePresentationScheduler) and the view that stages frames on a       *)
(* worker, submits them to Metal or shows a CPU image, and pauses its      *)
(* display link when nothing is due (GuestDisplaySurfaceView).             *)
(*                                                                         *)
(* Everything but the guest's commits, the publisher's read and the        *)
(* staging worker runs on the main thread, one callback at a time.         *)
(*                                                                         *)
(* The frame source is the promise of FrameSource with the least damage it *)
(* allows: a lease reports just the tiles that changed since the           *)
(* generation asked for.  A tile's content is the time of the commit that  *)
(* last changed it, so every commit is a different picture.  All frames    *)
(* have one layout.  Generations do not wrap.                              *)
(***************************************************************************)
EXTENDS Naturals, FiniteSets

CONSTANTS Tiles,       \* the screen
          Textures,    \* texture allocations
          MaxCommits,  \* bound: commits over all runs of the guest
          MaxResets,   \* bound: restarts, stops, reconnections, window changes
          MaxFaults,   \* bound: failed stagings, submissions and GPU jobs
          Nothing      \* nil

ASSUME FramePresentationAssumption ==
  /\ IsFiniteSet(Tiles) /\ Tiles # {}
  /\ IsFiniteSet(Textures) /\ Textures # {}
  /\ MaxCommits \in Nat /\ MaxResets \in Nat /\ MaxFaults \in Nat

Pictures == [Tiles -> Nat]
Frames == [generation : Nat, time : Nat]
Leases == [generation : Nat, time : Nat, pixels : Pictures, damage : SUBSET Tiles]
Tickets == [epoch : Nat, id : Nat]
Slots == [ticket : Tickets, lease : Leases, phase : {"uploading", "ready", "queued"}]
StagedFrames == [kind : {"texture"}, texture : Textures] \cup [kind : {"shared", "image"}, pixels : Pictures]

\* nil is no value of an optional.
ASSUME NothingAssumption == Nothing \notin Nat \cup Pictures \cup Frames \cup Slots \cup StagedFrames

VARIABLES
  source,     \* the running guest's display: base time, generation, changes
  publisher,  \* generation published and the notice on its way
  feed,       \* GuestDisplayFeed.latestMetadata
  sched,      \* FramePresentationScheduler
  view,       \* GuestDisplaySurfaceView
  pixels,     \* what each texture holds
  staging,    \* jobs handed to the staging queue
  staged,     \* their results, on the way back to the main thread
  gpu,        \* submitted command buffers
  resets, faults

vars == <<source, publisher, feed, sched, view, pixels, staging, staged, gpu, resets, faults>>

-----------------------------------------------------------------------------
(* The frame source *)

Now == source.base + source.generation

\* frameMetadata's identity of a frame: generation and commit timestamp.
Metadata == [generation |-> source.generation, time |-> Now]

\* frameLease(afterGeneration:), by the promise FrameSlots implements.
LeaseAfter(previous) ==
  [generation |-> source.generation, time |-> Now,
   pixels |-> [t \in Tiles |-> source.base + source.changed[t]],
   damage |-> IF previous = Nothing THEN Tiles
              ELSE IF previous > source.generation THEN Tiles
              ELSE {t \in Tiles : source.changed[t] > previous}]

CanLease(previous) == source.present /\ previous # source.generation

-----------------------------------------------------------------------------
(* FramePresentationScheduler *)

NewScheduler == [epoch |-> 0, active |-> Nothing, latest |-> Nothing,
                 uploaded |-> Nothing, displayed |-> Nothing, redraw |-> FALSE]

FrameOf(lease) == [generation |-> lease.generation, time |-> lease.time]

NeedsRefresh(s) ==
  IF s.active # Nothing THEN s.active.phase = "ready"
  ELSE s.latest # Nothing /\ (s.redraw \/ s.latest # s.displayed)

IsCurrent(s, ticket) ==
  s.active # Nothing /\ s.active.ticket = ticket /\ ticket.epoch = s.epoch

\* A lease can observe a commit before its notice arrives.
Receive(s, metadata) ==
  IF s.latest # Nothing /\ s.latest.time > metadata.time THEN s
  ELSE [s EXCEPT !.latest = metadata]

RequestRedraw(s) == [s EXCEPT !.redraw = TRUE]

\* The generation to ask damage since: of the last successful upload, or nil
\* when that is no baseline.
PreviousGeneration(s) ==
  IF \/ s.uploaded = Nothing
     \/ s.latest.generation < s.uploaded.generation
     \/ s.latest = s.uploaded
  THEN Nothing ELSE s.uploaded.generation

\* beginRefresh's choice: a second lease in full if the source went back.
RefreshLease(s) ==
  LET previous == PreviousGeneration(s)
  IN  IF previous # Nothing /\ source.generation < previous
      THEN LeaseAfter(Nothing) ELSE LeaseAfter(previous)

\* The guard of beginRefresh; acquireFrame may still return nil.
Refreshable(s) == s.active = Nothing /\ NeedsRefresh(s)

BeginRefresh(s, ticket, lease) ==
  [s EXCEPT !.latest = FrameOf(lease), !.redraw = FALSE,
            !.active = [ticket |-> ticket, lease |-> lease, phase |-> "uploading"]]

Uploading(s, ticket) ==
  s.active # Nothing /\ s.active.ticket = ticket /\ s.active.phase = "uploading"

FinishUpload(s, ticket, succeeded) ==
  IF ~Uploading(s, ticket) THEN s
  ELSE IF ticket.epoch # s.epoch THEN [s EXCEPT !.active = Nothing]
  ELSE IF ~succeeded THEN [s EXCEPT !.active = Nothing, !.uploaded = Nothing]
  ELSE [s EXCEPT !.uploaded = FrameOf(s.active.lease), !.active.phase = "ready"]

\* finishUpload's disposition.
Discards(s, ticket, succeeded) ==
  ~Uploading(s, ticket) \/ ticket.epoch # s.epoch \/ ~succeeded

\* Bug: the slot is released at submission instead of completion.
ReleasedWhenQueued(s, ticket) ==
  IF IsCurrent(s, ticket) /\ s.active.phase = "ready"
  THEN [s EXCEPT !.active = Nothing] ELSE s

MarkQueued(s, ticket) ==
  IF IsCurrent(s, ticket) /\ s.active.phase = "ready"
  THEN [s EXCEPT !.active.phase = "queued"] ELSE s

Completes(s, ticket, succeeded) ==
  /\ s.active # Nothing /\ s.active.ticket = ticket
  /\ s.active.phase = "queued" \/ (~succeeded /\ s.active.phase = "ready")

\* Bug: a completion of an earlier epoch counts as displayed.
EpochBlindComplete(s, ticket, succeeded) ==
  IF ~Completes(s, ticket, succeeded) THEN s
  ELSE IF ~succeeded THEN [s EXCEPT !.active = Nothing, !.uploaded = Nothing]
  ELSE [s EXCEPT !.active = Nothing, !.displayed = FrameOf(s.active.lease)]

\* Retires the slot; a stale completion updates nothing else.
Complete(s, ticket, succeeded) ==
  IF ~Completes(s, ticket, succeeded) THEN s
  ELSE IF ticket.epoch # s.epoch THEN [s EXCEPT !.active = Nothing]
  ELSE IF ~succeeded THEN [s EXCEPT !.active = Nothing, !.uploaded = Nothing]
  ELSE [s EXCEPT !.active = Nothing, !.displayed = FrameOf(s.active.lease)]

\* Bug: the reservation is released early.
ReleasingReset(s) ==
  [NewScheduler EXCEPT !.epoch = s.epoch + 1]

\* reset keeps the reservation of a worker or GPU job.
ResetScheduler(s) ==
  [NewScheduler EXCEPT
     !.epoch = s.epoch + 1,
     !.active = IF s.active # Nothing /\ s.active.phase = "ready" THEN Nothing ELSE s.active]

-----------------------------------------------------------------------------
(* GuestDisplaySurfaceView.  Its staged frame is a texture, a texture that
   borrows the lease's own storage, or a CPU image. *)

NewView == [attached |-> FALSE, window |-> FALSE, paused |-> TRUE,
            frame |-> Nothing, metalDisabled |-> FALSE,
            image |-> Nothing, fallbackHidden |-> FALSE,
            metalHidden |-> TRUE, drawable |-> Nothing]

\* Bug: the link only runs for frames not yet acquired.
PausedWhenReady(v, s) ==
  [v EXCEPT !.paused = ~v.window \/ ~v.attached \/ ~NeedsRefresh(s) \/ s.active # Nothing]

UpdateDisplayLink(v, s) ==
  [v EXCEPT !.paused = ~v.window \/ ~v.attached \/ ~NeedsRefresh(s)]

ResetFrame(v) ==
  [v EXCEPT !.frame = Nothing, !.metalDisabled = FALSE, !.image = Nothing,
            !.fallbackHidden = FALSE, !.metalHidden = TRUE]

PixelsOf(frame) == IF frame.kind = "texture" THEN pixels[frame.texture] ELSE frame.pixels

\* What the user sees: the image view lies over the Metal view.
Screen(v) ==
  IF ~v.fallbackHidden THEN v.image
  ELSE IF v.metalHidden THEN Nothing ELSE v.drawable

Shows(v, s) == v.window /\ s.active # Nothing /\ s.active.phase = "ready" /\ v.frame # Nothing

\* presentReadyFrame: the states it can leave, by what Metal answers.
PresentImage(v, s) ==
  LET ticket == s.active.ticket
  IN  [view |-> [v EXCEPT !.image = v.frame.pixels, !.fallbackHidden = FALSE,
                          !.metalHidden = TRUE],
       sched |-> Complete(MarkQueued(s, ticket), ticket, TRUE),
       jobs |-> {}, faults |-> 0]

Submitted(v, s) ==
  [view |-> [v EXCEPT !.metalHidden = FALSE],
   sched |-> MarkQueued(s, s.active.ticket),
   jobs |-> {[ticket |-> s.active.ticket, frame |-> v.frame, sent |-> PixelsOf(v.frame)]},
   faults |-> 0]

\* No drawable: the ready slot is kept for the next refresh.
Unavailable(v, s) ==
  [view |-> [v EXCEPT !.metalHidden = FALSE], sched |-> s, jobs |-> {}, faults |-> 1]

SubmissionFailed(v, s) ==
  [view |-> [v EXCEPT !.metalHidden = FALSE, !.frame = Nothing, !.metalDisabled = TRUE],
   sched |-> Complete(s, s.active.ticket, FALSE), jobs |-> {}, faults |-> 1]

PresentReadyFrame(v, s) ==
  IF ~Shows(v, s) THEN {[view |-> v, sched |-> s, jobs |-> {}, faults |-> 0]}
  ELSE IF v.frame.kind = "image" THEN {PresentImage(v, s)}
  ELSE {Submitted(v, s), Unavailable(v, s), SubmissionFailed(v, s)}

\* A callback that ends in presentReadyFrame and updateDisplayLink.
PresentFrom(v, s) ==
  \E r \in PresentReadyFrame(v, s) :
    /\ faults + r.faults <= MaxFaults
    /\ faults' = faults + r.faults
    /\ sched' = r.sched
    /\ view' = UpdateDisplayLink(r.view, r.sched)
    /\ gpu' = gpu \cup r.jobs

\* A callback that only changes the scheduler, then updateDisplayLink.
Settle(v, s) ==
  /\ sched' = s
  /\ view' = UpdateDisplayLink(v, s)
  /\ UNCHANGED <<gpu, faults>>

-----------------------------------------------------------------------------
(* The guest and the display publisher *)

Commit(tiles) ==
  /\ Now < MaxCommits
  /\ source.running
  /\ source' = [source EXCEPT !.generation = @ + 1, !.present = TRUE,
       !.changed = [t \in Tiles |-> IF t \in tiles \/ ~source.present
                                    THEN source.generation + 1 ELSE @[t]]]
  /\ UNCHANGED <<publisher, feed, sched, view, pixels, staging, staged, gpu, resets, faults>>

\* The guest resets its GPU: no frame until the next commit.
ResetSource ==
  /\ Now < MaxCommits
  /\ source.present
  /\ source' = [source EXCEPT !.generation = @ + 1, !.present = FALSE]
  /\ UNCHANGED <<publisher, feed, sched, view, pixels, staging, staged, gpu, resets, faults>>

\* startDisplayPublisher: one notice at a time, awaited.
PublishMetadata ==
  /\ publisher.notice = Nothing
  /\ CanLease(publisher.published)
  /\ publisher' = [publisher EXCEPT !.published = source.generation,
                                    !.notice = Metadata]
  /\ UNCHANGED <<source, feed, sched, view, pixels, staging, staged, gpu, resets, faults>>

\* recordDisplayMetadata and GuestDisplayFeed.publish, unless the run was stopped.
DeliverMetadata ==
  /\ publisher.notice # Nothing
  /\ publisher' = [publisher EXCEPT !.notice = Nothing]
  /\ IF ~source.running
     THEN UNCHANGED <<feed, sched, view, gpu, faults>>
     ELSE /\ feed' = publisher.notice
          /\ IF view.attached THEN Settle(view, Receive(sched, publisher.notice))
             ELSE UNCHANGED <<sched, view, gpu, faults>>
  /\ UNCHANGED <<source, pixels, staging, staged, resets>>

\* stop: the runtime is gone, its last picture stays.
Stop ==
  /\ resets < MaxResets
  /\ source.running
  /\ resets' = resets + 1
  /\ source' = [source EXCEPT !.running = FALSE, !.present = FALSE]
  /\ UNCHANGED <<publisher, feed, sched, view, pixels, staging, staged, gpu, faults>>

\* boot: a new run, its generations from zero, and displayFeed.reset().  The
\* cleanup it awaits has awaited the old run's publisher.
Boot ==
  /\ ~source.running
  /\ publisher.notice = Nothing
  /\ source' = [base |-> Now + 1, generation |-> 0, present |-> FALSE, running |-> TRUE,
                changed |-> [t \in Tiles |-> 0]]
  /\ publisher' = [published |-> Nothing, notice |-> Nothing]
  /\ feed' = Nothing
  /\ IF view.attached THEN Settle(ResetFrame(view), ResetScheduler(sched))
     ELSE UNCHANGED <<sched, view, gpu, faults>>
  /\ UNCHANGED <<pixels, staging, staged, resets>>

-----------------------------------------------------------------------------
(* The view *)

\* configure with a new feed: reset, then present what the feed has.
Configure ==
  /\ ~view.attached
  /\ LET s == ResetScheduler(sched)
         v == [ResetFrame(view) EXCEPT !.attached = TRUE]
     IN  Settle(v, IF feed = Nothing THEN s ELSE Receive(s, feed))
  /\ UNCHANGED <<source, publisher, feed, pixels, staging, staged, resets>>

Disconnect ==
  /\ view.attached
  /\ resets < MaxResets
  /\ resets' = resets + 1
  /\ Settle([ResetFrame(view) EXCEPT !.attached = FALSE], ResetScheduler(sched))
  /\ UNCHANGED <<source, publisher, feed, pixels, staging, staged>>

EnterWindow ==
  /\ ~view.window
  /\ Settle([view EXCEPT !.window = TRUE], sched)
  /\ UNCHANGED <<source, publisher, feed, pixels, staging, staged, resets>>

LeaveWindow ==
  /\ view.window
  /\ resets < MaxResets
  /\ resets' = resets + 1
  /\ Settle([view EXCEPT !.window = FALSE], sched)
  /\ UNCHANGED <<source, publisher, feed, pixels, staging, staged>>

\* layoutSubviews with a new size.
ChangeLayout ==
  /\ resets < MaxResets
  /\ resets' = resets + 1
  /\ Settle(view, RequestRedraw(sched))
  /\ UNCHANGED <<source, publisher, feed, pixels, staging, staged>>

\* The display link fires while it is not paused.
LinkFires == view.attached /\ view.window /\ ~view.paused

\* Tickets are unique among those still held by anyone.
FreshTicket ==
  LET held == {j.ticket.id : j \in staging \cup staged \cup gpu}
              \cup (IF sched.active = Nothing THEN {} ELSE {sched.active.ticket.id})
  IN  [epoch |-> sched.epoch,
       id |-> CHOOSE n \in 0..Cardinality(held) : n \notin held]

\* displayRefresh with a frame ready: try to present it.
RefreshReady ==
  /\ LinkFires
  /\ sched.active # Nothing /\ sched.active.phase = "ready"
  /\ PresentFrom(view, sched)
  /\ UNCHANGED <<source, publisher, feed, pixels, staging, staged, resets>>

\* displayRefresh otherwise: acquire a frame and stage it on the worker.
RefreshAcquire ==
  /\ LinkFires
  /\ Refreshable(sched)
  /\ CanLease(PreviousGeneration(sched))
  /\ LET lease == RefreshLease(sched)
         ticket == FreshTicket
         s == BeginRefresh(sched, ticket, lease)
     IN  /\ staging' = staging \cup
              {[ticket |-> ticket, lease |-> lease, previous |-> view.frame,
                metal |-> ~view.metalDisabled]}
         /\ Settle([view EXCEPT !.frame = Nothing], s)
  /\ UNCHANGED <<source, publisher, feed, pixels, staged, resets>>

-----------------------------------------------------------------------------
(* FramebufferStager, on the staging queue *)

\* A shared texture is never a replace-region destination.
ReusableTexture(job) ==
  IF job.previous # Nothing /\ job.previous.kind = "texture"
  THEN job.previous.texture ELSE Nothing

TexturesInUse ==
  {j.frame.texture : j \in {k \in gpu : k.frame.kind = "texture"}}
  \cup {j.previous.texture : j \in {k \in staging : ReusableTexture(k) # Nothing}}
  \cup {j.frame.texture : j \in {k \in staged : k.frame # Nothing /\ k.frame.kind = "texture"}}
  \cup (IF view.frame # Nothing /\ view.frame.kind = "texture"
        THEN {view.frame.texture} ELSE {})

StageDone(job, frame) ==
  /\ staging' = staging \ {job}
  /\ staged' = staged \cup {[ticket |-> job.ticket, frame |-> frame]}
  /\ UNCHANGED <<source, publisher, feed, sched, view, gpu, resets>>

\* Bug: requiresFullUpload is not set for a new texture.
DamageOnlyPlan(job) == job.lease.damage

\* FramePresentationUploadPlan: the tiles to copy.
UploadPlan(job) == IF ReusableTexture(job) # Nothing THEN job.lease.damage ELSE Tiles

\* upload: the damage into the previous texture, or everything into a new one.
StageTexture(job) ==
  /\ job.metal
  /\ LET reuse == ReusableTexture(job)
         target == IF reuse # Nothing THEN reuse
                   ELSE CHOOSE x \in Textures : x \notin TexturesInUse
     IN  /\ pixels' = [pixels EXCEPT ![target] =
              [t \in Tiles |-> IF t \in UploadPlan(job) THEN job.lease.pixels[t] ELSE @[t]]]
         /\ StageDone(job, [kind |-> "texture", texture |-> target])
  /\ UNCHANGED faults

\* bindSharedTexture: no copy; the frame retains the lease.
StageShared(job) ==
  /\ job.metal
  /\ StageDone(job, [kind |-> "shared", pixels |-> job.lease.pixels])
  /\ UNCHANGED <<pixels, faults>>

\* makeFallbackImage: without Metal, or when it cannot allocate.
StageImage(job) ==
  /\ IF job.metal THEN faults < MaxFaults /\ faults' = faults + 1 ELSE UNCHANGED faults
  /\ StageDone(job, [kind |-> "image", pixels |-> job.lease.pixels])
  /\ UNCHANGED pixels

StageFails(job) ==
  /\ faults < MaxFaults
  /\ faults' = faults + 1
  /\ StageDone(job, Nothing)
  /\ UNCHANGED pixels

Stage ==
  \E job \in staging :
    StageTexture(job) \/ StageShared(job) \/ StageImage(job) \/ StageFails(job)

\* The worker's result on the main thread: finishUpload, then present at once.
FinishStaging ==
  \E job \in staged :
    LET ok == job.frame # Nothing
        s == FinishUpload(sched, job.ticket, ok)
    IN  /\ staged' = staged \ {job}
        /\ IF Discards(sched, job.ticket, ok)
           THEN Settle(view, s)
           ELSE PresentFrom([view EXCEPT !.frame = job.frame], s)
        /\ UNCHANGED <<source, publisher, feed, pixels, staging, resets>>

\* The command buffer's completion handler on the main thread.
GPUDone(job, succeeded) ==
  LET current == IsCurrent(sched, job.ticket)
      presented == Completes(sched, job.ticket, succeeded) /\ current /\ succeeded
      drawn == IF succeeded THEN [view EXCEPT !.drawable = PixelsOf(job.frame)] ELSE view
      v == IF presented THEN [drawn EXCEPT !.fallbackHidden = TRUE]
           ELSE IF current /\ ~succeeded
           THEN [view EXCEPT !.metalDisabled = TRUE, !.frame = Nothing]
           ELSE drawn
      s == Complete(sched, job.ticket, succeeded)
  IN  /\ gpu' = gpu \ {job}
      /\ sched' = s
      /\ view' = UpdateDisplayLink(v, s)
      /\ UNCHANGED <<source, publisher, feed, pixels, staging, staged, resets>>

FinishGPU ==
  \E job \in gpu :
    \/ GPUDone(job, TRUE) /\ UNCHANGED faults
    \/ faults < MaxFaults /\ GPUDone(job, FALSE) /\ faults' = faults + 1

-----------------------------------------------------------------------------

Init ==
  /\ source = [base |-> 0, generation |-> 0, present |-> FALSE, running |-> TRUE,
               changed |-> [t \in Tiles |-> 0]]
  /\ publisher = [published |-> Nothing, notice |-> Nothing]
  /\ feed = Nothing
  /\ sched = NewScheduler
  /\ view = NewView
  /\ pixels = [x \in Textures |-> [t \in Tiles |-> 0]]
  /\ staging = {} /\ staged = {} /\ gpu = {}
  /\ resets = 0 /\ faults = 0

Guest == ResetSource \/ \E tiles \in (SUBSET Tiles) \ {{}} : Commit(tiles)

Next ==
  \/ Guest \/ PublishMetadata \/ DeliverMetadata \/ Stop \/ Boot
  \/ Configure \/ Disconnect \/ EnterWindow \/ LeaveWindow \/ ChangeLayout
  \/ RefreshReady \/ RefreshAcquire \/ Stage \/ FinishStaging \/ FinishGPU

Spec == Init /\ [][Next]_vars

\* Swift tasks, the worker, GPU completions and an unpaused display link all
\* make progress; the guest need not draw, nor the user leave or come back.
FairSpec ==
  /\ Spec
  /\ WF_vars(PublishMetadata \/ DeliverMetadata)
  /\ WF_vars(RefreshReady \/ RefreshAcquire)
  /\ WF_vars(Stage \/ FinishStaging \/ FinishGPU)

-----------------------------------------------------------------------------
(* Properties *)

\* "One slot is reserved from acquisition through worker/GPU completion,
\* including reset": there is never a second job with the worker or the GPU,
\* however many resets, disconnections and redraws come between.
OneReservation ==
  /\ Cardinality(staging) + Cardinality(staged) + Cardinality(gpu) <= 1
  /\ staging \cup staged \cup gpu # {} => sched.active # Nothing

\* A frame that is ready or submitted holds exactly the leased picture,
\* although only the damage since the last successful upload was copied.
StagedIsLeased ==
  (/\ sched.active # Nothing /\ sched.active.phase \in {"ready", "queued"}
   /\ sched.active.ticket.epoch = sched.epoch)
    => view.frame # Nothing /\ PixelsOf(view.frame) = sched.active.lease.pixels

\* The worker never writes a texture that a submitted command buffer reads.
GPUReadsStable == \A job \in gpu : PixelsOf(job.frame) = job.sent

\* The frame the scheduler holds displayed is the frame on the screen.
ScreenShowsDisplayed ==
  (view.attached /\ sched.displayed # Nothing) =>
    Screen(view) # Nothing /\
    \E t \in Tiles : Screen(view)[t] = sched.displayed.time

\* The slot's reservation keeps the worker and the GPU apart: one job at a
\* time, and no texture written while a command buffer reads it.
SlotIsReserved == OneReservation /\ GPUReadsStable

\* What is ready, and what the scheduler holds displayed, is the picture that
\* was leased for it.
ShowsWhatWasLeased == StagedIsLeased /\ ScreenShowsDisplayed

\* Once the view is connected, in a window, and the guest has drawn, the last
\* commit of the running guest gets to the screen, through lost drawables,
\* failed uploads and GPU errors.
LastFrameShown ==
  <>[](view.attached /\ view.window /\ source.present) =>
    <>[](Screen(view) # Nothing /\ \E t \in Tiles : Screen(view)[t] = Now)
=============================================================================
