---------------------------- MODULE PixmanBridge ----------------------------
(***************************************************************************)
(* The Pixman interposer of the guest (scripts/rootfs/pinecone-pixman.c):  *)
(* Pixman draws become commands for the virtual GPU.  A thread queues the  *)
(* draws of a composite transaction or a render pass in a batch, submits   *)
(* the batch behind a fence, and keeps the images it uses until the fence  *)
(* has signalled; a draw that may not be deferred is submitted and awaited *)
(* at once; a draw the GPU cannot do is left to the CPU after the fences   *)
(* of its images.  Sources the CPU may still write are copied into cache   *)
(* surfaces, which rotate through two spares per image.                    *)
(*                                                                         *)
(* pinecone_lock is held through every bridge call except where it waits   *)
(* for a fence or runs a destructor, so the steps of a call between two    *)
(* such places are one action.  A call is a list of steps in todo; a step  *)
(* that fails drops the steps before the next marker, "catch" (the caller  *)
(* goes on) or "abort" (the code calls abort()).                           *)
(*                                                                         *)
(* A pixel is not modelled: the content of a surface is the number of the  *)
(* write that made it.  The GPU executes submissions in order.             *)
(***************************************************************************)
EXTENDS Integers, Sequences, FiniteSets

CONSTANTS
    Threads, Images, Stores,
    StoreOf,        \* image -> the memory its pixels are in
    InitiallyMapped,\* stores that are a GPU surface the process has mapped
    Uncreated,      \* images the process has yet to create
    Solid,          \* images of one color
    Reenters,       \* images whose destroy callback unmaps memory
    MaxBatch,       \* PINECONE_MAX_BATCH_COMMANDS
    MaxHandles,     \* PINECONE_MAX_BATCH_HANDLES
    MaxInFlight,    \* PINECONE_MAX_IN_FLIGHT_BATCHES
    MaxRetained,    \* images a CPU access scope can retain
    SpareBudget,    \* pinecone_spare_budget, in surfaces
    SnapshotBudget, \* pinecone_snapshot_budget, in surfaces
    MaxFaults,      \* how many system calls may fail
    Workloads       \* what the threads of the process do

ASSUME BridgeAssumption ==
    /\ {MaxBatch, MaxHandles, MaxInFlight, MaxRetained} \subseteq Nat \ {0}
    /\ {SpareBudget, SnapshotBudget, MaxFaults} \subseteq Nat
    /\ StoreOf \in [Images -> Stores]

VARIABLES
    content,    \* handle -> the write its bytes come from
    gpu,        \* submissions the GPU has not finished, oldest first
    uses,       \* pinecone_fence_uses: submissions with a recorded fence
    batch,      \* per thread: the queued draws and the images they retain
    pending,    \* per thread: submitted batches, each with its images
    image,      \* per image: its state
    cache,      \* per image and role: the cache surface and its spares
    access,     \* per thread: CPU access scopes
    escaped,    \* pinecone_escaped_ranges
    mapped,     \* pinecone_mappings: stores that are a mapped GPU surface
    buffers,    \* registered buffers
    thread,     \* per thread: depth of transaction and pass, current call
    prog,       \* per thread: the calls to come
    todo,       \* per thread: the steps of the current call
    posted,     \* messages between the threads of the process
    stamp,      \* writes so far
    faults,     \* failures to come
    aborted,
    lost,       \* handles of draws whose fence failed, or that came back without one
    misread     \* a draw has read bytes other than its source had at the call

gpuVars == <<content, gpu, uses, lost, misread>>
queueVars == <<batch, pending>>
imageVars == <<image, cache>>
accessVars == <<access, escaped, mapped, buffers>>
vars == <<gpuVars, queueVars, imageVars, accessVars, thread, prog, todo, posted, stamp, faults, aborted>>

Roles == {"source", "mask"}
NoImage == "none"
NoHandle == <<"none", "none", 0>>
H(s) == <<"store", s, 0>>
CacheHandle(i, role, n) == <<i, role, n>>
Scratch(t, role) == <<t, role, 0>>
Handles == {H(s) : s \in Stores} \cup {CacheHandle(i, r, n) : i \in Images, r \in Roles, n \in 1 .. 3}
           \cup {Scratch(t, r) : t \in Threads, r \in Roles \cup {"destination"}}
Freed == -1

NoCall == [src |-> NoImage, mask |-> NoImage, dst |-> NoImage, source |-> NoHandle, maskh |-> NoHandle,
           dsth |-> NoHandle, id |-> 0, done |-> FALSE]

Init ==
    /\ content = [h \in Handles |-> 0]
    /\ gpu = <<>>
    /\ uses = {}
    /\ batch = [t \in Threads |-> [cmds |-> <<>>, images |-> {}]]
    /\ pending = [t \in Threads |-> <<>>]
    /\ image = [i \in Images |->
                  [alive |-> i \notin Uncreated, held |-> i \notin Uncreated, gen |-> 0, escaped |-> FALSE, unsafe |-> FALSE,
                   owned |-> FALSE, snapshot |-> FALSE, attached |-> FALSE,
                   unbounded |-> TRUE]]
    /\ cache = [i \in Images |-> [r \in Roles |-> [current |-> 0, spares |-> {}, gen |-> -1]]]
    /\ access = [t \in Threads |-> [flags |-> <<>>, images |-> [i \in Images |-> {}],
                                    buffers |-> [s \in Stores |-> {}], explicit |-> [s \in Stores |-> {}],
                                    failed |-> FALSE, pointers |-> {}]]
    /\ escaped = {}
    /\ mapped = InitiallyMapped
    /\ buffers = {}
    /\ thread = [t \in Threads |-> [depth |-> 0, pass |-> 0, call |-> NoCall]]
    /\ prog \in Workloads
    /\ todo = [t \in Threads |-> <<>>]
    /\ posted = {}
    /\ stamp = 0
    /\ faults = MaxFaults
    /\ aborted = FALSE
    /\ lost = {}
    /\ misread = FALSE
-----------------------------------------------------------------------------
(* Calls and steps.                                                        *)

Step(k) == [k |-> k]
On(k, x) == [k |-> k, x |-> x]
Sync(i) == On("sync", i)
Catch == Step("catch")
Abort == Step("abort")

At(t, k) == ~aborted /\ todo[t] # <<>> /\ Head(todo[t]).k = k
Arg(t) == Head(todo[t]).x
Call(t) == thread[t].call
\* The current step is replaced by the steps in q.
Go(t, q) == todo' = [todo EXCEPT ![t] = q \o Tail(@)]
\* It fails: on to the next marker.
NextMarker(q) == CHOOSE n \in 1 .. Len(q) : q[n].k \in {"catch", "abort"} /\ \A m \in 1 .. n - 1 : q[m].k \notin {"catch", "abort"}
Fail(t) ==
    LET q == todo[t] IN
    /\ todo' = [todo EXCEPT ![t] = SubSeq(q, NextMarker(q) + 1, Len(q))]
    /\ aborted' = (q[NextMarker(q)].k = "abort")
Fault(t) == faults > 0 /\ faults' = faults - 1 /\ Fail(t)
Fine == UNCHANGED <<faults, aborted>>
SetCall(t, c) == thread' = [thread EXCEPT ![t].call = c]

\* A marker nothing has failed before.
Pass(t) ==
    /\ At(t, "catch") \/ At(t, "abort")
    /\ Go(t, <<>>)
    /\ UNCHANGED <<gpuVars, queueVars, imageVars, accessVars, thread, prog, posted, stamp, faults, aborted>>
-----------------------------------------------------------------------------
(* Fences.                                                                 *)

CommandHandles(c) == {s.h : s \in c.srcs} \cup {c.dst}
HandlesOf(cmds) == UNION {CommandHandles(cmds[n]) : n \in 1 .. Len(cmds)}
Unfinished == {gpu[n].id : n \in 1 .. Len(gpu)}
\* handle_pending and wait_handle: the fences on record that have not signalled.
InFlight(h) == \E n \in 1 .. Len(gpu) : gpu[n].id \in uses /\ h \in gpu[n].handles
BatchUses(t, h) == h \in HandlesOf(batch[t].cmds)

\* The GPU executes the next command of the oldest submission.
Execute ==
    /\ gpu # <<>>
    /\ LET c == Head(Head(gpu).cmds)
       IN /\ content' = [content EXCEPT ![c.dst] = IF @ = Freed THEN Freed ELSE c.writes]
          /\ misread' = (misread \/ (CommandHandles(c) \cap lost = {} /\ \E s \in c.srcs : content[s.h] # s.wants))
          /\ gpu' = IF Len(Head(gpu).cmds) = 1 THEN Tail(gpu)
                    ELSE <<[Head(gpu) EXCEPT !.cmds = Tail(@)]>> \o Tail(gpu)
    /\ UNCHANGED <<uses, lost, queueVars, imageVars, accessVars, thread, prog, todo, posted, stamp, faults, aborted>>

\* What thread t must find in h: the last of its own queued draws, else the
\* last draw anyone has submitted, else the bytes that are there.
Last(cmds, h) == {cmds[n].writes : n \in {m \in 1 .. Len(cmds) : cmds[m].dst = h /\
                                            \A k \in m + 1 .. Len(cmds) : cmds[k].dst # h}}
Expected(t, h) ==
    LET sent == {n \in 1 .. Len(gpu) : Last(gpu[n].cmds, h) # {}}
        newest == CHOOSE n \in sent : \A m \in sent : m <= n
        writes == IF Last(batch[t].cmds, h) # {} THEN Last(batch[t].cmds, h)
                  ELSE IF sent # {} THEN Last(gpu[newest].cmds, h) ELSE {content[h]}
    IN CHOOSE v \in writes : TRUE

\* The submission of a list of commands; its number is that of its first write.
Submission(cmds) == [id |-> Head(cmds).writes, cmds |-> cmds, handles |-> HandlesOf(cmds)]

\* Mutant: the images are dropped when the batch is submitted.
NothingLeased(t) == {}
\* The images that follow the fence of the batch.
Leased(t) == batch[t].images

\* flush_batch: makes room in the ring of fences, looks again (a destructor may
\* have flushed the batch meanwhile), submits.  The images follow the fence; a
\* failed submission keeps the draws and the images.
Flush(t) ==
    /\ At(t, "flush")
    /\ \/ /\ batch[t].cmds = <<>>
          /\ Go(t, <<>>) /\ Fine
          /\ UNCHANGED <<gpu, uses, lost, queueVars>>
       \/ /\ batch[t].cmds # <<>> /\ Len(pending[t]) < MaxInFlight
          /\ gpu' = Append(gpu, Submission(batch[t].cmds))
          /\ uses' = uses \cup {gpu'[Len(gpu')].id}
          /\ pending' = [pending EXCEPT ![t] = Append(@, [id |-> gpu'[Len(gpu')].id, images |-> Leased(t)])]
          /\ batch' = [batch EXCEPT ![t] = [cmds |-> <<>>, images |-> {}]]
          /\ Go(t, <<>>) /\ Fine /\ UNCHANGED lost
       \/ /\ batch[t].cmds # <<>> /\ Len(pending[t]) < MaxInFlight
          /\ Fault(t)
          /\ \/ UNCHANGED <<gpu, lost>>
             \/ /\ gpu' = Append(gpu, Submission(batch[t].cmds))   \* taken, but no fence came back
                /\ lost' = lost \cup HandlesOf(batch[t].cmds)
          /\ UNCHANGED <<uses, queueVars>>
       \/ /\ batch[t].cmds # <<>> /\ Len(pending[t]) = MaxInFlight
          /\ todo' = [todo EXCEPT ![t] = <<Step("waitPending")>> \o @] /\ Fine
          /\ UNCHANGED <<gpu, uses, lost, queueVars>>
    /\ UNCHANGED <<content, misread, imageVars, accessVars, thread, prog, posted, stamp>>

Releases(S) == IF S = {} THEN <<>> ELSE <<On("release", S)>>

\* wait_pending_fence: the oldest batch of the thread.  A fence in error keeps
\* the batch and its images.
WaitPending(t) ==
    /\ At(t, "waitPending")
    /\ \/ /\ Head(pending[t]).id \notin Unfinished
          /\ uses' = uses \ {Head(pending[t]).id}
          /\ pending' = [pending EXCEPT ![t] = Tail(@)]
          /\ Go(t, Releases(Head(pending[t]).images)) /\ Fine
       \/ Fault(t) /\ UNCHANGED <<uses, pending>>
    /\ UNCHANGED <<content, gpu, lost, misread, batch, imageVars, accessVars, thread, prog, posted, stamp>>

WaitAll(t) ==
    /\ At(t, "waitAll")
    /\ IF pending[t] = <<>> THEN Go(t, <<>>)
       ELSE todo' = [todo EXCEPT ![t] = <<Step("waitPending")>> \o @]
    /\ UNCHANGED <<gpuVars, queueVars, imageVars, accessVars, thread, prog, posted, stamp, faults, aborted>>
FlushAndWait == <<Step("flush"), Step("waitAll")>>

\* Mutant: the draws this thread has only queued are not flushed.
WaitOnly(t, s) == IF s \in mapped THEN <<On("wait", H(s))>> ELSE <<>>

\* sync_image and sync_buffer: what is queued in this thread and what anyone
\* has submitted.  Memory that is not a mapped surface needs neither.
SyncSteps(t, s) ==
    IF s \notin mapped THEN <<>>
    ELSE (IF BatchUses(t, H(s)) THEN <<Step("flush")>> ELSE <<>>) \o <<On("wait", H(s))>>
SyncImage(t) ==
    /\ At(t, "sync")
    /\ Go(t, IF Arg(t) = NoImage \/ Arg(t) \in Solid THEN <<>> ELSE SyncSteps(t, StoreOf[Arg(t)]))
    /\ UNCHANGED <<gpuVars, queueVars, imageVars, accessVars, thread, prog, posted, stamp, faults, aborted>>
WaitHandle(t) ==
    /\ At(t, "wait")
    /\ \/ ~InFlight(Arg(t)) /\ Go(t, <<>>) /\ Fine
       \/ InFlight(Arg(t)) /\ Fault(t)
    /\ UNCHANGED <<gpuVars, queueVars, imageVars, accessVars, thread, prog, posted, stamp>>
-----------------------------------------------------------------------------
(* Images and the surfaces they own.                                       *)

\* References: the process's, those of queued and of submitted draws, of CPU
\* access scopes, and those a thread is about to drop.
Referenced(i, held) ==
    \/ held
    \/ \E t \in Threads : \/ i \in batch[t].images
                          \/ \E n \in 1 .. Len(pending[t]) : i \in pending[t][n].images
                          \/ access[t].images[i] # {}
Releasing(t, i) == \E n \in 1 .. Len(todo[t]) : todo[t][n].k = "release" /\ i \in todo[t][n].x

\* A surface the bridge owns goes with its image: owned surface, caches, spares.
SurfacesOf(i) ==
    {CacheHandle(i, r, n) : r \in Roles, n \in 1 .. 3} \cup (IF image[i].owned THEN {H(StoreOf[i])} ELSE {})
Destroyed(i) ==
    /\ image' = [image EXCEPT ![i].alive = FALSE, ![i].snapshot = FALSE, ![i].attached = FALSE]
    /\ cache' = [cache EXCEPT ![i] = [r \in Roles |-> [current |-> 0, spares |-> {}, gen |-> -1]]]
    /\ content' = [h \in Handles |-> IF h \in SurfacesOf(i) THEN Freed ELSE content[h]]
    /\ mapped' = IF image[i].owned THEN mapped \ {StoreOf[i]} ELSE mapped

\* release_images: one image at a time, outside the lock; the destructor of the
\* last reference may come back to unmap memory.
Release(t) ==
    /\ At(t, "release")
    /\ \E i \in {CHOOSE j \in Arg(t) : TRUE} :
        LET rest == Releases(Arg(t) \ {i})
            last == ~Referenced(i, image[i].held) /\ image[i].alive
                    /\ \A u \in Threads \ {t} : ~Releasing(u, i)
        IN IF ~last THEN Go(t, rest)
           ELSE Go(t, (IF i \in Reenters THEN FlushAndWait \o <<Catch>> ELSE <<>>) \o <<On("destroy", i)>> \o rest)
    /\ UNCHANGED <<gpuVars, queueVars, imageVars, accessVars, thread, prog, posted, stamp, faults, aborted>>
Destroy(t) ==
    /\ At(t, "destroy")
    /\ Destroyed(Arg(t))
    /\ Go(t, <<>>)
    /\ UNCHANGED <<gpu, uses, lost, misread, queueVars, access, escaped, buffers, thread, prog, posted, stamp, faults, aborted>>

\* invalidate_image, and invalidate_buffer for an image with a buffer: every
\* image that shares its memory.
Invalidated(S) == [i \in Images |-> IF i \in S THEN [image[i] EXCEPT !.gen = @ + 1] ELSE image[i]]
Sharing(s) == {i \in Images : image[i].attached /\ StoreOf[i] = s}
TouchedBy(i) == IF image[i].attached THEN Sharing(StoreOf[i]) ELSE {i}
-----------------------------------------------------------------------------
(* Composites.                                                             *)

\* Mutant: an escaped pointer is trusted once the call that exported it is over.
ScopedHazardOnly(i, writing) ==
    /\ i \notin Solid
    /\ \E t \in Threads : "w" \in access[t].images[i] \/ (writing /\ access[t].images[i] # {})

\* image_has_cpu_hazard: may the CPU still write (or, for a destination, read)
\* the image behind the bridge's back?
HasCPUHazard(i, writing) ==
    /\ i \notin Solid
    /\ \/ image[i].escaped
       \/ \E t \in Threads : "w" \in access[t].images[i] \/ (writing /\ access[t].images[i] # {})
       \/ IF image[i].attached
          THEN LET s == StoreOf[i]
                   flags == UNION {access[t].buffers[s] \cup access[t].explicit[s] : t \in Threads}
               IN s \notin buffers \/ s \in escaped \/ "w" \in flags \/ (writing /\ flags # {})
          ELSE image[i].unbounded

IsMapped(i) == StoreOf[i] \in mapped
Source(t, role) == IF role = "source" THEN Call(t).src ELSE Call(t).mask
SetHandle(t, role, h) ==
    SetCall(t, IF role = "source" THEN [Call(t) EXCEPT !.source = h] ELSE [Call(t) EXCEPT !.maskh = h])
GotHandle(t, role) == IF role = "source" THEN Call(t).source ELSE Call(t).maskh
Spares == {<<i, r, n>> \in Images \X Roles \X (1 .. 3) : n \in cache[i][r].spares}

\* Where the draw goes: the surface of the destination, or a scratch surface
\* that takes a copy of its bytes.
Destination(t) ==
    /\ At(t, "destination")
    /\ LET i == Call(t).dst
           h == IF IsMapped(i) THEN H(StoreOf[i]) ELSE Scratch(t, "destination")
       IN /\ SetCall(t, [Call(t) EXCEPT !.dsth = h])
          /\ content' = [content EXCEPT ![h] = content[H(StoreOf[i])]]
    /\ Go(t, <<>>)
    /\ UNCHANGED <<gpu, uses, lost, misread, queueVars, imageVars, accessVars, prog, posted, stamp, faults, aborted>>

\* Where a source or a mask comes from: nothing for a color; its own surface
\* when the CPU has let go of it and it is not the destination too; else the
\* cache surface, if it is current; else a new copy in the cache.
Direct(t, role) ==
    LET i == Source(t, role)
    IN /\ ~HasCPUHazard(i, FALSE) /\ IsMapped(i)
       /\ H(StoreOf[i]) \notin {Call(t).dsth} \cup (IF role = "mask" THEN {Call(t).source} ELSE {})
CacheHit(i, role) ==
    /\ cache[i][role].current # 0
    /\ ~HasCPUHazard(i, FALSE)
    /\ ~image[i].owned
    /\ cache[i][role].gen = image[i].gen
Sample(t) ==
    /\ At(t, "sample")
    /\ LET role == Arg(t)
           i == Source(t, role)
           c == cache[i][role]
       IN IF i = NoImage \/ i \in Solid
          THEN Go(t, <<>>) /\ Fine /\ UNCHANGED <<thread, cache>>
          ELSE \/ Direct(t, role) /\ SetHandle(t, role, H(StoreOf[i])) /\ Go(t, <<>>) /\ Fine /\ UNCHANGED cache
               \/ /\ ~Direct(t, role) /\ CacheHit(i, role)
                  /\ SetHandle(t, role, CacheHandle(i, role, c.current)) /\ Go(t, <<>>) /\ Fine /\ UNCHANGED cache
               \/ /\ ~Direct(t, role) /\ ~CacheHit(i, role)
                  /\ cache' = IF c.current = 0 THEN [cache EXCEPT ![i][role].current = 1] ELSE cache
                  /\ Go(t, <<Sync(i), On("rotate", role), On("upload", role), Catch, On("scratch", role)>>)
                  /\ Fine /\ UNCHANGED thread
               \/ /\ ~Direct(t, role) /\ c.current = 0         \* no memory for a cache
                  /\ faults > 0 /\ faults' = faults - 1
                  /\ Go(t, <<On("scratch", role)>>)
                  /\ UNCHANGED <<thread, cache, aborted>>
    /\ UNCHANGED <<gpuVars, queueVars, image, accessVars, prog, posted, stamp>>

\* rotate_cache: a surface a draw still needs is swapped for an idle spare or a
\* new one within the budget; without either the thread waits for it.
Idle(t, h) == ~InFlight(h) /\ ~BatchUses(t, h)
RotateCache(t) ==
    /\ At(t, "rotate")
    /\ LET role == Arg(t)
           i == Source(t, role)
           c == cache[i][role]
           old == CacheHandle(i, role, c.current)
           idle == {n \in c.spares : Idle(t, CacheHandle(i, role, n))}
           free == (1 .. 3) \ (c.spares \cup {c.current})
           Using(n) == [current |-> n, gen |-> -1, spares |-> (c.spares \cup {c.current}) \ {n}]
           Keep(n) == [cache EXCEPT ![i][role] = Using(n)]
       IN \/ Idle(t, old) /\ cache' = Keep(c.current) /\ Go(t, <<>>) /\ UNCHANGED faults
          \/ ~Idle(t, old) /\ idle # {} /\ cache' = Keep(CHOOSE n \in idle : TRUE) /\ Go(t, <<>>) /\ UNCHANGED faults
          \/ /\ ~Idle(t, old) /\ idle = {} /\ free # {} /\ Cardinality(Spares) < SpareBudget
             /\ cache' = Keep(CHOOSE n \in free : TRUE) /\ Go(t, <<>>) /\ UNCHANGED faults
          \/ /\ ~Idle(t, old) /\ idle = {}
             /\ IF free = {} \/ Cardinality(Spares) >= SpareBudget THEN UNCHANGED faults
                ELSE faults > 0 /\ faults' = faults - 1        \* no memory for a spare
             /\ cache' = Keep(c.current)
             /\ Go(t, (IF BatchUses(t, old) THEN <<Step("flush")>> ELSE <<>>) \o <<On("wait", old)>>)
    /\ UNCHANGED <<gpuVars, queueVars, image, accessVars, thread, prog, posted, stamp, aborted>>

\* upload_pixels and upload_mask into the cache, and into the thread's scratch
\* surface when there is no cache.
Upload(t) ==
    /\ At(t, "upload")
    /\ LET role == Arg(t)
           i == Source(t, role)
           h == CacheHandle(i, role, cache[i][role].current)
       IN /\ ~InFlight(h)
          /\ content' = [content EXCEPT ![h] = content[H(StoreOf[i])]]
          /\ cache' = [cache EXCEPT ![i][role].gen = image[i].gen]
          /\ SetHandle(t, role, h)
    /\ Go(t, <<>>)
    /\ UNCHANGED <<gpu, uses, lost, misread, queueVars, image, accessVars, prog, posted, stamp, faults, aborted>>
ScratchUpload(t) ==
    /\ At(t, "scratch")
    /\ Go(t, IF GotHandle(t, Arg(t)) # NoHandle THEN <<>>
             ELSE <<Sync(Source(t, Arg(t))), On("fillScratch", Arg(t))>>)
    /\ UNCHANGED <<gpuVars, queueVars, imageVars, accessVars, thread, prog, posted, stamp, faults, aborted>>
FillScratch(t) ==
    /\ At(t, "fillScratch")
    /\ LET h == Scratch(t, Arg(t))
       IN /\ ~InFlight(h)
          /\ content' = [content EXCEPT ![h] = content[H(StoreOf[Source(t, Arg(t))])]]
          /\ SetHandle(t, Arg(t), h)
    /\ Go(t, <<>>)
    /\ UNCHANGED <<gpu, uses, lost, misread, queueVars, imageVars, accessVars, prog, posted, stamp, faults, aborted>>

\* The command of the current call, with what its sources hold at the call.
Sampled(t, role) ==
    IF GotHandle(t, role) = NoHandle THEN {}
    ELSE {[h |-> GotHandle(t, role), wants |-> Expected(t, H(StoreOf[Source(t, role)]))]}
Command(t) == [srcs |-> Sampled(t, "source") \cup Sampled(t, "mask"), dst |-> Call(t).dsth, writes |-> stamp + 1]

\* May the draw be deferred?  In a transaction or a pass, without scratch
\* surfaces, and with no image in the hands of the CPU but through a snapshot.
SnapshotOf(t, role) ==
    LET i == Source(t, role)
    IN GotHandle(t, role) = CacheHandle(i, role, cache[i][role].current)
BatchEligible(t) ==
    /\ thread[t].depth > 0 \/ thread[t].pass > 0
    /\ HandlesOf(<<Command(t)>>) \cap {Scratch(t, r) : r \in Roles \cup {"destination"}} = {}
    /\ \A role \in Roles : Source(t, role) = NoImage \/ SnapshotOf(t, role) \/ ~HasCPUHazard(Source(t, role), FALSE)
    /\ ~HasCPUHazard(Call(t).dst, TRUE)
    /\ ~(access[t].flags # <<>> /\ access[t].failed)
Emit(t) ==
    /\ At(t, "emit")
    /\ Go(t, IF BatchEligible(t)
             THEN (IF Len(batch[t].cmds) = MaxBatch THEN <<Step("flush")>> ELSE <<>>) \o <<Step("enqueue")>>
             ELSE <<Step("flush"), Step("submit"), Step("await")>>)
    /\ UNCHANGED <<gpuVars, queueVars, imageVars, accessVars, thread, prog, posted, stamp, faults, aborted>>

\* A draw has been queued or done: caches of its destination are out of date.
Drawn(t) ==
    /\ SetCall(t, [Call(t) EXCEPT !.done = TRUE])
    /\ image' = IF Call(t).dst \in Images THEN Invalidated(TouchedBy(Call(t).dst)) ELSE image
Enqueue(t) ==
    /\ At(t, "enqueue")
    /\ LET cmds == Append(batch[t].cmds, Command(t))
       IN IF Cardinality(HandlesOf(cmds)) > MaxHandles
          THEN Fail(t) /\ UNCHANGED <<batch, thread, image, stamp>>
          ELSE /\ batch' = [batch EXCEPT ![t] = [cmds |-> cmds,
                              images |-> @.images \cup ({Call(t).src, Call(t).mask, Call(t).dst} \ {NoImage})]]
               /\ Drawn(t)
               /\ stamp' = stamp + 1
               /\ Go(t, <<>>) /\ UNCHANGED aborted
    /\ UNCHANGED <<gpuVars, pending, cache, accessVars, prog, posted, faults>>

\* A synchronous submission: the thread waits for the fence outside the lock.
Submit(t) ==
    /\ At(t, "submit")
    /\ \/ /\ gpu' = Append(gpu, Submission(<<Command(t)>>))
          /\ uses' = uses \cup {stamp + 1}
          /\ SetCall(t, [Call(t) EXCEPT !.id = stamp + 1])
          /\ stamp' = stamp + 1
          /\ Go(t, <<>>) /\ Fine /\ UNCHANGED lost
       \/ Fault(t) /\ UNCHANGED <<gpu, uses, lost, thread, stamp>>
       \/ /\ Fault(t)                                  \* taken, but no fence came back
          /\ gpu' = Append(gpu, Submission(<<Command(t)>>))
          /\ lost' = lost \cup CommandHandles(Command(t))
          /\ stamp' = stamp + 1
          /\ UNCHANGED <<uses, thread>>
    /\ UNCHANGED <<content, misread, queueVars, imageVars, accessVars, prog, posted>>
\* A fence in error takes its record with it, finished or not.
Await(t) ==
    /\ At(t, "await")
    /\ uses' = uses \ {Call(t).id}
    /\ \/ /\ Call(t).id \notin Unfinished
          /\ content' = IF Call(t).dsth = Scratch(t, "destination")
                        THEN [content EXCEPT ![H(StoreOf[Call(t).dst])] = content[Call(t).dsth]] ELSE content
          /\ Drawn(t)
          /\ Go(t, <<>>) /\ Fine /\ UNCHANGED lost
       \/ /\ Call(t).id \in Unfinished
          /\ Fault(t)
          /\ lost' = lost \cup UNION {gpu[n].handles : n \in {m \in 1 .. Len(gpu) : gpu[m].id = Call(t).id}}
          /\ UNCHANGED <<content, thread, image>>
    /\ UNCHANGED <<gpu, misread, queueVars, cache, accessVars, prog, posted, stamp>>

\* A draw the GPU has not taken is Pixman's, once its images are in sync.
Finish(t) ==
    /\ At(t, "finish")
    /\ Go(t, IF Call(t).done THEN <<>>
             ELSE <<Sync(Call(t).src), Sync(Call(t).mask), Sync(Call(t).dst), Abort, Step("fallback"), Step("cpuDraw")>>)
    /\ UNCHANGED <<gpuVars, queueVars, imageVars, accessVars, thread, prog, posted, stamp, faults, aborted>>
Fallback(t) ==
    /\ At(t, "fallback")
    /\ image' = Invalidated(TouchedBy(Call(t).dst))
    /\ Go(t, <<>>)
    /\ UNCHANGED <<gpuVars, queueVars, cache, accessVars, thread, prog, posted, stamp, faults, aborted>>
CPUDraw(t) ==
    /\ At(t, "cpuDraw")
    /\ content' = [content EXCEPT ![H(StoreOf[Call(t).dst])] = stamp + 1]
    /\ stamp' = stamp + 1
    /\ Go(t, <<>>)
    /\ UNCHANGED <<gpu, uses, lost, misread, queueVars, imageVars, accessVars, thread, prog, posted, faults, aborted>>

Composite(t, op) ==
    /\ SetCall(t, [NoCall EXCEPT !.src = op.src, !.mask = op.mask, !.dst = op.dst])
    /\ todo' = [todo EXCEPT ![t] =
         IF op.onCPU \/ image[op.src].unsafe \/ image[op.dst].unsafe THEN <<Step("finish")>>
         ELSE <<Step("destination"), On("sample", "source")>> \o
              (IF op.mask # NoImage /\ image[op.mask].unsafe THEN <<>> ELSE <<On("sample", "mask"), Step("emit")>>) \o
              <<Catch, Step("finish")>>]
-----------------------------------------------------------------------------
(* CPU access.                                                             *)

\* get_data, once the image is in sync: inside a scope the image and the
\* registered buffers it overlaps belong to the scope; an export outside a
\* scope, or one the scope has no room for, has escaped for good.
Flag(t) == access[t].flags[Len(access[t].flags)]
Retained(t) == {i \in Images : access[t].images[i] # {}}
Grant(t) ==
    /\ At(t, "grant")
    /\ LET i == Arg(t).image
           s == StoreOf[i]
           scoped == access[t].flags # <<>> /\ ~Arg(t).escaping
           flag == IF scoped THEN Flag(t) ELSE "w"
           room == i \in Retained(t) \/ Cardinality(Retained(t)) < MaxRetained
           written == IF flag = "w" THEN {i} \cup (IF scoped /\ s \in buffers THEN Sharing(s) ELSE {}) ELSE {}
           joined == IF ~scoped THEN access[t]
                     ELSE [access[t] EXCEPT !.images[i] = IF room THEN @ \cup {flag} ELSE @,
                                            !.failed = @ \/ ~room,
                                            !.buffers[s] = IF s \in buffers THEN @ \cup {flag} ELSE @]
           bounded == scoped /\ room
       IN /\ access' = [access EXCEPT ![t] = [joined EXCEPT !.pointers = @ \cup {i}]]
          /\ image' = [Invalidated(written) EXCEPT ![i].escaped = @ \/ ~bounded, ![i].unbounded = @ \/ ~bounded]
          /\ escaped' = IF bounded THEN escaped ELSE escaped \cup {s}
    /\ Go(t, <<>>)
    /\ UNCHANGED <<gpuVars, queueVars, cache, mapped, buffers, thread, prog, posted, stamp, faults, aborted>>

\* The images a scope that ends has written.
Written(t) ==
    {i \in Images : "w" \in access[t].images[i]}
    \cup UNION {Sharing(s) : s \in {r \in Stores : "w" \in access[t].buffers[r]}}
EndAccess(t) ==
    LET flags == access[t].flags
        inner == [access[t] EXCEPT !.flags = SubSeq(flags, 1, Len(flags) - 1)]
    IN IF Len(flags) # 1
       THEN /\ access' = IF flags = <<>> THEN access ELSE [access EXCEPT ![t] = inner]
            /\ UNCHANGED <<image, todo>>
       ELSE /\ image' = Invalidated(Written(t))
            /\ access' = [access EXCEPT ![t] = [inner EXCEPT !.images = [i \in Images |-> {}],
                                                             !.buffers = [s \in Stores |-> {}],
                                                             !.failed = FALSE,
                                                             !.pointers = {i \in @ : image[i].escaped}]]
            /\ todo' = [todo EXCEPT ![t] = Releases(Retained(t))]

\* buffer_begin_cpu_access, once the buffer is in sync.
GrantBuffer(t) ==
    /\ At(t, "grantBuffer")
    /\ LET s == Arg(t).store
       IN /\ image' = IF Arg(t).flag = "w" THEN Invalidated(Sharing(s)) ELSE image
          /\ access' = [access EXCEPT ![t].pointers = @ \cup {i \in Images : StoreOf[i] = s}]
          /\ SetCall(t, [Call(t) EXCEPT !.done = TRUE])
    /\ Go(t, <<>>)
    /\ UNCHANGED <<gpuVars, queueVars, cache, escaped, mapped, buffers, prog, posted, stamp, faults, aborted>>
RevokeBuffer(t) ==
    /\ At(t, "revokeBuffer")
    /\ access' = IF Call(t).done THEN access ELSE [access EXCEPT ![t].explicit[Arg(t)] = {}]
    /\ Go(t, <<>>)
    /\ UNCHANGED <<gpuVars, queueVars, imageVars, escaped, mapped, buffers, thread, prog, posted, stamp, faults, aborted>>

\* The process itself, through the pointers it has.
Touch(t) ==
    /\ At(t, "read") \/ At(t, "write")
    /\ LET writes == Head(todo[t]).k = "write" /\ Arg(t) \in access[t].pointers
       IN /\ content' = IF writes THEN [content EXCEPT ![H(StoreOf[Arg(t)])] = stamp + 1] ELSE content
          /\ stamp' = IF writes THEN stamp + 1 ELSE stamp
    /\ Go(t, <<>>)
    /\ UNCHANGED <<gpu, uses, lost, misread, queueVars, imageVars, accessVars, thread, prog, posted, faults, aborted>>

\* pixman_fill: an opaque fill of a mapped surface goes to the GPU and is
\* awaited; any other is the CPU's once everything queued here is done.
CPUFill(t) ==
    /\ At(t, "fill")
    /\ IF Call(t).done THEN UNCHANGED <<content, stamp>>
       ELSE /\ content' = [content EXCEPT ![H(Arg(t))] = stamp + 1]
            /\ stamp' = stamp + 1
    /\ Go(t, <<>>)
    /\ UNCHANGED <<gpu, uses, lost, misread, queueVars, imageVars, accessVars, thread, prog, posted, faults, aborted>>
AfterFill(t) ==
    /\ At(t, "afterFill")
    /\ Go(t, IF Call(t).done THEN <<>> ELSE FlushAndWait \o <<Abort>>)
    /\ UNCHANGED <<gpuVars, queueVars, imageVars, accessVars, thread, prog, posted, stamp, faults, aborted>>
FillSteps(s, opaque) ==
    IF s \notin mapped THEN FlushAndWait \o <<Abort, On("fill", s)>>
    ELSE IF ~opaque THEN FlushAndWait \o <<On("wait", H(s)), Abort, On("fill", s)>>
    ELSE <<Step("flush"), Step("submit"), Step("await"), Catch, Step("afterFill"), On("fill", s)>>

\* update_snapshot, once the image is in sync.
CopySnapshot(t) ==
    /\ At(t, "copySnapshot")
    /\ content' = [content EXCEPT ![H(StoreOf[Arg(t)])] = stamp + 1]
    /\ stamp' = stamp + 1
    /\ image' = Invalidated({Arg(t)})
    /\ Go(t, <<>>)
    /\ UNCHANGED <<gpu, uses, lost, misread, queueVars, cache, accessVars, thread, prog, posted, faults, aborted>>
\* munmap, once everything queued in this thread is done.
Unmap(t) ==
    /\ At(t, "unmap")
    /\ mapped' = mapped \ {Arg(t)}
    /\ Go(t, <<>>)
    /\ UNCHANGED <<gpuVars, queueVars, imageVars, access, escaped, buffers, thread, prog, posted, stamp, faults, aborted>>
-----------------------------------------------------------------------------
(* The calls of the process.                                               *)

Op(t) == Head(prog[t])
\* The images a call is about; the process makes no call on one it does not have.
About(op) ==
    IF op.op = "composite" THEN {op.src, op.mask, op.dst} \ {NoImage}
    ELSE IF "image" \in DOMAIN op /\ op.op \notin {"create", "snapshot"} THEN {op.image} ELSE {}
Has(op) == \A i \in About(op) : image[i].alive
\* Thread t makes the call `name`.
Calls(t, name) ==
    /\ ~aborted /\ todo[t] = <<>> /\ prog[t] # <<>> /\ Op(t).op = name /\ Has(Op(t))
    /\ prog' = [prog EXCEPT ![t] = Tail(@)]
Skip(t) ==
    /\ ~aborted /\ todo[t] = <<>> /\ prog[t] # <<>> /\ ~Has(Op(t))
    /\ prog' = [prog EXCEPT ![t] = Tail(@)]
    /\ UNCHANGED <<gpuVars, queueVars, imageVars, accessVars, thread, todo, posted, stamp, faults, aborted>>
Begin(t, q) == todo' = [todo EXCEPT ![t] = q]

CallComposite(t) ==
    /\ Calls(t, "composite")
    /\ Composite(t, Op(t))
    /\ UNCHANGED <<gpuVars, queueVars, imageVars, accessVars, posted, stamp, faults, aborted>>

\* Transactions flush when the outermost ends outside a pass; a pass does not
\* flush; the commit of an output does.
Transaction(t) ==
    /\ \/ Calls(t, "beginComposite") /\ thread' = [thread EXCEPT ![t].depth = @ + 1] /\ UNCHANGED todo
       \/ /\ Calls(t, "endComposite")
          /\ thread' = [thread EXCEPT ![t].depth = IF @ = 0 THEN 0 ELSE @ - 1]
          /\ Begin(t, IF thread[t].depth = 1 /\ thread[t].pass = 0 THEN <<Step("flush"), Catch>> ELSE <<>>)
       \/ Calls(t, "beginPass") /\ thread' = [thread EXCEPT ![t].pass = @ + 1] /\ UNCHANGED todo
       \/ Calls(t, "endPass") /\ thread' = [thread EXCEPT ![t].pass = IF @ = 0 THEN 0 ELSE @ - 1] /\ UNCHANGED todo
       \/ Calls(t, "commit") /\ Begin(t, <<Step("flush"), Catch>>) /\ UNCHANGED thread
    /\ UNCHANGED <<gpuVars, queueVars, imageVars, accessVars, posted, stamp, faults, aborted>>

\* Everything queued here is done before memory is unmapped or exported, before
\* the process's own ioctl on the device, and when the thread exits.
Munmap(t) ==
    /\ Calls(t, "munmap")
    /\ Begin(t, FlushAndWait \o <<On("unmap", Op(t).store), Catch>>)
    /\ UNCHANGED <<gpuVars, queueVars, imageVars, accessVars, thread, posted, stamp, faults, aborted>>
ExportDmabuf(t) ==
    /\ Calls(t, "export")
    /\ Begin(t, FlushAndWait \o <<Catch>>)
    /\ UNCHANGED <<gpuVars, queueVars, imageVars, accessVars, thread, posted, stamp, faults, aborted>>
Ioctl(t) ==
    /\ Calls(t, "ioctl")
    /\ Begin(t, IF batch[t].cmds # <<>> \/ pending[t] # <<>> THEN FlushAndWait \o <<Catch>> ELSE <<>>)
    /\ UNCHANGED <<gpuVars, queueVars, imageVars, accessVars, thread, posted, stamp, faults, aborted>>
ThreadExit(t) ==
    /\ Calls(t, "exit")
    /\ Begin(t, FlushAndWait \o <<Catch>>)
    /\ UNCHANGED <<gpuVars, queueVars, imageVars, accessVars, thread, posted, stamp, faults, aborted>>
\* mmap of a surface the device has given an offset for.
Mmap(t) ==
    /\ Calls(t, "mmap")
    /\ mapped' = mapped \cup {Op(t).store}
    /\ UNCHANGED <<gpuVars, queueVars, imageVars, access, escaped, buffers, thread, todo, posted, stamp, faults, aborted>>

CPUAccess(t) ==
    /\ \/ /\ Calls(t, "beginAccess")
          /\ access' = [access EXCEPT ![t].flags = Append(@, Op(t).flag), ![t].failed = IF access[t].flags = <<>> THEN FALSE ELSE @]
          /\ UNCHANGED <<todo, image, thread>>
       \/ Calls(t, "endAccess") /\ EndAccess(t) /\ UNCHANGED thread
       \/ /\ Calls(t, "getData")
          /\ Begin(t, <<Sync(Op(t).image), On("grant", [image |-> Op(t).image, escaping |-> Op(t).escaping]), Catch>>)
          /\ UNCHANGED <<access, image, thread>>
       \/ Calls(t, "read") /\ Begin(t, <<On("read", Op(t).image)>>) /\ UNCHANGED <<access, image, thread>>
       \/ Calls(t, "write") /\ Begin(t, <<On("write", Op(t).image)>>) /\ UNCHANGED <<access, image, thread>>
       \/ /\ Calls(t, "bufferBegin")
          /\ IF Op(t).store \notin buffers THEN UNCHANGED <<access, todo, thread>>
             ELSE /\ access' = [access EXCEPT ![t].explicit[Op(t).store] = {Op(t).flag}]
                  /\ SetCall(t, NoCall)
                  /\ Begin(t, SyncSteps(t, Op(t).store) \o
                        <<On("grantBuffer", [store |-> Op(t).store, flag |-> Op(t).flag]), Catch, On("revokeBuffer", Op(t).store)>>)
          /\ UNCHANGED image
       \/ /\ Calls(t, "bufferEnd")
          /\ access' = [access EXCEPT ![t].explicit[Op(t).store] = {}, ![t].pointers = {i \in @ : StoreOf[i] # Op(t).store}]
          /\ image' = IF "w" \in access[t].explicit[Op(t).store] THEN Invalidated(Sharing(Op(t).store)) ELSE image
          /\ UNCHANGED <<todo, thread>>
    /\ UNCHANGED <<gpuVars, queueVars, cache, escaped, mapped, buffers, posted, stamp, faults, aborted>>

\* A buffer is registered unless its memory has escaped or is in a scope; an
\* image joins an active buffer unless it has escaped; an unregistered buffer
\* leaves its images to the CPU.
Buffers(t) ==
    /\ \/ /\ Calls(t, "register")
          /\ buffers' = IF Op(t).store \in escaped \/ \E u \in Threads, i \in Images :
                                StoreOf[i] = Op(t).store /\ access[u].images[i] # {}
                        THEN buffers ELSE buffers \cup {Op(t).store}
          /\ UNCHANGED image
       \/ /\ Calls(t, "attach")
          /\ LET i == Op(t).image
                 s == StoreOf[i]
             IN image' = IF image[i].alive /\ ~image[i].attached /\ ~image[i].owned /\ ~image[i].escaped
                            /\ s \in buffers \ escaped
                         THEN [image EXCEPT ![i].attached = TRUE, ![i].gen = @ + 1] ELSE image
          /\ UNCHANGED buffers
       \/ Calls(t, "unregister") /\ buffers' = buffers \ {Op(t).store} /\ UNCHANGED image
    /\ UNCHANGED <<gpuVars, queueVars, cache, access, escaped, mapped, thread, todo, posted, stamp, faults, aborted>>

\* A transform, filter, clip or alpha map the GPU cannot do, or one it can.
SetImageUnsafe(t) ==
    /\ Calls(t, "setState")
    /\ image' = [image EXCEPT ![Op(t).image].unsafe = Op(t).unsafe]
    /\ UNCHANGED <<gpuVars, queueVars, cache, accessVars, thread, todo, posted, stamp, faults, aborted>>

\* pixman_image_unref drops the process's reference; the last one frees.
Unref(t) ==
    /\ Calls(t, "unref")
    /\ image' = [image EXCEPT ![Op(t).image].held = FALSE]
    /\ Begin(t, Releases({Op(t).image}))
    /\ UNCHANGED <<gpuVars, queueVars, cache, accessVars, thread, posted, stamp, faults, aborted>>

Fill(t) ==
    /\ Calls(t, "fill")
    /\ SetCall(t, [NoCall EXCEPT !.dsth = H(Op(t).store)])
    /\ Begin(t, FillSteps(Op(t).store, Op(t).opaque))
    /\ UNCHANGED <<gpuVars, queueVars, imageVars, accessVars, posted, stamp, faults, aborted>>

\* An image in a surface of its own or, without one, in Pixman's memory.
Created(i, owned) ==
    [image[i] EXCEPT !.alive = TRUE, !.held = TRUE, !.gen = 0, !.owned = owned, !.unbounded = ~owned]
CreateBits(t) ==
    /\ Calls(t, "create")
    /\ \E owned \in BOOLEAN :
        /\ owned \/ faults > 0
        /\ faults' = IF owned THEN faults ELSE faults - 1
        /\ image' = [image EXCEPT ![Op(t).image] = Created(Op(t).image, owned)]
        /\ mapped' = IF owned THEN mapped \cup {StoreOf[Op(t).image]} ELSE mapped
    /\ UNCHANGED <<gpuVars, queueVars, cache, access, escaped, buffers, thread, todo, posted, stamp, aborted>>

\* A snapshot of foreign pixels in such an image, within the budget, or nothing.
Snapshots == {i \in Images : image[i].snapshot}
SnapshotBits(t) ==
    /\ Calls(t, "snapshot")
    /\ LET i == Op(t).image
       IN \/ /\ Cardinality(Snapshots) < SnapshotBudget
             /\ image' = [image EXCEPT ![i] = [Created(i, TRUE) EXCEPT !.snapshot = TRUE]]
             /\ mapped' = mapped \cup {StoreOf[i]}
             /\ content' = [content EXCEPT ![H(StoreOf[i])] = stamp + 1]
             /\ stamp' = stamp + 1
             /\ UNCHANGED <<faults, todo>>
          \/ /\ Cardinality(Snapshots) >= SnapshotBudget
             /\ image' = [image EXCEPT ![i] = [Created(i, TRUE) EXCEPT !.held = FALSE]]
             /\ mapped' = mapped \cup {StoreOf[i]}
             /\ Begin(t, Releases({i}))
             /\ UNCHANGED <<content, stamp, faults>>
          \/ /\ faults > 0 /\ faults' = faults - 1           \* no memory for the surface
             /\ UNCHANGED <<image, mapped, content, stamp, todo>>
    /\ UNCHANGED <<gpu, uses, lost, misread, queueVars, cache, access, escaped, buffers, thread, posted, aborted>>
UpdateSnapshot(t) ==
    /\ Calls(t, "update")
    /\ Begin(t, IF image[Op(t).image].snapshot /\ ~HasCPUHazard(Op(t).image, TRUE)
                THEN <<Sync(Op(t).image), On("copySnapshot", Op(t).image), Catch>> ELSE <<>>)
    /\ UNCHANGED <<gpuVars, queueVars, imageVars, accessVars, thread, posted, stamp, faults, aborted>>

\* The process's own synchronization between its threads: a frame is handed on
\* once its commit has succeeded, and a commit that failed is tried again.
Message(t) ==
    /\ \/ Calls(t, "post") /\ batch[t].cmds = <<>> /\ posted' = posted \cup {Op(t).message} /\ UNCHANGED todo
       \/ Calls(t, "receive") /\ Op(t).message \in posted /\ UNCHANGED <<posted, todo>>
    /\ UNCHANGED <<gpuVars, queueVars, imageVars, accessVars, thread, stamp, faults, aborted>>
CommitAgain(t) ==
    /\ ~aborted /\ todo[t] = <<>> /\ prog[t] # <<>> /\ Op(t).op = "post" /\ batch[t].cmds # <<>>
    /\ Begin(t, <<Step("flush"), Catch>>)
    /\ UNCHANGED <<gpuVars, queueVars, imageVars, accessVars, thread, prog, posted, stamp, faults, aborted>>

Done ==
    /\ aborted \/ ((\A t \in Threads : prog[t] = <<>> /\ todo[t] = <<>>) /\ gpu = <<>>)
    /\ UNCHANGED vars
Next ==
    \/ Execute
    \/ Done
    \/ \E t \in Threads :
        \/ Pass(t) \/ Flush(t) \/ WaitPending(t) \/ WaitAll(t) \/ SyncImage(t) \/ WaitHandle(t)
        \/ Release(t) \/ Destroy(t) \/ Destination(t) \/ Sample(t) \/ RotateCache(t) \/ Upload(t)
        \/ ScratchUpload(t) \/ FillScratch(t) \/ Emit(t) \/ Enqueue(t) \/ Submit(t) \/ Await(t)
        \/ Finish(t) \/ Fallback(t) \/ CPUDraw(t) \/ Grant(t) \/ GrantBuffer(t) \/ RevokeBuffer(t)
        \/ Touch(t) \/ CPUFill(t) \/ AfterFill(t) \/ CopySnapshot(t) \/ Unmap(t)
        \/ Skip(t) \/ CallComposite(t) \/ Transaction(t) \/ Munmap(t) \/ ExportDmabuf(t) \/ Ioctl(t) \/ ThreadExit(t)
        \/ Mmap(t) \/ CPUAccess(t) \/ Buffers(t) \/ SetImageUnsafe(t) \/ Unref(t) \/ Fill(t) \/ CreateBits(t)
        \/ SnapshotBits(t) \/ UpdateSnapshot(t) \/ Message(t) \/ CommitAgain(t)
Spec == Init /\ [][Next]_vars
-----------------------------------------------------------------------------
\* A draw reads its source and its mask as they were when Pixman was called,
\* however late the batch is submitted and executed, and whatever the CPU, a
\* later draw or a refilled cache has done to them since.
DrawsReadTheirSource == ~misread

\* The memory the next step of thread t reads and writes with the CPU.
CPUReads(t) ==
    IF todo[t] = <<>> \/ aborted THEN {}
    ELSE CASE Head(todo[t]).k \in {"read", "write"} -> IF Arg(t) \in access[t].pointers THEN {H(StoreOf[Arg(t)])} ELSE {}
           [] Head(todo[t]).k = "cpuDraw" -> {H(StoreOf[i]) : i \in {Call(t).src, Call(t).mask, Call(t).dst} \ ({NoImage} \cup Solid)}
           [] Head(todo[t]).k \in {"upload", "fillScratch"} -> {H(StoreOf[Source(t, Arg(t))])}
           [] OTHER -> {}
CPUWrites(t) ==
    IF todo[t] = <<>> \/ aborted THEN {}
    ELSE CASE Head(todo[t]).k = "write" -> CPUReads(t)
           [] Head(todo[t]).k = "cpuDraw" -> {H(StoreOf[Call(t).dst])}
           [] Head(todo[t]).k = "fill" -> IF Call(t).done THEN {} ELSE {H(Arg(t))}
           [] Head(todo[t]).k = "copySnapshot" -> {H(StoreOf[Arg(t)])}
           [] OTHER -> {}
Commands(cmds) == {cmds[n] : n \in 1 .. Len(cmds)}
\* When the CPU reads memory no draw of its thread and no submitted draw of any
\* thread has still to write it, and when the CPU writes memory none has still
\* to read it either (except draws whose own fence was in error or never came).
CPUNeverRacesGPU ==
    \A t \in Threads :
        \A c \in Commands(batch[t].cmds) \cup UNION {Commands(gpu[n].cmds) : n \in 1 .. Len(gpu)} :
            CommandHandles(c) \cap lost = {} =>
                /\ c.dst \notin CPUReads(t)
                /\ CommandHandles(c) \cap CPUWrites(t) = {}

\* A surface of the bridge that a queued or a submitted draw uses is not freed:
\* the draw's images live until its fence has signalled.
LeasesOutliveDraws ==
    \A h \in UNION ({HandlesOf(batch[t].cmds) : t \in Threads} \cup {gpu[n].handles : n \in 1 .. Len(gpu)}) :
        content[h] # Freed \/ h \in lost

\* The two hazards of memory the CPU and the GPU share.
MemoryIsShared == CPUNeverRacesGPU /\ LeasesOutliveDraws
=============================================================================
