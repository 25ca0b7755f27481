# A TLA+ model of Pinecone

Pinecone runs an ARM64 Linux guest inside an iOS application. It consists of an
emulator core in Swift (`Sources/ARM64VizCore`), a native execution core in C
and assembly (`Sources/ARM64VizNative`), an application host with a Metal
accelerator (`Apps/iOS/MobileOSHost`), and programs of the guest image
(`scripts/rootfs`). This directory models the parts in which several threads of
control share state, or in which one result is computed along several paths: the
places where a unit test exercises one schedule or one path and the program may
meet any.

Contents: [1 Inventory](#1-inventory) · [2 Plan](#2-plan) ·
[3 Modules and the code they model](#3-modules-and-the-code-they-model) ·
[4 Runs](#4-runs) · [5 Fairness](#5-fairness) · [6 Proofs](#6-proofs) ·
[7 Findings](#7-findings) · [8 What is not modelled](#8-what-is-not-modelled)

To check a run, `tlc -config Memory.cfg MCMemory`; to check the proofs, `tlapm`
on each of the eight modules `*Proofs.tla`.
`PROJECT.json` lists the runs, relates every definition to the lines it models,
and lists hazards, mutants and theorems.

## 1 Inventory

### Threads and locks

| Thread | Runs | Shares |
|---|---|---|
| main actor | SwiftUI, `MobileOSHostModel`, `GuestDisplaySurfaceView`, display link | input queues (host lock), display feed, presentation scheduler |
| runner task | the runtime loop: primary vCPU in slices, input injection, idle and pacing waits | everything behind `deviceLock`; `HostWakeSignal` |
| vCPU threads | native code in slices; one thread per secondary CPU | guest memory (lock stripes, observation flags, generations, the TLBI journal), devices (`deviceLock`), interrupt controller (its own lock), the cluster's `NSCondition`; caches of code and translations are private |
| display publisher task | advertises committed frames to the UI | `DisplayCommitSignal`, GPU metadata lock |
| staging worker | copies a leased picture into a texture | the GPU's frame leases |
| accelerator callbacks, Metal completion handlers | complete deferred 3D submissions, presented drawables | `deviceLock` by *try* only |
| network thread | receives from the host network | network bridge, `HostWakeSignal` |
| threads of guest programs | draw through the Pixman bridge | `pinecone_lock`, buffers shared with the GPU |

### Components

**virtio-gpu command pipeline** (`VirtIO.swift`, `VirtIOGPU.swift`).
State: `gpuCommands` (staged commands with token, queue, position, access sets
and response), `lastAvailableIndex`, the execution gate, reservations, posted
completions, the reset epoch, `interruptStatus`. Operations: notification,
staging, dispatch, `submitDeferred`, completion, retirement, interrupt
acknowledgement, reset, replacement of the accelerator. Hard: completions arrive
on other threads, out of order, and while a vCPU holds `deviceLock`; reset and
replacement drain work under that lock. Correct when used rings stay in the order
of the requests, conflicting commands do not overlap, nothing is written to a
ring after the driver reset it, every published element is announced, and
draining ends.

**Touch queues and touchscreen** (`TouchPipeline.swift`, `VirtIO.swift`,
`MobileOSHostModel.swift`). State: two bounded queues, the batch in between,
pending events, guest buffers. Hard: capacity, compaction and rejection interact
with a batch that is in neither queue. Correct when accepted presses and releases
are neither lost nor duplicated, contacts alternate, and a contact ends where the
finger left.

**Frame publication** (`VirtIOGPU.swift`) and **framebuffer routines**
(`ARM64VizFramebuffer.c`). State: slots with lease counts, committed slot and
generation, damage history, scanout, cursor surfaces; the routines are functions.
Hard: pixel work happens with the metadata lock released, so leases come and go
inside a command; blending has scalar and vector forms; damage is merged. Correct
when a lease is immutable and whole, the pool stays small, copying damage equals
copying everything, and every path computes the same pixel.

**Frame presentation** (`FramePresentationScheduler.swift`,
`GuestDisplaySurface.swift`, display parts of `MobileOSHostModel.swift`). State:
feed, scheduler (one reservation, epoch, pending and displayed frame), view,
textures, jobs. Hard: each completion is asynchronous and may belong to an
earlier epoch. Correct when one job owns the reservation, ready textures hold the
leased picture, the GPU never reads a texture being written, what counts as
displayed is on the screen, and the last commit gets there.

**Host wake signal and runner loop**, **display commit signal and publisher**
(`InteractionExecutionPolicy.swift`, `MobileOSHostModel.swift`). State: a
generation, continuations, the loop's position. Hard: a signal between "there is
nothing to do" and "suspended" must not be lost; signal, timeout and cancellation
race for one continuation, which must be resumed once.

**Parallel vCPU cluster, interrupt controller, GIC registers**
(`ParallelVCPUCluster.swift`, `VirtualMachine.swift`, `Devices.swift`). State: a
published and a private lifecycle per worker, PSCI power table, pending, active,
enabled and routed lines. Hard: the controller's lock and the cluster's condition
are different locks. Correct when no interrupt is slept through, no machine is
used by two threads, and `stop()` returns.

**Guest memory and page tracking** (`ARM64VizGuestMemory.c`). State: RAM,
observation flags (host, bulk reader, exclusive), lock stripes, write
generations, code pages, dirty epoch. Operations: some thirty kinds of access.
Hard: accesses decide without a lock whether they need one; stripes are shared by
pages. Correct when threads never wait in a cycle, observed accesses are whole,
no `STXR` succeeds over a store, and dirty pages are reported.

**Address translation and system registers** (same file). State: TLBs and hot
copies per CPU, a journal of invalidations, epochs, banked registers with a dirty
set. Hard: invalidation is lazy and counts epochs that wrap; registers live in
two places. Correct when a hit is one the architecture allows now and registers
agree.

**Native block cache, interpreter engine and assembly dispatch**
(`ARM64VizBlockCache.c`, `ARM64VizNative.c`, `Assembly/`). State: decoded blocks,
traces, threaded and assembly programs, graphs; a slice's budgets, checkpoint and
timer. Hard: five forms of the same code, each with its own proof of being
current; steps charged in several places; loops executed at once in C; every hot
instruction written twice, as a case of the reference executor and as a threaded
handler. Correct when no stale code runs, budgets are kept and every step is
charged once, slices end, an accelerated loop equals its instructions, and the two
forms of an instruction leave the same CPU.

**File block storage** (`ARM64VizBlockIO.c`). State: the file, `is_dirty`. Hard:
short and failing host calls, loss of power. Correct when transfers are exact and
a flush is a promise.

**Guest programs** (`scripts/rootfs`). *Pixman bridge*: draws become commands,
batched, fenced, with cached sources; hard because draws execute late and the CPU
goes on. *Package application*: one `apk` process at a time, plan, confirm,
commit; hard because a transaction can stop half way and others edit the sources.
*Session launcher*: bounded waits for the bus and the devices, a child whose
output is searched; hard because of slow daemons and outputs cut anywhere.

**Not modelled**: host lifecycle, virtqueue transport with the block, network and
input devices, user-mode network, block overlay, cooperative scheduler, Swift
interpreter, UART and MMIO, policies of the clock, console filter, Metal
programs, boot planning, snapshots, tracing, command line, user interface, shell
scripts. Section 8 gives the reasons.

### Interaction

The main actor queues input and signals the runner; the runner drains the input
into the devices and executes slices; a slice looks up code in the block cache,
runs it through translation and guest memory, and returns at checkpoints; the
guest's driver notifies the devices from any vCPU; the devices raise interrupts,
whose wake handler broadcasts the cluster and signals the runner. The GPU commits
frames; the publisher advertises them; the display link acquires a lease, the
staging worker copies the damage and the GPU presents it. Stores reach the block
cache through generations of code pages and the display through dirty epochs.

```
 TouchMotionQueue <- TouchPipeline             InterruptController <- VCPUCluster
 WakeWaiters <- HostWake, DisplayPublisher     ArchState <- TranslationCache
 FrameSource <= FrameSlots                     GuestMemory, BlockCache, ExecutionChain
 FramePresentation relies on FrameSource       SemanticLoops, Framebuffer
 GPUCommandQueue                               FileBlockStorage, PixmanBridge,
                                               PackageManager, SessionLauncher
 IntegerArithmetic <- IntegerOperands <- ReferenceForm <- ThreadedForm
                   <- DecodedInstructions <- InstructionForms
 ( is extended by: <-    is implemented by: <= )
```

## 2 Plan

1. *Done:* the device pipelines, frames and presentation, the sleeping loops and
   the cluster; guest memory, translation, code cache, execution chain, loop
   accelerators, framebuffer routines, file storage; the guest's C programs.
2. *Next theorems:* `NoStaleCode` and `ProgramsAccounted` of `BlockCache`, whose invariant relates
   each form of a block to the generations it captured; `ExactlyOneResumer` of the
   display publisher, which has the same `WakeWaiters` as the runner; the guest's
   programs.
3. *Next modules, in order:* `Virtqueue` (indices modulo 2^16, what a throwing
   request leaves behind), `HostLifecycle` (`boot`, `stop`, `scheduleCleanup` on
   the main actor), `UserNetwork` (sequence numbers, retransmission), the block
   overlay against an abstract disk, the cooperative scheduler.

## 3 Modules and the code they model

`PROJECT.json` gives the source lines of every definition. The data are
abstracted; the control (guards, early returns, error paths, order) is kept.

**`GPUCommandQueue`**. A request is a *shape*: queue, resources read and written,
whether it is global or a deferrable `submit3D`, its size, whether its chain is
usable and whether its response fits. `handler` is the thread inside `deviceLock`
with its position in `processGPUQueue`: `Stage`, one of `DispatchNow`,
`DispatchDeferred` and `DispatchInline`, `Retire` or `RetireThrows`, or a drain.
Callbacks only try the lock: `Deliver` completes the command, or posts the
completion (`RunPosted`) when the lock is taken. The driver is modelled from how
the device is used: offer, notify, acknowledge, scan. It never disables and
re-enables one queue without a reset. Rings are unbounded sequences.

**`TouchMotionQueue`** has the queue's methods as operators on a record;
**`TouchPipeline`** has the two queues, the runtime loop in between, the device
and the guest. A point is a number; timestamps and trace identities are left
out. A release carries no position in its frame; the model keeps the point it
happened at in the event, so that `NextEventFits` can compare it with the last
position the guest was given.

**`FrameSource`** is the abstract promise: one published picture; a lease is that
picture; uploading a lease gives exactly that picture. **`FrameSlots`** is the
implementation. The screen is a set of tiles, a rectangle a set of tiles; pixels
being written are `Torn` until the step that ends pixel work. Resource and screen
have the same coordinates; generations do not wrap.

**`Framebuffer`** has one job per call of the C routines. Pixels of a rectangle
are independent, so a draw is one colour channel and one alpha; a commit is the
set of pixels in which source and destination differ, walked by tiles, with the
damage list of bounded capacity that is merged and compacted. Sizes are words that
wrap at `WordMax`. The vector paths have their own division and saturation and
are compared with the scalar ones.

**`FramePresentation`** has the feed, `FramePresentationScheduler`, the view,
staging worker and command buffers. Its source is `FrameSource`'s promise.
Whether textures borrow the lease's storage is left open. Failures are bounded by
`MaxFaults`, resets by `MaxResets`.

**`WakeWaiters`** is the continuation protocol that two signals share: a wait
identifier, the dictionary `waiters`, a thread that took a continuation and has
not resumed it (`hands`), timers, cancellation handlers. **`HostWake`** adds the
runner loop in its default (parallel) configuration and every producer; a queue
is abstracted to whether it is empty. **`DisplayPublisher`** adds the publisher
loop and the device.

**`InterruptController`** has the controller's operations, and the wake handler
call as a debt (`waking`), because it is made after the lock is released.
**`VCPUCluster`** adds the worker threads; a critical section of the condition is
a step. Guest code is any sequence of the operations that reach the controller,
timers or PSCI; the target masks it may set are `Routes`.

**`GuestMemory`**. An operation (`Write`, `TryWriteHot`, `ExclusiveWrite`,
`DMARect`, `HostWriteSpans`...) is a script of steps: check, lock a stripe, store
or load one granule, note generations, mark dirty, unlock. The steps of CPUs and
devices interleave; the check is one step and the access a later one, as in the
code. The byte write and the fill go page by page: each span of a page decides, locks,
stores, commits and unlocks before the next is looked at, so no two pages are held
at once (`PageByPage`, `FirstSpan`, `Started`). The byte read looks at every span,
then takes the stripes of those whose own page is host-observed, all together
(`CheckSpans`), and loads. A value is the number of stores made to its granule, and each reservation
remembers what it saw, so the properties can say what an architecture would have
done. The loads and stores of naturally aligned values are single steps.

**`ArchState`** has the registers of one CPU as operators on records;
**`TranslationCache`** gives each CPU its TLB, hot copies, epochs, stage-1 state
and programs of accesses, invalidations, context switches, exceptions and bursts.
The guest may rewrite tables at any time, so a walk reads any descriptor;
`issued` and `owed` remember which invalidations an entry has to honour.

**`BlockCache`** has the cache record of one CPU with every operation on it as an
operator, the engines as the phases of the CPU, and peers that store, note,
publish and remap between its steps. A block's code is the version of each page
it lies on. **`ExecutionChain`** is one slice: selection (C, threaded, assembly,
graph), the three budgets, checkpoints, timer, faults and the bounded gate of the
assembly. **`SemanticLoops`** runs one recognised loop on two machines: `fast`,
accelerated where the code does, and `slow`, which executes the instructions.
Registers have a small modulus; `debt` is the number of instructions `slow` has
still to execute.

**`InstructionForms`** executes every integer, memory and system instruction in
both of its forms on two copies of one CPU. `IntegerArithmetic` has the sums, flags,
saturations and narrowings for any modulus, in the reference's and in the handlers'
way of computing them; `IntegerOperands` the registers, shifts, bit field masks,
conditions, memory accesses and the monitor; `ReferenceForm` one operator per case
of `execute_decoded_instruction`, `ThreadedForm` one per handler of the threaded
interpreter; `DecodedInstructions` the operands `avz_native_decode_instruction` can
leave; `InstructionForms` the order of things: an instruction that a page or a
callback refuses is executed again by the embedder's slow path
(`EmulatorBackend.swift:583`), and other CPUs store in between. An X register is
eight bytes; a byte has `XBits / 8` bits, one in the run, so all operand widths
keep their proportions. A store always notes a new generation of its granule,
where the code does so only for granules somebody watches: the monitor can tell
no difference.

**`FileBlockStorage`** is a page cache over a disk; a byte is the request and
address it came from, so that misplaced bytes are visible. Each transfer step
moves any number of bytes or fails.

**`PixmanBridge`**. A call is a list of steps in `todo`, of which those between two
places that release `pinecone_lock` are one action; a failing step drops the rest
up to the next marker, as the code's error paths do. The content of a surface is
the number of the write that made it; `misread` records a draw that read anything
but what its source held when Pixman was called.

**`PackageManager`** has the window's state, one process, one dialog and the
sources file with its etag; `world` numbers what the metadata were read from.
**`SessionLauncher`** has the session process, the client with its children and
the pipe, whose bytes are read in pieces of any size up to `ReadSize`. The bus daemon of
rcS is a process of its own, which tests for the socket, binds it and listens in
three steps; the launcher's removal of the socket and its start of a daemon are two, so
that the other may bind in between. Every `fatal` of the two processes is an outcome,
those behind the fork of Phosh included.

**The MC modules.** Each `MC` module EXTENDS one or more components and INSTANCEs
others with renamed variables. A variable `focus`, chosen in the initial state and never
changed, says which of them a behaviour is about; the others keep one initial
state. A behaviour of such a module is therefore exactly a behaviour of the
component in focus, and its state space is the sum, not the product, of theirs.
An invariant of an extended component is checked under its own name; one of an
instance is restated beside it.

## 4 Runs

| Run | Question | Bounds, and why they are enough |
|---|---|---|
| `device_safety` | Do used rings stay in order, hazards hold, interrupts not get lost and nothing get written after a reset? Do gestures survive whole? | GPU: 3 requests of five shapes (submissions that write and that read a resource, cursor updates, a malformed chain, a response that does not fit), limits of 2 in flight, 3 pending and 4 bytes, so every limit is met; 2 callback threads; 1 reset or replacement. Touch: capacities 5 and 4, one above and at the least the reservation allows; 5 touches; 2 buffers; 1 reset. |
| `device_progress` | Do reset and replacement return, is every request answered, do edges arrive? | GPU: 3 requests with room for 2, so staging stops and must be resumed by a completion. Touch: 3 touches, one buffer: the driver must notify between the events of one frame. |
| `frames` | Are leases immutable and whole, is FrameSource implemented, are pixels exact? | Slots: 2 tiles, a history of 1 record, 3 generations, so a texture can be older than the history. Cursor: 2 screens, 2 generations. Two interchangeable consumers in both, of which one at a time leases the drawn screen. Pixels: 4×3 surface in 2×2 tiles, so edge tiles are partial; damage lists of 1 and 3; channels at the ends, the middle and rounding points; words of 15, so sizes wrap. |
| `frame_presentation` | One reservation, no write under the GPU, the staged picture is the leased one, the last commit shown? | 2 textures, 3 commits, 2 resets, 1 fault: a completion can be two epochs old and a fault can meet a reset. |
| `progress` | Is anything slept through, does every sleeper wake, does every slice end with its steps charged once? | Runner: 3 signals, 5 wait identifiers, so stale timers of two earlier waits exist. Publisher: 5 commits. Cluster: 1 secondary with a timer and a software interrupt. Slice: 7 blocks of every kind of instruction; 7 steps, 5 blocks, checkpoints every 3, timers at 0, 4 and 20, so each budget is the first to end some slice. |
| `memory` | Does a set of accesses wait for itself, are observed accesses atomic, dirty pages reported, hits current, registers equal, transfers exact and flushes kept? | Memory: 2 CPUs and a device on 3 pages of 2 granules, 2 stripes and 2 exclusive slots, so pages share stripes and ranges wrap; each kind of access against exclusives, host writes or scans. Translation: 2 pages, 2 ASIDs, a journal of 1 and epochs that wrap at 3, so both limits are passed. Storage: 3 bytes, 3 requests, with more segments than the stack array. Deadlock is checked. |
| `engine` | Does stale code run, do programs fit and belong to their blocks, are loops exact, do the two forms of each instruction agree, does a routed line wake its CPU? | Code: 5 blocks in 3 sets of one way, so they evict each other; programs of up to 9 entries for every engine; budget for 2 programs; peers that store and remap. Loops: every recognised loop with the operands that reach each exit, page border, page without access and budget end. Instructions: registers of 8 bits, every operand width, shift, field, condition and addressing form at the edges; memory of 2 pages, mapped, half mapped and read-only; exclusive sequences with stores of another CPU between them; every answer of the callbacks. Cluster: 3 CPUs, one device line that the guest routes to the primary or to both secondaries. |
| `programs` | Do draws read their sources, do the CPU and the GPU share memory safely, are package changes meant, does the launcher tell the truth and end? | Drawing: 2 threads, 5 workloads, batches of 2, one in flight, one spare budget, 1 fault at any submission or fence. Packages: 3 packages, one protected, 2 sources, 5 or 6 gestures. Launcher: 4 bytes of output with a marker of 3, whose first byte is unique as in the code. Deadlock is checked. |
| `cursor_refresh`, `exclusive_race`, `code_race`, `accelerated_exact` | Four statements of the repository. | Violated; see section 7. |

Deadlock checking is off where the system may stop: a guest may do nothing more,
and a runner or worker that was told to stop is finished.

Every property has a mutant in `PROJECT.json`: a definition of the model changed
the way a plausible bug would change the code, under which the same run fails.

## 5 Fairness

Fairness is stated for what the platform schedules, never for what a user or a
guest may choose to do, and never for a timeout where the code also signals.

- `GPUCommandQueue`: a thread inside `deviceLock` goes on; started drains are
  not abandoned; the accelerator completes every submission and delivers it
  (Metal's contract). Posted work and the driver's notifications compete for
  `deviceLock`: strong fairness, since a mutex that is free again and again is
  granted.
- `TouchPipeline`: the thread in the device goes on (weak); the runtime loop and
  the driver need the lock (strong).
- `FramePresentation`: publisher task, unpaused display link, worker and GPU make
  progress. Faults are bounded, so a device that fails forever is excluded.
- `HostWake`, `DisplayPublisher`: running threads go on and resumed tasks are
  scheduled. No fairness for `Timeout`: a wake must not depend on it.
- `VCPUCluster`: running threads go on and owed handler calls are made (weak);
  `run()` returns because its step budget is finite, although guest steps
  interleave with it (strong, on `EndRun`). None for `TimedOut`.
- `ExecutionChain`: the thread of the slice goes on (weak, on the whole step).
- `SessionLauncher`: its two processes run, and a child that was sent `SIGTERM`
  exits. None for Phosh or for the daemons: the launcher's own waits are bounded.

In the MC modules the fairness of several components is one formula where their
actions cannot be enabled in the same behaviour: since `focus` never changes,
`WF(A \/ B)` with `A` of one focus and `B` of another is `WF(A)` in the first and
`WF(B)` in the second. Progress is stated as `[]<>`: every loop comes back to a
state in which it owes nothing, which for a condition that persists once reached
is the same as "leads to".

## 6 Proofs

TLAPS checks the following for every value of the constants that satisfies the
assumptions named.

**`DeviceProofs`** has the two devices. *The command pipeline*
(`GPUCommandQueue`), from `ShapesAssumption` (requests are records of the
shape type) and `LimitsAssumption` (limits are natural numbers, positive where the
code's constants are). `PipelineSafe`: `Spec => []PipelineInvariant`. The
invariant is the conjunction of

- `TypeOK`;
- `Indices`: the used, staged and available indices of a ring do not pass each
  other, and a disabled ring has been forgotten;
- `Positions`: each staged command stands for one place of its ring, in token
  order, and no place between the used ring's end and `lastAvailableIndex` is
  without one;
- `Answers`: a response is the command's own, and only a started command has one;
- `Reserved`: a reservation belongs to a running command of the current epoch
  and accelerator, except while a reset is draining;
- `Late`: a completion on its way holds no reservation any more, its token was
  handed out, and if its command still exists it carries that command's response;
- `UsedInOrder` and `HazardOrder`.

Order and hazards alone are not inductive: retirement looks at whatever a
completion left in `gpuCommands`, so the proof must know where each outstanding
token is and that a token is never reused, which `Positions`, `Reserved` and
`Late` say. From it follow `RetirementInOrder`, `HazardsRespected`,
`DispatchWaitFree` (a vCPU never waits in `ExecutionGate.begin`),
`InFlightCurrent`, `InterruptsNotLost` and the action property `ResetIsQuiet`.

*The touch pipeline*, from `CapacityAssumption` (both queues hold at least four
samples, as the initialiser demands, and keep at least two motions) and
`TouchesAssumption` (any touches with a phase or none). `TouchIsInductive`:
`TouchSpec => []TouchInvariant`. No queue alone can promise that a gesture arrives
whole: what one holds continues what the next one holds. The invariant says

- `InOrder` and `EventsInOrder`: the events in the ring, the events in the device, its
  queue, the batch of the runtime loop and the first queue are one gesture after
  the other (`Chain`, `Track`): each begins where the one before it ends, a press
  begins a contact, a release is at the point of the sample before it, and nothing
  evicts that sample. A device reset may take the press away from the rest of its
  gesture, but nothing else;
- `RoomIsKept`: the room that `drainTouches` has read under one lock is still there
  when `enqueueTouches` takes the other, since only the runtime loop adds to the
  device's queue;
- `QueuesKept`: an active contact has two slots in reserve, and the device has
  dropped nothing;
- `BuffersCounted`: every buffer of the ring is available or holds an event;
- `EdgesConserved`: the presses and releases accepted are those that are on their
  way and those the guest has seen.

The lemmas under it are about the queue's methods: `makeRoom` and the compaction
drop motion that no release follows, so what is left is still one gesture with the
same presses and releases (`MakeRoomKeeps`, `CompactionKeeps`); the final point of a
release is where the samples before it end (`FinalPointEnds`); and a sample that
continues the device's queue is accepted while the reserve is kept, so a whole batch
is (`DeviceTakesBatch`, by the smallest sample that would not be).
`AcceptedGesturesSurvive` is the run's `GesturesSurvive` for any capacities, buffers,
tracking identifiers and touches.

**`WakeProofs`** has the two sleeping loops. *The runner*, from `NoWaitFresh` and
`MaxSignalsAssumption`. `RunnerSleepsSafely`: `Spec => []WakeInvariant`. What makes
`NoActivitySleptThrough` inductive is the relation, at each position between
capturing the generation and storing the continuation, between what the runner
has already looked at and the signals still owed: *if the generation has not
moved*, then what has been looked at is empty or its producer has yet to signal.
`ResumedExactlyOnce` is the continuation protocol: a suspended task has one
dictionary entry or one thread about to resume it, never both.

*The cluster*, from `ClusterAssumption` (any CPUs, timers,
SGIs and routes). `ClusterIsInductive`: `ClusterSpec => []ClusterInvariant`. The
controller's part says that a line is pending at most once and belongs to its
kind of list; every operation of it satisfies `SignalsArrivals`: what makes a line
deliverable to a CPU owes a call of the wake handler, and nothing but that call
withdraws the debt. The workers' part adds that a thread about to wait in `WFI`
finds `WFI` in its virtual machine too. With both, a worker that sleeps although a
line is deliverable to it has a broadcast to come (`NoInterruptSleptThrough`).
`ClusterStaysAwake` adds that the copies of a lifecycle agree where `activate`,
`CPU_ON` and `AFFINITY_INFO` rest on them, and that no worker that was told to stop
is left asleep.

**`GuestMemoryProofs`**, from `GuestMemoryAssumption` and `WorkloadsAssumption`
(any number of CPUs, devices, pages, stripes and exclusive slots, any ranges and
any workloads of the operations the code has). `MemoryIsTyped` ties each operation
to the script of its kind. On it rest three inductive invariants:

- `LockInvariant`: a thread holds stripes from the bottom of its sorted list and
  wants the rest. The thread of a waiting set that wants the highest stripe waits
  for one that holds it and wants a higher one, so `LocksNeverDeadlock`: no set of
  threads, of whatever size, waits for itself (`NoCircularWait`).
- `DirtyInvariant`: a scan hands over epochs below the current one, no page and no
  operation carries an epoch of the future, and (with the fast path read as one
  step) a CPU's certificate that a page is already marked is never newer than the
  page's mark, unless an advance has overtaken that mark. With those,
  `DirtyPagesReported`, hence `NoDirtyPageIsLost`: a page marked dirty is reported by a
  later scan whatever interleaves, with one exception, the page of a store that has
  loaded the epoch and stamps it only after an advance. Its report waits until
  something stamps the page with the current epoch (`overtaken`; section 7).
- `MonitorInvariant`: an exclusive load has marked its granules before it loads
  them. A reservation's granule is as it was loaded, or its generation is newer
  than the reservation's, or a thread that holds its stripe has stored and has yet
  to advance the generation. A store-exclusive that won the comparison therefore
  finds the granules it reserved.
  `ObservedAccessesAreAtomic` follows. What it promises is per decision: a store is
  not missed by the monitor if its span had seen the observation or held the lock,
  and a load sees a host write whole in what it found host-observed, which for a byte
  read are the spans whose own page is observed and for the scalar and pair loads the
  whole range. A byte write over two pages is not atomic, in the code or in the model.
  An access counts as observed when both its page's
  flag and its slot were set when it looked; with the slot alone the statement is
  false, because two granules may share a slot.

**`TranslationCacheProofs`**, from `TranslationAssumption` (sizes are positive and an
epoch can advance at least once before it wraps). `RegistersStayInAgreement`: the
native registers, Swift's copy and the architecture's bank of stack pointers are
related by which registers are dirty, and every handler keeps the relation.
`HitsStayCurrent` needs more than the entries: `CacheRight` says of each entry and
each invalidation the CPU owes that the invalidation does not cover it, or one of
the private epochs was advanced after the entry was filled, or it is still in
the journal in front of the CPU, or the journal has dropped it and the CPU will
drop everything. It holds although an epoch wraps, since a wrap empties the
tables.

**`FrameSlotsProofs`**, from `FrameSlotsAssumption` and `NothingAssumption` (any
screen, resources, consumers and depth of history). `SlotsInvariant` says

- records have consecutive generations that end at the committed one;
- a slot differs from the committed picture only in tiles of the records since
  its own generation, and one older than the history is never used
  incrementally;
- lease counts are the number of clients that hold the slot or the surface;
- the slot a command writes is leased by nobody and is not the committed one;
- a current cursor surface is the committed picture under the cursor;
- by counting, a command always finds a slot in a pool of bounded size.

From it follow `LeasesAreImmutable`, `PoolStaysWhole` and, with one resource to
show, `PictureStaysCurrent`. `WholePicturesAreCopied` is the refinement of
`FrameSource`, step by step, and `DamageIsFromLastUpload` its reason; both assume
`SameImage`, that no transfer changes the image of the shown cursor, which is
exactly what finding `cursor_refresh` is about: the theorem says that this is the
*only* gap. In the runs that hypothesis is a choice of the model's parameters.
`PictureStaysCurrent` assumes one resource because `geometryChanged`
(`VirtIOGPU.swift:2852`) compares rectangles only; see section 7.

**`FramePresentationProofs`**, from `FramePresentationAssumption` and its
`NothingAssumption`. `PresentationInvariant` joins the parts of the machine: one job
in the worker, the mailbox or the GPU owns the reservation (`OneJob`); tickets
belong to the current epoch or the job's result will be dropped (`Epochs`); what a
lease or a texture holds is a picture the source had (`Leased`); the frame the
scheduler calls displayed is the baseline of the next damage (`Baseline`); a
texture that is behind can be repaired by that damage (`Repairable`); and what
the GPU reads nobody writes. From it follow `SlotStaysReserved` and
`ShowsTheLease`.

**`FileBlockStorageProofs`**: a promise is in the cache *and* on the disk, and while
`is_dirty` is off everything acknowledged is on the disk. `FlushedIsDurable`, for any
file, requests, cuts, failures and losses of power.

`TransfersAreExact`, from `StorageAssumption` (any file size and any vectors of
segments, empty ones included): whatever the host cuts short, a request that
succeeds has moved byte *k* of the concatenation of its segments to or from byte
*offset + k* of the file, once, and has touched no other byte. The invariant
(`TransferInvariant`) says that the segments that are left are, byte for byte, the
part of the original request that has not been moved (`SegmentsLeft`), and that the
part that has been moved is in its place (`BytesMoved`). The lemma under it is that
`AdvanceSegments` drops the first *n* bytes of a vector and no other. It needs the
running total of the lengths, a recursive function (`Through`); that the function
exists is shown by ruling out a smallest vector without one, since induction
itself is not available.

**`NativeEngineProofs`**. *The slice* (`ExecutionChain`), from `ChainAssumption` (any
blocks of any length with any successors, any budgets, limits and deadlines).
`SliceIsInductive` keeps `SliceInvariant`: steps are entered in four books, the
chain's total, the guest's timer, the host's total and the current run, and at
each phase each of them is what has been retired less what that phase still owes
(`Accounts`); a fault retires nothing and is on its way to the end (`FaultsEnd`); a
run is dispatched within all the budgets at once (`Within`), a graph also within
the timer (`GraphsInTime`); an interrupt that is due keeps the chain from going on
(`Prompt`); the host knows the guest's mask wherever it decides (`MaskKnown`).
`SliceAccountsHold` is what the run `progress` checks: every retired
step is charged once, to everybody.

*The arithmetic*: for every modulus, the sum and the flags computed on
the native width are those of the wide sum (`DirectSumIsExact`); the saturating sums
and differences of the portable and of the vector executor agree
(`UnsignedSaturationsAgree`, `SignedSaturationsAgree`), and so do their truncating
narrowings, `SHRN` and `RSHRN` (`NarrowingsAgree`; the saturating narrowings of
`ARM64VizNative.c:7746` are not modelled). The run
checks the instructions at eight bits; these lemmas say that the width does not
matter where carries and saturation are concerned.

*Only model-checked:* liveness (fairness and `ENABLED` are outside the prover's
reach); what recursive definitions and bitwise operators compute (`Framebuffer`,
`SemanticLoops`, the instruction modules above `IntegerArithmetic`: `PixelsExact`,
`LoopsAreExact`, `FormsAgree`, `ResultsAreRight`, `RefusalIsRetriable`,
`ExclusiveStoresAreExact`), because induction over data is; and, for the next
theorems of the plan, `NoStaleCode`, `ProgramsAccounted`, and the
guest's programs with `DrawsReadTheirSource`, `MemoryIsShared`, `ChangesAreMeant` and
`LauncherKeepsItsWord`.

## 7 Findings

`cursor_refresh`: `refreshCursorPixels` (`VirtIOGPU.swift:892`) replaces the shown
cursor image after a transfer into the cursor's resource and records no damage. A
lease taken then shows the new image, but its damage since the last upload omits
the cursor's tiles, contrary to `FramePresentationScheduler.swift:71`. A texture
updated incrementally keeps the old cursor until the next cursor command or full
upload. `frames` therefore re-transfers an unchanged image only.

`exclusive_race`: a plain store asks once, without a lock, whether its range is
observed (`ARM64VizGuestMemory.c:1219`). When the first `LDXR` of a granule comes
behind that test, the store is made without the stripe lock, and an `STXR` whose
generation still matches succeeds over it; the comment at line 3492 calls it "the
only architecturally valid winner". `ObservedAccessesAtomic` is what does hold:
stores whose span saw the observation, or that hold the lock, are never missed.

`code_race`: a block's instructions are read before its page is marked as code and
before the page's generation is captured (`ARM64VizBlockCache.c:1567`, `1084`). A
store of another CPU in between is not noticed, neither then nor at a later
`IC IVAU`, which is a no-op because "RAM writes are coherent and already advance
executable-page generations" (`VirtualMachine.swift:1322`). `NoStaleCode` is what
holds: there is no other way for stale code to run.

`accelerated_exact`: `try_execute_pixman_source_over_prefix`
(`ARM64VizNative.c:10390`) has replaced vector registers and FPSR when the write of
its output is declined; the instructions are then interpreted with the next
source in the registers. The chunks are said to be exact (`11487`).
`LoopsAreExact` is the same property where the output page is writable.

Observations that no run states:

- a redraw requested while a job is active is forgotten when that job fails
  (`FramePresentationScheduler.swift:93`), until the next frame or layout change;
- a secondary CPU that halted cannot be started again through PSCI, because the
  power table keeps its old entry (`VirtualMachine.swift:687`);
- when two resources are scanned out in turn with the same rectangle,
  `geometryChanged` (`VirtIOGPU.swift:2852`) sees no change, and a flush of part of the
  second leaves the tiles of the first around it;
- a store that has loaded the dirty epoch and is overtaken by an advance stamps
  its page with the closed epoch, and the scan of the epochs after it passes the page
  by until the next stamp; `overtaken` in `GuestMemory` marks the page and
  `DirtyPagesReported` excepts it;
- in `pinecone-pixman.c:2150` a synchronous submission whose poll fails forgets its
  fence, so the CPU fallback of line 3643 may run beside that draw; `lost` in
  `PixmanBridge` marks it and `MemoryIsShared` excepts it;
- in `pinecone-pixman.c:2113` a submission the kernel has taken without giving a fence
  back counts as failed: the GPU executes it unrecorded beside the CPU fallback, and a
  deferred batch is kept and submitted again; `lost` marks these too;
- batches another thread has not flushed yet are invisible to
  `pinecone_sync_image_locked`: threads that share an image must order their
  transactions, as the workloads do;
- a failed refresh of the package indexes keeps the cached details
  (`pinecone-packages.c:733`), although `apk update` may have replaced some;
- a refresh or a commit begun on the details page leaves `app.detail` as it was and
  renders it again (`pinecone-packages.c:744`, `760`): the page shows details of the
  indexes before. `CachedDetailsAreCurrent` is about the cache, from which the pages
  opened later are filled;
- `run_client` opens the session log after it has forked Phosh
  (`pinecone-session-launcher.c:510`); that it cannot is fatal, and Phosh then runs on with
  nobody awaiting it. `terminate_child` gives up on a child that it may not signal
  (`482`), and after a read in error the client awaits Phosh without reading (`522`). `EndAwaitsChildren` and
  `Decided` in `SessionLauncher` name these cases;
- rcS tests for the socket and starts its bus daemon later
  (`build-arm64-rootfs-image.sh:478`). When the launcher has meanwhile started one, the
  socket may be replaced under the session: for a moment nobody answers, and then
  the other daemon does. `BusServesSession` excepts the moment;
- a write that fails after moving bytes leaves `is_dirty` alone
  (`ARM64VizBlockIO.c:188`), so a following flush does nothing; no completed write is
  lost by it.

## 8 What is not modelled

- Host lifecycle (`boot`, `stop`, cleanup, persistence), virtqueue transport with
  the block, network and input devices, user-mode network, block overlay,
  cooperative scheduler: stateful, next on the plan. `stop()` appears in the
  modules of the tasks it cancels.
- Instruction semantics: the Swift interpreter, and of the native engine floating
  point and the vector instructions that no recognised loop uses. They are
  functions of data that the tests compare with reference results; nothing
  interleaves inside them.
- The encoding of assembly gadgets, and the Swift walker of page tables, which
  computes what the native one does.
- The saturate operator of the framebuffer (floating point) and shuffles that
  only rearrange bytes; Metal programs.
- Boot planning, device tree, snapshots, command line tool: sequential.
- UART, MMIO bus, console filter: byte queues and parsers under one lock.
- Tracing, coverage, timeline: nothing decides on them.
- User interface and shell scripts of the image: inputs of the modelled parts.
- Weak memory: the steps of `GuestMemory` interleave sequentially; the acquire and
  release orders the code asks for are taken to give that.
- Lock order between `deviceLock`, the GPU's metadata lock, the controller's lock
  and the cluster's condition: their critical sections are steps, so the models
  show what interleaves between them and not that the locks cannot be nested in
  a cycle. The stripes of guest memory are locked one by one, and checked.
