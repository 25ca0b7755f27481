----------------------------- MODULE GuestMemory -----------------------------
(***************************************************************************)
(* The guest's RAM as the virtual CPUs and the device threads share it.    *)
(* A page carries observation flags: while it has none, a vCPU stores to   *)
(* it without a lock; once the host, a bulk reader or an exclusive monitor *)
(* observes it, accesses take the lock stripes of their pages.  The        *)
(* exclusive monitor is a table of write generations, indexed by a hash of *)
(* the 16-byte granule, that stores advance only for observed granules.    *)
(* Dirty pages are stamped with an epoch that the display pipeline closes  *)
(* before it collects them.                                                *)
(*                                                                         *)
(* An operation is a script of steps; the steps of different processes     *)
(* interleave, and a store or load of several granules is one step per     *)
(* granule.  Copied bytes and fills are stored page by page, each span with *)
(* its own decision, lock and commit.  Addresses are granules; a value is  *)
(* the number of stores made to its granule.  The hash is the remainder by *)
(* SlotCount.  Address translation is in TranslationCache, decoded code in *)
(* BlockCache.                                                             *)
(***************************************************************************)
EXTENDS Integers, Sequences, FiniteSets

CONSTANTS
    CPUs,               \* the virtual CPUs' threads
    Devices,            \* host threads: device models, the display pipeline
    NoOne,              \* the owner of a free lock
    PageCount, GranulesPerPage, StripeCount, SlotCount,
    Ranges,             \* the sets of granules that operations access
    Workloads           \* per process, the operations it will perform

ASSUME GuestMemoryAssumption ==
    /\ PageCount \in Nat \ {0} /\ GranulesPerPage \in Nat \ {0}
    /\ StripeCount \in Nat \ {0} /\ SlotCount \in Nat \ {0}
    /\ NoOne \notin CPUs \cup Devices /\ CPUs \cap Devices = {}
    /\ \A gs \in Ranges : gs # {} /\ gs \subseteq 0 .. PageCount * GranulesPerPage - 1

Processes == CPUs \cup Devices
Granules == 0 .. PageCount * GranulesPerPage - 1
Pages == 0 .. PageCount - 1
Stripes == 0 .. StripeCount - 1
Slots == 0 .. SlotCount - 1

PagesOf(gs) == {g \div GranulesPerPage : g \in gs}
StripesOf(gs) == {pg % StripeCount : pg \in PagesOf(gs)}
SlotsOf(gs) == {g % SlotCount : g \in gs}
Lowest(S) == CHOOSE s \in S : \A t \in S : s <= t
Greatest(S) == CHOOSE s \in S : \A t \in S : t <= s

\* What each routine does, step by step.  Every store ends by stamping the
\* pages dirty, advancing the exclusive generations and, on a page that may
\* hold code, the code generations; then it gives its stripes back.
Commit == <<"epoch", "mark", "gens", "code", "unlock">>

\* Stores of a vCPU: scalar, pair, one span of copied bytes or of a fill, and
\* the inlined store of a TLB hit.
Write == <<"check", "lock", "store">> \o Commit
WritePair == <<"check", "lock", "store">> \o Commit
WriteBytes == <<"check", "lock", "store">> \o Commit
Fill == <<"check", "lock", "store">> \o Commit
TryWriteHot == <<"hotCheck", "store", "hotCommit", "epoch", "mark", "unlock">>
\* Loads of a vCPU: scalar, pair, copied bytes, which decide for each of their
\* spans, and the inlined load of a hit.
Read == <<"readCheck", "lock", "load", "unlock">>
ReadPair == <<"readCheck", "lock", "load", "unlock">>
ReadBytes == <<"spanCheck", "lock", "load", "unlock">>
TryReadHot == <<"hotReadCheck", "load", "unlock">>
\* Spans mapped for vector code, locked together, committed after the write.
MapSpanRead == <<"noteBulk", "lock", "load", "unlock">>
MapSpanWrite == <<"note", "lock", "store">> \o Commit
\* Exclusives, from native code and from the slow interpreter.
ExclusiveRead == <<"lock", "observe", "load", "reserve", "unlock">>
ExclusiveReadPair == <<"lock", "observe", "load", "reserve", "unlock">>
ExclusiveWrite == <<"lock", "compare", "store">> \o Commit
ExclusiveWritePair == <<"lock", "compare", "store">> \o Commit
SlowExclusiveRead == <<"lock", "observe", "load", "reserve", "unlock">>
SlowExclusiveWrite == <<"lock", "compare", "store">> \o Commit
\* The host: one range, several spans, all of memory, the indices of a
\* virtqueue, device data, DMA into buffers the device owns.
HostWrite == <<"note", "lock", "store">> \o Commit
HostWriteSpans == <<"note", "lock", "store">> \o Commit
Snapshot == <<"note", "lock", "load", "unlock">>
LoadAcquire == <<"note", "lock", "load", "unlock">>
StoreRelease == <<"note", "lock", "epoch", "mark", "gens", "code", "store", "unlock">>
DeviceWrite == <<"note", "lock", "store", "note", "gens", "code", "unlock">>
DMAWrite == <<"store", "gens", "code", "unlock">>
DMARead == <<"load", "unlock">>
DMARect(isWrite) == IF isWrite THEN <<"store", "gens", "code", "unlock">> ELSE <<"load", "unlock">>
RegisterHostRange == <<"lock", "note", "unlock">>

Script ==
    [write |-> Write, writePair |-> WritePair, writeBytes |-> WriteBytes, fill |-> Fill,
     hot |-> TryWriteHot, hotRead |-> TryReadHot, read |-> Read, readPair |-> ReadPair, readBytes |-> ReadBytes,
     mapRead |-> MapSpanRead, mapWrite |-> MapSpanWrite,
     ldxr |-> ExclusiveRead, ldxp |-> ExclusiveReadPair, slowLdxr |-> SlowExclusiveRead,
     stxr |-> ExclusiveWrite, stxp |-> ExclusiveWritePair, slowStxr |-> SlowExclusiveWrite,
     decode |-> <<"markCode">>,
     hostWrite |-> HostWrite, hostSpans |-> HostWriteSpans, snapshot |-> Snapshot,
     acquire16 |-> LoadAcquire, release16 |-> StoreRelease, device |-> DeviceWrite,
     dmaWrite |-> DMAWrite, dmaRead |-> DMARead,
     rectWrite |-> DMARect(TRUE), rectRead |-> DMARect(FALSE), register |-> RegisterHostRange,
     scan |-> <<"advance", "scan">>, clear |-> <<"clear">>]

Stxrs == {"stxr", "stxp", "slowStxr"}
Loads == {"read", "readPair", "readBytes"}
CPUKinds == {"write", "writePair", "writeBytes", "fill", "hot", "hotRead", "mapRead", "mapWrite",
             "ldxr", "ldxp", "slowLdxr", "decode"} \cup Stxrs \cup Loads
DeviceKinds == {"hostWrite", "hostSpans", "snapshot", "acquire16", "release16", "device",
                "dmaWrite", "dmaRead", "rectWrite", "rectRead", "register", "scan", "clear"}

ASSUME WorkloadsAssumption ==
    \A w \in Workloads : /\ w \in [Processes -> Seq(CPUKinds \cup DeviceKinds)]
                         /\ \A c \in CPUs : w[c] \in Seq(CPUKinds)
                         /\ \A d \in Devices : w[d] \in Seq(DeviceKinds)

VARIABLES
    version,        \* per granule: how many stores it has received
    hostVersion,    \* per granule: how many of them by device threads under its lock
    firmVersion,    \* per granule: how many of them checked after it was observed
    flags,          \* per page: "host", "bulk", "exclusive"
    seenSlots,      \* exclusive_observations
    writeGen,       \* current_write_generation
    exGen,          \* per slot: exclusive_write_generations
    pageGen,        \* per page: page_write_generations
    codeEpoch,      \* code_mutation_epoch
    codePages,      \* code_page_bits
    curEpoch,       \* current_epoch of dirty tracking
    pageEpoch,      \* per page: page_epochs
    dirtyHot,       \* per vCPU and page: the epoch its hot entry certifies
    lock,           \* per stripe: its holder
    op,             \* per process: the operation in progress
    rsv,            \* per vCPU: its exclusive reservation
    plan,           \* per process: operations still to come
    scanned,        \* the epoch the last scan went through
    due,            \* pages marked dirty and not yet reported
    overtaken       \* pages marked with an epoch that an advance had closed

memVars == <<version, hostVersion, firmVersion>>
obsVars == <<flags, seenSlots>>
genVars == <<writeGen, exGen, pageGen, codeEpoch, codePages>>
dirtyVars == <<curEpoch, pageEpoch, dirtyHot, scanned, due, overtaken>>
vars == <<memVars, obsVars, genVars, dirtyVars, lock, op, rsv, plan>>

\* Of an operation: its granules, of a store those of the span it is at, of a
\* byte read those whose stripes it takes; the granules and the stripes it has
\* still to access and to take; the granules of the spans to come, which a
\* store has yet to reach and a byte read yet to check.
Idle == [kind |-> "idle", at |-> 0, gs |-> {}, todo |-> {}, want |-> {}, rest |-> {},
         epoch |-> 0, observed |-> FALSE, loaded |-> <<>>]
NoReservation == [valid |-> FALSE, gs |-> {}, gen |-> 0, seen |-> <<>>, firm |-> <<>>]

Init ==
    /\ version = [g \in Granules |-> 0]
    /\ hostVersion = [g \in Granules |-> 0]
    /\ firmVersion = [g \in Granules |-> 0]
    /\ flags = [pg \in Pages |-> {}]
    /\ seenSlots = {}
    /\ writeGen = 1
    /\ exGen = [s \in Slots |-> 0]
    /\ pageGen = [pg \in Pages |-> 0]
    /\ codeEpoch = 1
    /\ codePages = {}
    /\ curEpoch = 1
    /\ pageEpoch = [pg \in Pages |-> 0]
    /\ dirtyHot = [c \in CPUs |-> [pg \in Pages |-> 0]]
    /\ lock = [s \in Stripes |-> NoOne]
    /\ op = [p \in Processes |-> Idle]
    /\ rsv = [c \in CPUs |-> NoReservation]
    /\ plan \in Workloads
    /\ scanned = 0
    /\ due = {}
    /\ overtaken = {}
-----------------------------------------------------------------------------
(* The scripts.                                                            *)

StepOf(o) == IF o.kind = "idle" THEN "idle" ELSE Script[o.kind][o.at]
At(p, step) == StepOf(op[p]) = step
\* `o` moved on by n steps of its script.
Skip(o, n) == IF o.at + n > Len(Script[o.kind]) THEN Idle ELSE [o EXCEPT !.at = @ + n]
Advance(o) == Skip(o, 1)
Position(kind, step) == CHOOSE i \in 1 .. Len(Script[kind]) : Script[kind][i] = step

\* avz_fast_access_is_naturally_atomic: an access of one granule.
NaturallyAtomic(gs) == Cardinality(gs) = 1
MayHaveObservation(gs, mask) == \E pg \in PagesOf(gs) : flags[pg] \cap mask # {}
HasExclusiveObserver(gs) ==
    \E g \in gs : "exclusive" \in flags[g \div GranulesPerPage] /\ g % SlotCount \in seenSlots
\* Mutant: exclusive observers are forgotten.
SerializesForHosts(gs) == MayHaveObservation(gs, {"host", "bulk"})

RequiresSerialization(gs) ==
    MayHaveObservation(gs, {"host", "bulk"}) \/ HasExclusiveObserver(gs)
\* Has an exclusive load observed the page and the slot of a granule of gs?
\* Only the properties use it: it is what a store saw when it decided.
Observed(gs) == \E g \in gs : "exclusive" \in flags[g \div GranulesPerPage] /\ g % SlotCount \in seenSlots

\* avz_native_fast_memory_write_bytes and _fill end a span with its page.
PageByPage == {"writeBytes", "fill"}
FirstSpan(gs) == {g \in gs : g \div GranulesPerPage = Lowest(PagesOf(gs))}
\* An operation at its first step, with the range before it.
Started(kind, range) ==
    LET gs == IF kind \in PageByPage THEN FirstSpan(range) ELSE range
    IN [Idle EXCEPT !.kind = kind, !.at = 1, !.gs = gs, !.todo = gs, !.want = StripesOf(gs),
                    !.rest = IF kind = "readBytes" THEN range ELSE range \ gs]

\* An STXR goes where the reservation is; without one it is not attempted.
Begin(p, gs) ==
    /\ op[p].kind = "idle"
    /\ plan[p] # <<>>
    /\ Head(plan[p]) \in Stxrs => rsv[p].valid /\ rsv[p].gs = gs
    /\ Head(plan[p]) \in {"hot", "hotRead"} => NaturallyAtomic(gs)
    /\ Head(plan[p]) = "snapshot" <=> gs = Granules
    /\ plan' = [plan EXCEPT ![p] = Tail(@)]
    /\ op' = [op EXCEPT ![p] = Started(Head(plan[p]), gs)]
    /\ UNCHANGED <<memVars, obsVars, genVars, dirtyVars, lock, rsv>>

\* A vCPU store decides, without a lock, whether it needs one.
Check(p) ==
    /\ At(p, "check")
    /\ LET gs == op[p].gs
           locked == (op[p].kind = "write" /\ ~NaturallyAtomic(gs)) \/ RequiresSerialization(gs)
           seen == [op[p] EXCEPT !.observed = Observed(gs)]
       IN op' = [op EXCEPT ![p] = IF locked THEN Advance(seen) ELSE Skip(seen, 2)]
    /\ UNCHANGED <<memVars, obsVars, genVars, dirtyVars, lock, rsv, plan>>

\* The inlined store leaves a page with any flag to the complete path.
HotCheck(p) ==
    /\ At(p, "hotCheck")
    /\ op' = [op EXCEPT ![p] =
                IF MayHaveObservation(@.gs, {"host", "bulk", "exclusive"})
                THEN [@ EXCEPT !.kind = "write"]
                ELSE Advance([@ EXCEPT !.observed = Observed(op[p].gs)])]
    /\ UNCHANGED <<memVars, obsVars, genVars, dirtyVars, lock, rsv, plan>>

\* A scalar or pair load takes the lock of a host-observed page; a scalar one
\* also where it is not atomic by itself.
ReadNeedsLock(kind, gs) ==
    (kind = "read" /\ ~NaturallyAtomic(gs)) \/ MayHaveObservation(gs, {"host"})

ReadCheck(p) ==
    /\ At(p, "readCheck")
    /\ LET seen == [op[p] EXCEPT !.observed = MayHaveObservation(op[p].gs, {"host"})]
       IN op' = [op EXCEPT ![p] = IF ReadNeedsLock(seen.kind, seen.gs) THEN Advance(seen)
                                  ELSE Skip(seen, 2)]
    /\ UNCHANGED <<memVars, obsVars, genVars, dirtyVars, lock, rsv, plan>>

\* A byte read looks at its spans one after the other and takes the stripes of
\* those whose own page is host-observed, all together; without any it loads.
CheckSpans(p) ==
    /\ At(p, "spanCheck")
    /\ LET span == FirstSpan(op[p].rest)
           gs == IF MayHaveObservation(span, {"host"}) THEN op[p].gs ELSE op[p].gs \ span
           seen == [op[p] EXCEPT !.gs = gs, !.want = StripesOf(gs), !.rest = @ \ span, !.observed = gs # {}]
       IN op' = [op EXCEPT ![p] = IF seen.rest # {} THEN seen
                                  ELSE IF gs # {} THEN Advance(seen) ELSE Skip(seen, 2)]
    /\ UNCHANGED <<memVars, obsVars, genVars, dirtyVars, lock, rsv, plan>>

\* The inlined load leaves a host-observed page to the complete path.
HotReadCheck(p) ==
    /\ At(p, "hotReadCheck")
    /\ op' = [op EXCEPT ![p] = IF MayHaveObservation(@.gs, {"host"})
                               THEN [@ EXCEPT !.kind = "read"] ELSE Advance(@)]
    /\ UNCHANGED <<memVars, obsVars, genVars, dirtyVars, lock, rsv, plan>>

\* note_host_observation and note_bulk_read.
Note(p) ==
    /\ \/ At(p, "note") /\ flags' = [pg \in Pages |-> flags[pg] \cup
                                        IF pg \in PagesOf(op[p].gs) THEN {"host"} ELSE {}]
       \/ At(p, "noteBulk") /\ flags' = [pg \in Pages |-> flags[pg] \cup
                                        IF pg \in PagesOf(op[p].gs) THEN {"bulk"} ELSE {}]
    /\ op' = [op EXCEPT ![p] = Advance(@)]
    /\ UNCHANGED <<memVars, seenSlots, genVars, dirtyVars, lock, rsv, plan>>

\* Mutant: the stripes in the order of the pages.
PageOrderStripe(gs, want) ==
    Lowest({pg \in PagesOf(gs) : pg % StripeCount \in want}) % StripeCount

\* The stripe a process takes next: always the lowest it still wants, also
\* when the range wraps around the table.
NextStripe(gs, want) == Lowest(want)

Lock(p) ==
    /\ At(p, "lock")
    /\ LET s == NextStripe(op[p].gs, op[p].want)
       IN /\ lock[s] = NoOne
          /\ lock' = [lock EXCEPT ![s] = p]
          /\ LET got == [op[p] EXCEPT !.want = @ \ {s}]
             IN op' = [op EXCEPT ![p] = IF got.want = {} THEN Advance(got) ELSE got]
    /\ UNCHANGED <<memVars, obsVars, genVars, dirtyVars, rsv, plan>>

\* The end of an operation, or of a span: the next one decides for itself.
Unlock(p) ==
    /\ At(p, "unlock")
    /\ lock' = [s \in Stripes |-> IF lock[s] = p THEN NoOne ELSE lock[s]]
    /\ op' = [op EXCEPT ![p] = IF @.rest = {} THEN Idle ELSE Started(@.kind, @.rest)]
    /\ UNCHANGED <<memVars, obsVars, genVars, dirtyVars, rsv, plan>>

Held(p, gs) == \A s \in StripesOf(gs) : lock[s] = p

\* One granule of a store.
Store(p) ==
    /\ At(p, "store")
    /\ \E g \in {Lowest(op[p].todo)} :
        /\ version' = [version EXCEPT ![g] = @ + 1]
        /\ hostVersion' = [hostVersion EXCEPT ![g] = @ +
                IF p \in Devices /\ op[p].kind \notin {"dmaWrite", "rectWrite"} THEN 1 ELSE 0]
        /\ firmVersion' = [firmVersion EXCEPT ![g] = @ +
                IF op[p].observed \/ Held(p, op[p].gs) THEN 1 ELSE 0]
        /\ LET left == [op[p] EXCEPT !.todo = @ \ {g}]
           IN op' = [op EXCEPT ![p] = IF left.todo = {} THEN Advance(left) ELSE left]
    /\ UNCHANGED <<obsVars, genVars, dirtyVars, lock, rsv, plan>>

\* One granule of a load.
Load(p) ==
    /\ At(p, "load")
    /\ \E g \in {Lowest(op[p].todo)} :
        LET got == [op[p] EXCEPT !.todo = @ \ {g},
                                 !.loaded = Append(@, <<g, version[g], hostVersion[g], firmVersion[g]>>)]
        IN op' = [op EXCEPT ![p] = IF got.todo = {} THEN Advance(got) ELSE got]
    /\ UNCHANGED <<memVars, obsVars, genVars, dirtyVars, lock, rsv, plan>>
-----------------------------------------------------------------------------
(* The exclusive monitor.                                                  *)

\* note_exclusive_observation: sticky, and shared by all granules of a slot.
Observe(p) ==
    /\ At(p, "observe")
    /\ flags' = [pg \in Pages |-> flags[pg] \cup
                    IF pg \in PagesOf(op[p].gs) THEN {"exclusive"} ELSE {}]
    /\ seenSlots' = seenSlots \cup SlotsOf(op[p].gs)
    /\ op' = [op EXCEPT ![p] = Advance(@)]
    /\ UNCHANGED <<memVars, genVars, dirtyVars, lock, rsv, plan>>

\* exclusive_write_generation: the newest over the slots of the access.
ExclusiveGeneration(gs) == Greatest({exGen[s] : s \in SlotsOf(gs)})

Reserve(p) ==
    /\ At(p, "reserve")
    /\ LET from(k) == [g \in op[p].gs |->
                (CHOOSE l \in {op[p].loaded[i] : i \in 1 .. Len(op[p].loaded)} : l[1] = g)[k]]
       IN rsv' = [rsv EXCEPT ![p] = [valid |-> TRUE, gs |-> op[p].gs,
                                     gen |-> ExclusiveGeneration(op[p].gs),
                                     seen |-> from(2), firm |-> from(4)]]
    /\ op' = [op EXCEPT ![p] = Advance(@)]
    /\ UNCHANGED <<memVars, obsVars, genVars, dirtyVars, lock, plan>>

\* STXR: a generation other than the reserved one is a conflict.
Compare(p) ==
    /\ At(p, "compare")
    /\ LET same == ExclusiveGeneration(op[p].gs) = rsv[p].gen
       IN /\ op' = [op EXCEPT ![p] = IF same THEN Advance(@)
                                     ELSE [@ EXCEPT !.at = Len(Script[op[p].kind])]]
          /\ rsv' = [rsv EXCEPT ![p].valid = FALSE]
    /\ UNCHANGED <<memVars, obsVars, genVars, dirtyVars, lock, plan>>

-----------------------------------------------------------------------------
(* What a store leaves behind.                                             *)

\* avz_fast_mark_dirty and mark_dirty read the current epoch ...
Epoch(p) ==
    /\ At(p, "epoch")
    /\ op' = [op EXCEPT ![p] = Advance([@ EXCEPT !.epoch = curEpoch])]
    /\ UNCHANGED <<memVars, obsVars, genVars, dirtyVars, lock, rsv, plan>>

\* Mutant: a hot entry stays good when the epoch advances.
HotForever(p, pg) == p \in CPUs /\ dirtyHot[p][pg] # 0

\* ... and stamp the pages with it later; a vCPU skips a page its hot entry
\* certifies for that epoch.
KeepsHot(p) == p \in CPUs /\ op[p].kind # "slowStxr"
HotCertified(p, pg) == KeepsHot(p) /\ dirtyHot[p][pg] = op[p].epoch

Mark(p) ==
    /\ At(p, "mark")
    /\ LET pages == PagesOf(op[p].gs)
           stamped == {pg \in pages : ~HotCertified(p, pg)}
       IN /\ pageEpoch' = [pg \in Pages |-> IF pg \in stamped THEN op[p].epoch ELSE pageEpoch[pg]]
          /\ dirtyHot' = IF KeepsHot(p)
                         THEN [dirtyHot EXCEPT ![p] = [pg \in Pages |->
                                 IF pg \in pages THEN op[p].epoch ELSE @[pg]]]
                         ELSE dirtyHot
          /\ due' = due \cup pages
          /\ overtaken' = IF op[p].epoch = curEpoch THEN overtaken \ stamped ELSE overtaken \cup pages
    /\ op' = [op EXCEPT ![p] = Advance(@)]
    /\ UNCHANGED <<memVars, obsVars, genVars, curEpoch, scanned, lock, rsv, plan>>

\* note_exclusive_write_generation: one new generation for the observed
\* slots of the store, none when it has none.
Gens(p) ==
    /\ At(p, "gens")
    /\ LET hit == {g % SlotCount : g \in {h \in op[p].gs : HasExclusiveObserver({h})}}
       IN /\ writeGen' = IF hit = {} THEN writeGen ELSE writeGen + 1
          /\ exGen' = [s \in Slots |-> IF s \in hit THEN writeGen + 1 ELSE exGen[s]]
    /\ op' = [op EXCEPT ![p] = Advance(@)]
    /\ UNCHANGED <<memVars, obsVars, pageGen, codeEpoch, codePages, dirtyVars, lock, rsv, plan>>

\* A store to a page that may hold code gives its pages a new generation and
\* advances the mutation epoch.
Code(p) ==
    /\ At(p, "code")
    /\ IF PagesOf(op[p].gs) \cap codePages = {}
       THEN UNCHANGED <<writeGen, pageGen, codeEpoch>>
       ELSE /\ writeGen' = writeGen + 1
            /\ pageGen' = [pg \in Pages |-> IF pg \in PagesOf(op[p].gs) THEN writeGen + 1
                                            ELSE pageGen[pg]]
            /\ codeEpoch' = codeEpoch + 1
    /\ op' = [op EXCEPT ![p] = Advance(@)]
    /\ UNCHANGED <<memVars, obsVars, exGen, codePages, dirtyVars, lock, rsv, plan>>

\* commit_unobserved_write_hot: a code page takes the complete commit.
HotCommit(p) ==
    /\ At(p, "hotCommit")
    /\ op' = [op EXCEPT ![p] = IF PagesOf(op[p].gs) \cap codePages # {}
                               THEN [@ EXCEPT !.kind = "write", !.at = Position("write", "epoch")]
                               ELSE Advance(@)]
    /\ UNCHANGED <<memVars, obsVars, genVars, dirtyVars, lock, rsv, plan>>

\* A vCPU decodes a block from a page.
MarkCodePage(p) ==
    /\ At(p, "markCode")
    /\ codePages' = codePages \cup PagesOf(op[p].gs)
    /\ op' = [op EXCEPT ![p] = Idle]
    /\ UNCHANGED <<memVars, obsVars, writeGen, exGen, pageGen, codeEpoch, dirtyVars, lock, rsv, plan>>

-----------------------------------------------------------------------------
(* The consumer of dirty pages, and the stopped machine.                   *)

AdvanceDirtyEpoch(p) ==
    /\ At(p, "advance")
    /\ curEpoch' = curEpoch + 1
    /\ op' = [op EXCEPT ![p] = Advance([@ EXCEPT !.epoch = curEpoch])]
    /\ UNCHANGED <<memVars, obsVars, genVars, pageEpoch, dirtyHot, scanned, due, overtaken, lock, rsv, plan>>

\* dirty_ranges(after: scanned, through: the completed epoch).
DirtyPages(after, through) == {pg \in Pages : after < pageEpoch[pg] /\ pageEpoch[pg] <= through}

Scan(p) ==
    /\ At(p, "scan")
    /\ due' = due \ DirtyPages(scanned, op[p].epoch)
    /\ scanned' = op[p].epoch
    /\ op' = [op EXCEPT ![p] = Idle]
    /\ UNCHANGED <<memVars, obsVars, genVars, curEpoch, pageEpoch, dirtyHot, overtaken, lock, rsv, plan>>

\* clear_host_observations, which the host calls with the machine stopped.
ClearHostObservations(p) ==
    /\ At(p, "clear")
    /\ \A q \in Processes \ {p} : op[q].kind = "idle"
    /\ op' = [op EXCEPT ![p] = Idle]
    /\ flags' = [pg \in Pages |-> flags[pg] \ {"host", "bulk"}]
    /\ UNCHANGED <<memVars, seenSlots, genVars, dirtyVars, lock, rsv, plan>>

Step(p) ==
    \/ Check(p) \/ HotCheck(p) \/ ReadCheck(p) \/ CheckSpans(p) \/ HotReadCheck(p) \/ Note(p)
    \/ Lock(p) \/ Unlock(p)
    \/ Store(p) \/ Load(p) \/ Observe(p) \/ Reserve(p) \/ Compare(p)
    \/ Epoch(p) \/ Mark(p) \/ Gens(p) \/ Code(p) \/ HotCommit(p)
    \/ AdvanceDirtyEpoch(p) \/ Scan(p) \/ MarkCodePage(p) \/ ClearHostObservations(p)

Done ==
    /\ \A p \in Processes : op[p].kind = "idle" /\ plan[p] = <<>>
    /\ UNCHANGED vars

Next ==
    \/ \E p \in Processes, gs \in Ranges : Begin(p, gs)
    \/ \E p \in Processes : Step(p)
    \/ Done

Spec == Init /\ [][Next]_vars

-----------------------------------------------------------------------------
(* Properties.                                                             *)

Waiting(p, q) == At(p, "lock") /\ lock[NextStripe(op[p].gs, op[p].want)] = q

\* The lock stripes are spin locks without a timeout, which a thread cannot take
\* twice, taken one by one for ranges, pairs and spans by different routines: in
\* no set of threads does each wait for a stripe that one of the set holds.
NoCircularWait ==
    \A waiters \in (SUBSET Processes) \ {{}} : ~ \A p \in waiters : \E q \in waiters : Waiting(p, q)

\* An STXR that has passed the comparison and is about to store.
Winning(c) == op[c].kind \in Stxrs /\ At(c, "store")

\* The comment of avz_native_fast_memory_exclusive_write: once the generation
\* matches under the stripe lock, the store is the only valid winner - no
\* other store reached the granules since the exclusive load read them.
OnlyValidWinner ==
    \A c \in CPUs : Winning(c) =>
        \A g \in op[c].todo : version[g] = rsv[c].seen[g]

\* The exclusive monitor loses no store that took the stripe lock or that
\* decided on it after an exclusive load had observed the granule.
ObservedMonitorSound ==
    \A c \in CPUs : Winning(c) =>
        \A g \in op[c].todo : firmVersion[g] = rsv[c].firm[g]

\* What a load of several granules finds host-observed it sees with every host
\* write whole or not at all: a scalar or pair its whole range, a byte read all
\* of the spans whose own page it found observed.
ObservedReadsWhole ==
    \A c \in CPUs : op[c].kind \in Loads /\ At(c, "unlock") /\ op[c].observed =>
        \A i \in 1 .. Len(op[c].loaded) :
            op[c].loaded[i][1] \in op[c].gs => op[c].loaded[i][3] = hostVersion[op[c].loaded[i][1]]

\* What the stripe locks and the observed flags give together: reservations and
\* loads that the slow path serves are as good as on the hardware.
ObservedAccessesAtomic == ObservedMonitorSound /\ ObservedReadsWhole

\* Every page marked since it was last reported will be reported by a later
\* scan, unless an advance overtook a mark of it between its two halves and
\* nothing has stamped the page with the current epoch since.
DirtyPagesReported == \A pg \in due \ overtaken : pageEpoch[pg] > scanned
====
