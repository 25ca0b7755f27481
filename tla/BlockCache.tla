------------------------------ MODULE BlockCache ------------------------------
(***************************************************************************)
(* The decoded code of one virtual CPU: the set-associative cache of       *)
(* decoded blocks, the programs made from them (assembly and threaded),    *)
(* the links, traces and graphs that join them, and how all of these are   *)
(* kept in step with guest memory.  Other CPUs and devices store to code   *)
(* pages and remap them at any time; nothing is searched for when they do: *)
(* the store gives its page a new generation and advances an epoch, and a  *)
(* block is checked when it is next used.                                  *)
(*                                                                         *)
(* A block is named by its key; its code is the version of each page it    *)
(* lies on.  The operators transform the cache record of the one CPU that  *)
(* owns it; the peers act between its steps.  Counters do not wrap here.   *)
(***************************************************************************)
EXTENDS Integers, Sequences, FiniteSets, FiniteSetsExt, SequencesExt, TLC

CONSTANTS
    Blocks, NoBlock,    \* block keys
    VPages, PPages, NoPage,
    Configured,         \* the pages of the configured physical range
    SpanOf,             \* per block: the virtual pages it lies on, in order
    SetOf,              \* per block: the set its key hashes to
    Fallthrough,        \* per block: its linear successor, or NoBlock
    Barriers,           \* the blocks that end a chain
    NeedsMemory,        \* the blocks with loads or stores
    Recognised,         \* the blocks a C accelerator recognises
    BytesOf,            \* per block: the size of its assembly program
    Ways, Budget, ProtectedBudget, MaxRetirements, PoolSize,
    MaxTraceBlocks, AdaptationWindow,
    Workloads           \* what the CPU and its peers will do

VARIABLES
    mem,            \* per physical page: the version of its contents
    mapping,        \* per virtual page: the physical page
    codeBits,       \* the pages marked as code for every writer
    pageGen, sharedEpoch,
    published,      \* the peers' TLB invalidations
    cache,          \* AVZNativeBlockCache
    context,        \* links, traces and last block of the execution context
    cpu,            \* what the CPU is doing
    peer,           \* the store a peer is committing
    work,           \* operations still to come
    raced           \* a peer's change fell into a decode

guestVars == <<mem, mapping, codeBits, pageGen, sharedEpoch, published>>
vars == <<guestVars, cache, context, cpu, peer, work, raced>>

Slots == {SetOf[b] : b \in Blocks} \X (1 .. Ways)
Free == <<0, 0>>        \* a pool slot without an owner
NoEntry ==
    [valid |-> FALSE, block |-> NoBlock, serial |-> 0, phys |-> <<>>, bytes |-> <<>>,
     gen |-> <<>>, sgen |-> <<>>, vCode |-> 0, vShared |-> 0, vTrans |-> 0, used |-> 0,
     prefetched |-> FALSE, succ |-> <<>>, capability |-> "unknown", reuse |-> 0,
     program |-> <<>>, eligibility |-> "unknown", threaded |-> <<>>]
EmptyCache ==
    [entries |-> [s \in Slots |-> NoEntry], local |-> [p \in Configured |-> 1], traceBits |-> {},
     code |-> 1, trans |-> 0, reset |-> 1, mut |-> 1, serial |-> 0, clock |-> 0, window |-> <<>>,
     probation |-> <<>>, protected |-> <<>>, pool |-> [i \in 1 .. PoolSize |-> Free],
     graph |-> <<>>, active |-> FALSE, limit |-> 3, hits |-> 0, unused |-> 0, seen |-> 0]
NoLast == [slot |-> Free, serial |-> 0]
Looping ==
    [phase |-> "loop", code |-> 0, shared |-> 0, from |-> <<>>, ref |-> NoLast, members |-> <<>>, trace |-> <<>>,
     engine |-> "c", words |-> <<>>, stale |-> FALSE,
     block |-> NoBlock, ahead |-> FALSE, root |-> Free, left |-> 0, phys |-> <<>>, bytes |-> <<>>,
     slot |-> Free, page |-> 0, marked |-> FALSE]

Init ==
    /\ work \in Workloads
    /\ mem = [p \in PPages |-> 0]
    /\ mapping = work.mapping
    /\ codeBits = {}
    /\ pageGen = [p \in PPages |-> 0]
    /\ sharedEpoch = 1
    /\ published = 0
    /\ cache = EmptyCache
    /\ context = [links |-> {}, traces |-> {}, last |-> NoLast]
    /\ cpu = Looping
    /\ peer = [at |-> "idle", page |-> NoPage]
    /\ raced = FALSE
-----------------------------------------------------------------------------
(* Assembly programs: a segmented LRU with a budget of bytes.              *)

Without(q, s) == SelectSeq(q, LAMBDA t : t # s)
Size(c, q) == FoldSeq(LAMBDA s, n : BytesOf[c.entries[s].block] + n, 0, q)

Unlink(c, s) == [c EXCEPT !.probation = Without(@, s), !.protected = Without(@, s)]
AssemblyRelease(c, s) ==
    IF c.entries[s].program = <<>> THEN c
    ELSE [Unlink(c, s) EXCEPT !.entries[s].program = <<>>, !.entries[s].reuse = 0]

\* Mutant of AssemblyForget: a program survives its block.
ForgetCapability(c, s) == [c EXCEPT !.entries[s].capability = "unknown"]

AssemblyForget(c, s) == [AssemblyRelease(c, s) EXCEPT !.entries[s].capability = "unknown"]
\* A second hit promotes, and demotes at most one other program.
RecordReuse(c, s) ==
    LET e == c.entries[s]
        bytes == BytesOf[e.block]
        counted == [c EXCEPT !.entries[s].reuse = IF @ < 2 THEN @ + 1 ELSE @]
        old == Head(c.protected)
        demoted == [Unlink(counted, old) EXCEPT !.entries[old].reuse = 0, !.probation = Append(@, old)]
        room == IF Size(c, c.protected) > ProtectedBudget - bytes THEN demoted ELSE counted
    IN IF s \in Range(c.protected) THEN [c EXCEPT !.protected = Append(Without(@, s), s)]
       ELSE IF counted.entries[s].reuse < 2 \/ bytes > ProtectedBudget THEN counted
       ELSE IF Size(room, room.protected) > ProtectedBudget - bytes THEN room
       ELSE [Unlink(room, s) EXCEPT !.protected = Append(@, s)]

\* Mutant of MakeRoom: the new program's own size is left out.
RoomForOld(c, bytes) == [ok |-> TRUE, cache |-> c]

\* Retire the oldest programs, of probation first, until `bytes` fit.
MakeRoom(c, bytes) ==
    LET full(d) == Size(d, d.probation) + Size(d, d.protected) > Budget - bytes
        after[n \in 0 .. MaxRetirements] ==
            IF n = 0 THEN c
            ELSE LET d == after[n - 1]
                 IN IF ~full(d) THEN d ELSE AssemblyRelease(d, Head(d.probation \o d.protected))
    IN IF bytes > Budget THEN [ok |-> FALSE, cache |-> c]
       ELSE [ok |-> ~full(after[MaxRetirements]), cache |-> after[MaxRetirements]]
-----------------------------------------------------------------------------
(* Threaded programs: one FIFO pool.  The head is the next slot to use;    *)
(* a slot that is given back goes to the head.                             *)

ReleaseSlot(c, s) == [c EXCEPT !.pool = <<Free>> \o Without(@, s), !.entries[s].threaded = <<>>]
ThreadedForget(c, s) ==
    [(IF c.entries[s].threaded # <<>> THEN ReleaseSlot(c, s) ELSE c)
        EXCEPT !.entries[s].eligibility = "unknown"]
-----------------------------------------------------------------------------
(* The code pages of entries, and their invalidation.                      *)

CodePages(e) == Range(e.phys)
\* code_page_refcounts, of the configured range only.
Tracked(c, p) == p \in Configured /\ \E s \in Slots : c.entries[s].valid /\ p \in CodePages(c.entries[s])

\* The service chain's graph dies with any member; a graph that is running
\* keeps what it needs to validate itself until it returns.
RetireGraph(c) == [c EXCEPT !.graph = <<>>]
ForgetMember(c, s) ==
    IF c.graph # <<>> /\ \E m \in c.graph[1].members : m.slot = s THEN RetireGraph(c) ELSE c

\* A window of outcomes adapts how far decoding runs ahead.
RecordPrefetchOutcome(c, useful) ==
    LET h == c.hits + (IF useful THEN 1 ELSE 0)
        u == c.unused + (IF useful THEN 0 ELSE 1)
        share(percent) == h * 100 >= (h + u) * percent
    IN IF h + u < AdaptationWindow THEN [c EXCEPT !.hits = h, !.unused = u]
       ELSE [c EXCEPT !.hits = 0, !.unused = 0,
                      !.limit = CASE share(80) -> 3 [] share(65) -> 2 [] share(55) -> 1 [] OTHER -> 0]
RetirePrefetch(c, s) ==
    IF c.entries[s].valid /\ c.entries[s].prefetched
    THEN RecordPrefetchOutcome([c EXCEPT !.entries[s].prefetched = FALSE], FALSE) ELSE c

\* discard_stale_entry, invalidate_entry and the eviction of a victim.
DropEntry(c, s) ==
    LET d == AssemblyForget(ThreadedForget(ForgetMember(RetirePrefetch(c, s), s), s), s)
    IN [d EXCEPT !.entries[s].valid = FALSE, !.entries[s].serial = 0, !.mut = @ + 1]

MayContainCode(c, p) == p \notin Configured \/ Tracked(c, p) \/ p \in c.traceBits

\* A store of this CPU: a new generation inside the configured range, the
\* entries themselves outside it.
InvalidatePhysicalRange(c, p) ==
    LET d == RetireGraph(c)
        hit == {s \in Slots : d.entries[s].valid /\ p \in CodePages(d.entries[s])}
    IN IF ~MayContainCode(c, p) THEN c
       ELSE IF p \in Configured THEN [d EXCEPT !.local[p] = @ + 1, !.code = @ + 1]
       ELSE FoldSet(LAMBDA s, x : DropEntry(x, s), d, hit)

\* A new translation regime: the decode window goes, decoded contents stay.
InvalidateTranslationMappings(c) ==
    [RetireGraph(c) EXCEPT !.window = <<>>, !.trans = @ + 1, !.code = @ + 1]

\* Synchronising with the journal of TLB invalidations.
Observe(c) ==
    IF c.seen = published THEN c ELSE [InvalidateTranslationMappings(c) EXCEPT !.seen = published]

Clear(c) ==
    [EmptyCache EXCEPT !.code = c.code + 1, !.reset = c.reset + 1, !.mut = c.mut + 1, !.local = c.local,
                       !.serial = c.serial, !.trans = c.trans, !.seen = c.seen,
                       !.limit = c.limit, !.hits = c.hits, !.unused = c.unused]
-----------------------------------------------------------------------------
(* Is an entry's code current?                                             *)

LocalPagesCurrent(c, e) == \A p \in CodePages(e) \cap Configured : c.local[p] = e.gen[p]

\* Mutant of SharedPagesCurrent: generations of other writers are not compared.
SharedPagesTrusted(e) == TRUE

SharedPagesCurrent(e) == \A p \in CodePages(e) : pageGen[p] = e.sgen[p]
MappingCurrent(e) == \A i \in 1 .. Len(SpanOf[e.block]) : mapping[SpanOf[e.block][i]] = e.phys[i]

\* The mapping callback is asked once per translation epoch.  It observes
\* invalidations first, and then the epoch has moved: no answer counts.
MapsAsBefore(c, e) == e.vTrans # c.trans => c.seen = published /\ MappingCurrent(e)

\* entry_code_is_current: unchanged epochs spare the walk over the pages.
SharedCurrent(e) == e.vShared # sharedEpoch => SharedPagesCurrent(e)
EntryIsCurrent(c, e) ==
    /\ SharedCurrent(e)
    /\ e.vCode # c.code => MapsAsBefore(c, e) /\ LocalPagesCurrent(c, e)

\* What entry_code_is_current leaves behind in the entries it looked at: the
\* epochs that were found to hold.
Acknowledge(c, e) ==
    LET mapped == SharedCurrent(e) /\ e.vCode # c.code /\ MapsAsBefore(c, e)
    IN [e EXCEPT !.vShared = IF SharedCurrent(e) THEN sharedEpoch ELSE @,
                 !.vTrans = IF mapped THEN c.trans ELSE @,
                 !.vCode = IF EntryIsCurrent(c, e) THEN c.code ELSE @]
AsksMapping(c, e) == SharedCurrent(e) /\ e.vCode # c.code /\ e.vTrans # c.trans
LookAt(c, slots) ==
    LET d == IF \E s \in slots : AsksMapping(c, c.entries[s]) THEN Observe(c) ELSE c
    IN [d EXCEPT !.entries = [s \in Slots |-> IF s \in slots THEN Acknowledge(c, c.entries[s]) ELSE c.entries[s]]]

\* A reference to an entry, good while the entry keeps its serial.
Alive(c, r) == r.serial # 0 /\ c.entries[r.slot].serial = r.serial
RefTo(c, s) == [slot |-> s, serial |-> c.entries[s].serial]
RefIsCurrent(c, r) == Alive(c, r) /\ EntryIsCurrent(c, c.entries[r.slot])
LookAtRefs(c, R) == LookAt(c, {r.slot : r \in {x \in R : Alive(c, x)}})
Touch(c, s) == [c EXCEPT !.clock = @ + 1, !.entries[s].used = c.clock + 1]
RecordPrefetchHit(c, s, ahead) ==
    IF ~ahead /\ c.entries[s].prefetched THEN RecordPrefetchOutcome([c EXCEPT !.entries[s].prefetched = FALSE], TRUE) ELSE c

EntryOf(c, b) == {s \in Slots : s[1] = SetOf[b] /\ c.entries[s].valid /\ c.entries[s].block = b}

\* The search of get_or_decode: the block's slot or Free, and the cache with
\* the hit recorded or the stale entry discarded.  A prefetched entry counts as
\* used when a block is looked up to run, not when decoding runs ahead into it.
Hit(c, b) == \E s \in EntryOf(c, b) : EntryIsCurrent(c, c.entries[s])
AfterHit(c, s, ahead) == Touch(RecordPrefetchHit(LookAt(c, {s}), s, ahead), s)
AfterMiss(c, S) == FoldSet(LAMBDA s, d : DropEntry(d, s), LookAt(c, S), S)
SlotOf(c, b) == CHOOSE s \in EntryOf(c, b) : TRUE
AfterLookup(c, b, ahead) == IF Hit(c, b) THEN AfterHit(c, SlotOf(c, b), ahead) ELSE AfterMiss(c, EntryOf(c, b))

\* The way a new block takes: a free one, else a prefetched one, else the
\* least recently used.
Victim(c, b) ==
    LET set == {s \in Slots : s[1] = SetOf[b]}
        free == {s \in set : ~c.entries[s].valid}
        ahead == {s \in set : c.entries[s].prefetched}
        oldest(S) == CHOOSE s \in S : \A t \in S : c.entries[s].used <= c.entries[t].used
    IN IF free # {} THEN CHOOSE s \in free : \A t \in free : s[2] <= t[2]
       ELSE oldest(IF ahead # {} THEN ahead ELSE set)

\* The entry of a decoded block, before its pages are indexed.
InstallEntry(c, b, phys, bytes, ahead) ==
    LET s == Victim(c, b)
        d == IF c.entries[s].valid THEN DropEntry(c, s) ELSE c
    IN [slot |-> s,
        cache |-> Touch([d EXCEPT !.serial = @ + 1,
            !.entries[s] = [@ EXCEPT !.valid = TRUE, !.block = b, !.serial = d.serial + 1, !.succ = <<>>,
                !.phys = phys, !.bytes = bytes, !.gen = <<>>, !.sgen = <<>>, !.vCode = d.code,
                !.vShared = sharedEpoch, !.vTrans = d.trans, !.prefetched = ahead]], s)]
-----------------------------------------------------------------------------
(* Programs made from a block.                                             *)

\* avz_assembly_cache_program.  Blocks that a C accelerator recognises are
\* left to it; what the gadgets can do is remembered, a program may be retired.
Gadgets(b) == CASE b \in Barriers -> "rejected" [] b \in NeedsMemory -> "memory" [] OTHER -> "registers"
Admitted(room, s) ==
    IF ~room.ok THEN room.cache
    ELSE [room.cache EXCEPT !.entries[s].program = room.cache.entries[s].bytes, !.probation = Append(@, s)]
AssemblyFor(c, s, allowMemory) ==
    LET e == c.entries[s]
        can == Gadgets(e.block)
        refused(capability) == capability = "rejected" \/ (capability = "memory" /\ ~allowMemory)
        known == [c EXCEPT !.entries[s].capability = can]
    IN IF refused(e.capability) THEN c
       ELSE IF e.capability = "unknown" /\ e.block \in Recognised THEN [c EXCEPT !.entries[s].capability = "rejected"]
       ELSE IF e.program # <<>> THEN RecordReuse(c, s)
       ELSE IF refused(can) THEN known
       ELSE Admitted(MakeRoom(known, BytesOf[e.block]), s)
AssemblyProgram(c, s, allowMemory) ==
    IF EntryIsCurrent(c, c.entries[s]) THEN AssemblyFor(LookAt(c, {s}), s, allowMemory)
    ELSE AssemblyForget(LookAt(c, {s}), s)

\* The threaded program; `fails` when its memory cannot be allocated.  The
\* pool's head is recycled before the new program is known to exist.
Threads(b) == CASE b \in Barriers -> "unsupported" [] b \in NeedsMemory -> "memory" [] OTHER -> "registers"
Recycle(c) ==
    IF Head(c.pool) = Free THEN c ELSE [c EXCEPT !.pool[1] = Free, !.entries[Head(c.pool)].threaded = <<>>]
ThreadedFor(c, s, allowMemory, fails) ==
    LET e == c.entries[s]
        can == IF e.eligibility = "unknown" THEN Threads(e.block) ELSE e.eligibility
        d == [c EXCEPT !.entries[s].eligibility = can]
    IN IF can \in {"unsupported", "failed"} \/ (can = "memory" /\ ~allowMemory) THEN d
       ELSE IF e.threaded # <<>> THEN c
       ELSE IF fails THEN [Recycle(d) EXCEPT !.entries[s].eligibility = "failed"]
       ELSE [Recycle(d) EXCEPT !.pool = Append(Tail(@), s), !.entries[s].threaded = e.bytes]
ThreadedProgram(c, s, allowMemory, fails) ==
    IF EntryIsCurrent(c, c.entries[s]) THEN ThreadedFor(LookAt(c, {s}), s, allowMemory, fails)
    ELSE ThreadedForget(LookAt(c, {s}), s)
-----------------------------------------------------------------------------
(* Links between blocks: two successors inside the entry, most recent last, *)
(* and the context's direct links.                                         *)

\* find_successor for the block `want`, or for any when want = NoBlock.
Successors(c, from) == c.entries[from.slot].succ
Successor(c, from, want) ==
    LET found == SelectSeq(Successors(c, from),
                     LAMBDA r : RefIsCurrent(c, r) /\ want \in {NoBlock, c.entries[r.slot].block})
    IN IF RefIsCurrent(c, from) /\ found # <<>> THEN Last(found) ELSE NoLast
AfterSuccessor(c, from, found) ==
    LET looked == IF RefIsCurrent(c, from) THEN {from} \cup Range(Successors(c, from)) ELSE {from}
    IN [LookAtRefs(c, looked) EXCEPT !.entries[from.slot].succ =
            IF found = NoLast THEN @ ELSE Append(SelectSeq(@, LAMBDA r : r # found), found)]

\* A third successor replaces one that is no longer current, else the older.
RecordSuccessor(c, from, to) ==
    LET rest == SelectSeq(Successors(c, from), LAMBDA r : r # to)
        dead == SelectSeq(rest, LAMBDA r : ~RefIsCurrent(c, r))
        out == IF dead # <<>> THEN Head(dead) ELSE Head(rest)
        kept == IF Len(rest) = 2 THEN SelectSeq(rest, LAMBDA r : r # out) ELSE rest
    IN IF ~RefIsCurrent(c, from) THEN LookAtRefs(c, {from})
       ELSE IF ~RefIsCurrent(c, to) THEN LookAtRefs(c, {from, to})
       ELSE [LookAtRefs(c, {from, to} \cup Range(rest)) EXCEPT !.entries[from.slot].succ = Append(kept, to)]

\* direct_link_is_current: unchanged epochs spare the walk over the pages,
\* never the comparison of serials.
LinkIsCurrent(c, l) ==
    /\ Alive(c, l.from) /\ Alive(c, l.to)
    /\ ~(l.code = c.code /\ l.shared = sharedEpoch) => RefIsCurrent(c, l.from) /\ RefIsCurrent(c, l.to)
FindLink(c, from, want) ==
    LET live == {l \in context.links : l.from = from /\ want \in {NoBlock, l.key} /\ LinkIsCurrent(c, l)}
    IN IF live = {} THEN NoLast ELSE (CHOOSE x \in live : \A y \in live : y.used <= x.used).to
RecordLink(c, from, to, b) ==
    {l \in context.links : ~(l.from = from /\ l.key = b) /\ Alive(c, l.from) /\ Alive(c, l.to)}
        \cup {[from |-> from, to |-> to, key |-> b, code |-> c.code, shared |-> sharedEpoch, used |-> c.clock]}
-----------------------------------------------------------------------------
(* Traces: copies of blocks that followed each other.                      *)

\* validate_superblock: the members are walked when an epoch moved, and the
\* epochs the walk started from are the ones acknowledged.
Moved(c, t) == t.code # c.code \/ t.shared # sharedEpoch
TraceIsCurrent(c, t) ==
    /\ t.reset = c.reset
    /\ Moved(c, t) => \A r \in Range(t.members) : RefIsCurrent(c, r)
    /\ t.resident /\ t.mut # c.mut => \A r \in Range(t.members) : Alive(c, r)
    /\ t.code # c.code => \A p \in DOMAIN t.gens : c.local[p] = t.gens[p]
AfterTrace(c, t) == IF t.reset = c.reset /\ Moved(c, t) THEN LookAtRefs(c, Range(t.members)) ELSE c
Acknowledged(c, t) == [t EXCEPT !.code = c.code, !.shared = sharedEpoch, !.mut = IF t.resident THEN c.mut ELSE @]

TracesOf(b) == {t \in context.traces : t.key = b}
WithTrace(t) == {u \in context.traces : u.key # t.key} \cup {t}

\* The trace of these members, once its pages are registered.
TraceOf(c, b, members) ==
    LET of(i) == c.entries[members[i].slot]
        pages == UNION {CodePages(of(i)) : i \in DOMAIN members}
    IN [key |-> b, members |-> members, blocks |-> [i \in DOMAIN members |-> of(i).block],
        words |-> [i \in DOMAIN members |-> of(i).bytes], phys |-> [i \in DOMAIN members |-> of(i).phys],
        code |-> cpu.from.code, shared |-> cpu.from.shared, mut |-> c.mut, reset |-> c.reset,
        gens |-> [p \in pages \cap Configured |-> c.local[p]], resident |-> ~(pages \subseteq Configured)]
-----------------------------------------------------------------------------
(* The service graph: assembly programs joined without leaving assembly.   *)

\* entry_eligible: deliberately without the mapping callback.
Eligible(c, r) ==
    LET e == c.entries[r.slot]
    IN /\ Alive(c, r) /\ e.valid
       /\ Len(e.phys) = 1 /\ e.phys[1] \in Configured
       /\ e.block \notin Barriers /\ e.block \notin Recognised
       /\ e.vTrans = c.trans
       /\ LocalPagesCurrent(c, e) /\ SharedPagesCurrent(e)
HasProgram(c, r) == c.entries[r.slot].program # <<>>

\* all_current: binding, proof and every member.
GraphCurrent(c, g) ==
    /\ c.reset = g.reset /\ c.trans = g.trans
    /\ c.code = g.code /\ sharedEpoch = g.shared /\ published = g.published
    /\ \A r \in g.members :
          LET e == c.entries[r.slot]
          IN Alive(c, r) /\ e.valid /\ e.vTrans = g.trans /\ LocalPagesCurrent(c, e) /\ SharedPagesCurrent(e)

\* Members are the programs reached over recorded successors.
Reach(c, root) ==
    LET more(S) == S \cup {r \in UNION {Range(c.entries[m.slot].succ) : m \in S} : Eligible(c, r) /\ HasProgram(c, r)}
    IN more(more({root}))

\* ag_service_chain_create_graph: private copies of the members' programs,
\* bound to the epochs they were selected under.
NewGraph(c, members, code, shared) ==
    [members |-> members, reset |-> c.reset, trans |-> c.trans, code |-> code, shared |-> shared,
     published |-> published, words |-> [r \in members |-> c.entries[r.slot].bytes]]
ServiceChain(c, root, code, shared) ==
    LET members == Reach(c, root)
        g == NewGraph(c, members, code, shared)
        old == c.graph[1]
        kept == c.graph # <<>> /\ GraphCurrent(c, old)
        same == old.code = code /\ old.shared = shared
        fresh == c.code = code /\ sharedEpoch = shared /\ c.seen = published
        loop == root \in Range(c.entries[root.slot].succ)
        retired == RetireGraph(c)
    IN IF ~fresh THEN [graph |-> <<>>, cache |-> retired]
       ELSE IF ~Eligible(c, root) THEN [graph |-> <<>>, cache |-> c]
       ELSE IF kept THEN [graph |-> IF same /\ root \in old.members THEN c.graph ELSE <<>>, cache |-> c]
       ELSE IF ~HasProgram(c, root) \/ (Cardinality(members) < 2 /\ ~loop) THEN [graph |-> <<>>, cache |-> retired]
       ELSE [graph |-> <<g>>, cache |-> [retired EXCEPT !.graph = <<g>>]]
-----------------------------------------------------------------------------
(* What the CPU does: one operation of its workload after the other.       *)

Op == Head(work.cpu)
NextOp == [work EXCEPT !.cpu = Tail(@)]
Running == work.cpu # <<>> /\ Op.op = "run"

\* Start of the dispatch loop: the epochs are read before anything is
\* selected.  With graphs, TLB invalidations are observed first.
Begin ==
    /\ cpu.phase = "loop" /\ Running
    /\ cache' = IF Op.engine = "graph" THEN Observe(cache) ELSE cache
    /\ cpu' = [Looping EXCEPT !.phase = "select", !.code = cache'.code, !.shared = sharedEpoch]
    /\ UNCHANGED <<guestVars, context, peer, work, raced>>

Goto(phase) == [cpu EXCEPT !.phase = phase]
Found(ref) == [cpu EXCEPT !.phase = "selected", !.ref = ref]
Decoding(b, ahead, root, left) ==
    [cpu EXCEPT !.phase = "decode", !.block = b, !.ahead = ahead, !.root = root, !.left = left,
                !.phys = <<>>, !.bytes = <<>>]

\* Selection: a trace of the block ...
FindTrace ==
    /\ cpu.phase = "select"
    /\ LET traces == TracesOf(Op.block)
           t == CHOOSE x \in traces : TRUE
       IN \/ /\ traces = {}
             /\ cpu' = Goto("successor")
             /\ UNCHANGED <<cache, context>>
          \/ /\ traces # {} /\ TraceIsCurrent(cache, t)
             /\ cache' = AfterTrace(cache, t)
             /\ context' = [context EXCEPT !.traces = WithTrace(Acknowledged(cache, t))]
             /\ cpu' = [cpu EXCEPT !.phase = "enter", !.engine = "trace", !.trace = <<Acknowledged(cache, t)>>,
                                   !.page = 1, !.code = cache.code, !.shared = sharedEpoch, !.ref = t.members[1]]
          \/ /\ traces # {} /\ ~TraceIsCurrent(cache, t)
             /\ cache' = AfterTrace(cache, t)
             /\ context' = [context EXCEPT !.traces = @ \ traces]
             /\ cpu' = Goto("successor")
    /\ UNCHANGED <<guestVars, peer, work, raced>>

\* ... else the successor that the last block remembers ...
TrySuccessor ==
    /\ cpu.phase = "successor"
    /\ LET r == Successor(cache, context.last, Op.block)
       IN \/ /\ context.last = NoLast
             /\ cpu' = Goto("lookup")
             /\ UNCHANGED cache
          \/ /\ context.last # NoLast
             /\ cache' = AfterSuccessor(cache, context.last, r)
             /\ cpu' = IF r = NoLast THEN Goto("direct") ELSE Found(r)
    /\ UNCHANGED <<guestVars, context, peer, work, raced>>

\* ... else a direct link from it ...
TryLink ==
    /\ cpu.phase = "direct"
    /\ LET r == FindLink(cache, context.last, Op.block)
       IN IF r = NoLast THEN cpu' = Goto("lookup") /\ UNCHANGED cache
          ELSE cpu' = Found(r) /\ cache' = RecordSuccessor(cache, context.last, r)
    /\ UNCHANGED <<guestVars, context, peer, work, raced>>

\* ... else the cached block, or a decode.
TryLookup ==
    /\ cpu.phase = "lookup"
    /\ cache' = AfterLookup(cache, Op.block, FALSE)
    /\ cpu' = IF Hit(cache, Op.block) THEN [Found(RefTo(cache, SlotOf(cache, Op.block))) EXCEPT !.phase = "link"]
              ELSE Decoding(Op.block, FALSE, Free, 0)
    /\ UNCHANGED <<guestVars, context, peer, work, raced>>

\* avz_decode_block reads one page after the other: the first through the
\* decode window when it is still open, else through the fetch callback.
FetchPage ==
    /\ cpu.phase = "decode" /\ Len(cpu.phys) < Len(SpanOf[cpu.block])
    /\ LET v == SpanOf[cpu.block][Len(cpu.phys) + 1]
           open == cpu.phys = <<>> /\ cache.window # <<>> /\ cache.window[1] = v
           seen == IF open THEN cache ELSE Observe(cache)
           p == IF open THEN cache.window[2] ELSE mapping[v]
       IN /\ cache' = [seen EXCEPT !.window = IF p \in Configured THEN <<v, p>> ELSE @]
          /\ cpu' = [cpu EXCEPT !.phys = Append(@, p), !.bytes = Append(@, mem[p])]
          /\ raced' = (raced \/ \E i \in DOMAIN cpu.phys :
                          seen.trans # cache.trans /\ mapping[SpanOf[cpu.block][i]] # cpu.phys[i])
    /\ UNCHANGED <<guestVars, context, peer, work>>

\* The entry is stored with the epochs of this moment ...
Install ==
    /\ cpu.phase = "decode" /\ Len(cpu.phys) = Len(SpanOf[cpu.block])
    /\ LET r == InstallEntry(cache, cpu.block, cpu.phys, cpu.bytes, cpu.ahead)
       IN /\ cache' = r.cache
          /\ cpu' = [cpu EXCEPT !.phase = "index", !.slot = r.slot, !.page = 1]
    /\ UNCHANGED <<guestVars, context, peer, work, raced>>

\* ... and then avz_index_entry makes each of its pages a code page and
\* captures the page's generations.
MarkPage ==
    /\ cpu.phase = "index" /\ cpu.page <= Len(cpu.phys) /\ ~cpu.marked
    /\ codeBits' = codeBits \cup {cpu.phys[cpu.page]}
    /\ cpu' = [cpu EXCEPT !.marked = TRUE]
    /\ UNCHANGED <<mem, mapping, pageGen, sharedEpoch, published, cache, context, peer, work, raced>>
CapturePage ==
    /\ cpu.phase = "index" /\ cpu.page <= Len(cpu.phys) /\ cpu.marked
    /\ LET p == cpu.phys[cpu.page]
       IN cache' = [cache EXCEPT !.entries[cpu.slot].sgen = (p :> pageGen[p]) @@ @,
                                 !.entries[cpu.slot].gen = IF p \in Configured THEN (p :> cache.local[p]) @@ @ ELSE @]
    /\ cpu' = [cpu EXCEPT !.page = @ + 1, !.marked = FALSE]
    /\ UNCHANGED <<guestVars, context, peer, work, raced>>

\* Decoding runs ahead along linear fallthroughs, on the same page and never
\* into the set of the block it returns.
Indexed ==
    /\ cpu.phase = "index" /\ cpu.page > Len(cpu.phys)
    /\ cpu' = IF cpu.ahead THEN Goto("ahead")
              ELSE [cpu EXCEPT !.phase = "ahead", !.root = cpu.slot, !.left = cache.limit]
    /\ UNCHANGED <<guestVars, cache, context, peer, work, raced>>
DecodeAhead ==
    /\ cpu.phase = "ahead"
    /\ LET next == Fallthrough[cpu.block]
           home == cache.entries[cpu.root].block
           go == /\ cpu.left > 0 /\ next # NoBlock
                 /\ SpanOf[next][1] = SpanOf[home][1] /\ SetOf[next] # SetOf[home]
       IN \/ /\ ~go
             /\ cpu' = [Found(RefTo(cache, cpu.root)) EXCEPT !.phase = "link"]
             /\ UNCHANGED cache
          \/ /\ go
             /\ cache' = AfterLookup(cache, next, TRUE)
             /\ cpu' = IF Hit(cache, next) THEN [cpu EXCEPT !.block = next, !.left = @ - 1]
                       ELSE Decoding(next, TRUE, cpu.root, cpu.left - 1)
    /\ UNCHANGED <<guestVars, context, peer, work, raced>>

\* The block just found is linked to the one that ran before it.
Link ==
    /\ cpu.phase = "link"
    /\ IF context.last # NoLast /\ RefIsCurrent(cache, context.last) /\ Alive(cache, cpu.ref)
       THEN /\ cache' = RecordSuccessor(cache, context.last, cpu.ref)
            /\ context' = [context EXCEPT !.links = RecordLink(cache, context.last, cpu.ref, Op.block)]
       ELSE UNCHANGED <<cache, context>>
    /\ cpu' = Goto("selected")
    /\ UNCHANGED <<guestVars, peer, work, raced>>

\* Which engine runs the block: its threaded program ...
TryThreaded ==
    /\ cpu.phase = "selected"
    /\ cache' = IF Op.engine = "threaded" THEN ThreadedProgram(cache, cpu.ref.slot, TRUE, Op.fails) ELSE cache
    /\ cpu' = IF Op.engine = "threaded" /\ cache'.entries[cpu.ref.slot].threaded # <<>>
              THEN [Goto("enter") EXCEPT !.engine = "threaded"] ELSE Goto("compose")
    /\ UNCHANGED <<guestVars, context, peer, work, raced>>

\* ... else a new trace, followed along the links from the block.  An edge
\* met twice keeps its answer; nothing is composed once an epoch has moved.
Epochs == [code |-> cache.code, shared |-> sharedEpoch, mut |-> cache.mut]
ComposeFirst ==
    /\ cpu.phase = "compose"
    /\ \/ /\ Op.block \in Barriers
          /\ cpu' = Goto("prepare")
          /\ UNCHANGED cache
       \/ /\ Op.block \notin Barriers
          /\ cache' = LookAtRefs(cache, {cpu.ref})
          /\ cpu' = IF RefIsCurrent(cache, cpu.ref)
                    THEN [Goto("extend") EXCEPT !.members = <<cpu.ref>>, !.from = Epochs] ELSE Goto("prepare")
    /\ UNCHANGED <<guestVars, context, peer, work, raced>>
EdgeAgain ==
    LET again == {i \in 1 .. Len(cpu.members) - 1 : cpu.members[i] = Last(cpu.members)}
    IN IF again = {} THEN NoLast ELSE cpu.members[Min(again) + 1]
Extended(r) ==
    IF r = NoLast \/ cache.entries[r.slot].block \in Barriers THEN Goto("composed")
    ELSE [cpu EXCEPT !.members = Append(@, r)]
Extend ==
    /\ cpu.phase = "extend"
    /\ LET source == Last(cpu.members)
           s == Successor(cache, source, NoBlock)
           l == FindLink(cache, source, NoBlock)
       IN IF cpu.from # Epochs THEN cpu' = [Goto("prepare") EXCEPT !.members = <<>>] /\ UNCHANGED cache
          ELSE IF Len(cpu.members) = MaxTraceBlocks THEN cpu' = Goto("composed") /\ UNCHANGED cache
          ELSE IF EdgeAgain # NoLast THEN cpu' = Extended(EdgeAgain) /\ UNCHANGED cache
          ELSE IF s # NoLast \/ l = NoLast THEN cpu' = Extended(s) /\ cache' = AfterSuccessor(cache, source, s)
          ELSE cpu' = Extended(l) /\ cache' = RecordSuccessor(cache, source, l)
    /\ UNCHANGED <<guestVars, context, peer, work, raced>>
Compose ==
    /\ cpu.phase = "composed"
    /\ LET t == TraceOf(cache, Op.block, cpu.members)
           pages == DOMAIN t.gens
       IN IF Len(cpu.members) < 2 \/ cpu.from # Epochs
          THEN cpu' = Goto("prepare") /\ UNCHANGED <<codeBits, cache, context>>
          ELSE /\ cache' = [cache EXCEPT !.traceBits = @ \cup pages]
               /\ codeBits' = codeBits \cup pages
               /\ context' = [context EXCEPT !.traces = WithTrace(t)]
               /\ cpu' = [Goto("prepare") EXCEPT !.trace = <<t>>]
    /\ UNCHANGED <<mem, mapping, pageGen, sharedEpoch, published, peer, work, raced>>

\* ... an assembly program, alone or as the root of a service graph that
\* covers the trace, or the C interpreter.
EnterC ==
    IF cpu.trace = <<>> THEN [Goto("enter") EXCEPT !.engine = "c"]
    ELSE [Goto("enter") EXCEPT !.engine = "trace", !.page = 1, !.code = cpu.trace[1].code, !.shared = cpu.trace[1].shared]
Prepare ==
    /\ cpu.phase = "prepare"
    /\ LET wanted == Op.engine = "graph" \/ (Op.engine = "assembly" /\ cpu.trace = <<>>)
           program == cache'.entries[cpu.ref.slot].program
       IN \/ /\ ~wanted
             /\ cpu' = EnterC
             /\ UNCHANGED cache
          \/ /\ wanted
             /\ cache' = AssemblyProgram(cache, cpu.ref.slot, TRUE)
             /\ cpu' = IF program = <<>> THEN EnterC
                       ELSE [cpu EXCEPT !.words = program, !.engine = "assembly",
                                        !.phase = IF Op.engine = "graph" THEN "graph" ELSE "enter"]
    /\ UNCHANGED <<guestVars, context, peer, work, raced>>
JoinGraph ==
    /\ cpu.phase = "graph"
    /\ LET g == ServiceChain(cache, cpu.ref, cpu.code, cpu.shared)
           covers == g.graph # <<>> /\ (cpu.trace # <<>> => Range(cpu.trace[1].members) \subseteq g.graph[1].members)
       IN /\ cache' = [g.cache EXCEPT !.active = covers]
          /\ cpu' = IF covers THEN [Goto("enter") EXCEPT !.engine = "graph", !.words = g.graph]
                    ELSE IF cpu.trace # <<>> THEN EnterC ELSE Goto("enter")
    /\ UNCHANGED <<guestVars, context, peer, work, raced>>
-----------------------------------------------------------------------------
(* Execution.  `stale` records what ran against what memory held then.     *)

\* The code differs from memory, and no peer is still publishing why.
Stale(b, words, phys) ==
    \E i \in DOMAIN phys :
        \/ mem[phys[i]] # words[i] /\ ~(peer.at # "idle" /\ peer.page = phys[i])
        \/ mapping[SpanOf[b][i]] # phys[i] /\ cache.seen = published

\* execution_span_is_current, at entry, at each boundary of a trace and after
\* each callback; its slow path walks the pages.
Unmoved == cpu.code = cache.code /\ cpu.shared = sharedEpoch
SpanIsCurrent ==
    IF cpu.engine = "trace" THEN Unmoved \/ TraceIsCurrent(cache, cpu.trace[1])
    ELSE /\ Alive(cache, cpu.ref)
         /\ ~Unmoved => /\ RefIsCurrent(cache, cpu.ref)
                        /\ LocalPagesCurrent(cache, cache.entries[cpu.ref.slot])
                        /\ SharedPagesCurrent(cache.entries[cpu.ref.slot])
AfterSpan ==
    IF Unmoved THEN cache
    ELSE IF cpu.engine = "trace" THEN AfterTrace(cache, cpu.trace[1]) ELSE LookAtRefs(cache, {cpu.ref})

\* ag_run: the epochs read before the selection must still stand.
GuardsHold == cpu.code = cache.code /\ cpu.shared = sharedEpoch

Ran(words, phys) ==
    [cpu EXCEPT !.phase = IF @ = "tail" THEN "next" ELSE "ran", !.code = cache.code, !.shared = sharedEpoch,
                !.stale = Stale(Op.block, words, phys)]
Refused == Goto(IF cpu.phase = "tail" THEN "next" ELSE "leave")

\* The C interpreter: a block or the next member of a trace; also the rest
\* of the block after a store.
Interpret ==
    /\ cpu.phase \in {"enter", "tail"} /\ cpu.engine \in {"c", "trace"}
    /\ LET e == cache.entries[cpu.ref.slot]
           t == cpu.trace[1]
           kept == <<Acknowledged(cache, t)>>
       IN /\ cache' = AfterSpan
          /\ \/ /\ ~SpanIsCurrent
                /\ cpu' = Refused
                /\ context' = IF cpu.engine = "c" THEN context ELSE [context EXCEPT !.traces = @ \ TracesOf(t.key)]
             \/ /\ SpanIsCurrent /\ cpu.engine = "c"
                /\ cpu' = Ran(e.bytes, e.phys)
                /\ UNCHANGED context
             \/ /\ SpanIsCurrent /\ cpu.engine = "trace"
                /\ cpu' = [Ran(t.words[cpu.page], t.phys[cpu.page]) EXCEPT !.trace = kept]
                /\ context' = [context EXCEPT !.traces = WithTrace(kept[1])]
    /\ UNCHANGED <<guestVars, peer, work, raced>>

\* An assembly program, a threaded one (looked up again), or a visit of the
\* graph, whose service first observes invalidations and may thereby retire it.
Execute ==
    /\ cpu.phase = "enter" /\ cpu.engine \in {"assembly", "threaded", "graph"}
    /\ LET e == cache.entries[cpu.ref.slot]
       IN \/ /\ cpu.engine = "assembly"
             /\ cpu' = IF GuardsHold THEN Ran(cpu.words, e.phys) ELSE Refused
             /\ UNCHANGED cache
          \/ /\ cpu.engine = "threaded"
             /\ cache' = ThreadedProgram(cache, cpu.ref.slot, TRUE, Op.fails)
             /\ LET program == cache'.entries[cpu.ref.slot].threaded
                IN cpu' = IF program # <<>> THEN Ran(program, e.phys) ELSE Refused
          \/ /\ cpu.engine = "graph"
             /\ cache' = Observe(cache)
             /\ cpu' = IF GraphCurrent(cache', cpu.words[1]) THEN Ran(cpu.words[1].words[cpu.ref], e.phys) ELSE Refused
    /\ UNCHANGED <<guestVars, context, peer, work, raced>>

\* A store of the running block: memory, its generation and epoch for the
\* other CPUs, then this CPU's own cache.  Assembly and threaded programs
\* return after it, the interpreter looks at its code again.
Store ==
    /\ cpu.phase = "ran"
    /\ LET p == Op.store
           code == p \in codeBits
       IN \/ /\ p = NoPage
             /\ cpu' = [cpu EXCEPT !.phase = "next"]
             /\ UNCHANGED <<guestVars, cache>>
          \/ /\ p # NoPage
             /\ mem' = [mem EXCEPT ![p] = @ + 1]
             /\ pageGen' = IF code THEN [pageGen EXCEPT ![p] = @ + 1] ELSE pageGen
             /\ sharedEpoch' = IF code THEN sharedEpoch + 1 ELSE sharedEpoch
             /\ cache' = InvalidatePhysicalRange(cache, p)
             /\ cpu' = [cpu EXCEPT !.phase = IF cpu.engine \in {"c", "trace"} THEN "tail" ELSE "next"]
             /\ UNCHANGED <<mapping, codeBits, published>>
    /\ UNCHANGED <<context, peer, work, raced>>

\* The next block of the trace or the graph, when the guest goes there.
Continue ==
    /\ cpu.phase = "next"
    /\ work' = NextOp
    /\ LET stored == Op.store # NoPage
           next == Head(Tail(work.cpu))
           more == Tail(work.cpu) # <<>> /\ next.op = "run"
           inTrace == /\ cpu.engine = "trace" /\ more /\ cpu.page < Len(cpu.trace[1].members)
                      /\ cpu.trace[1].blocks[cpu.page + 1] = next.block
           members == IF cpu.engine = "graph" /\ more /\ ~stored
                      THEN {r \in cpu.words[1].members : cache.entries[r.slot].block = next.block} ELSE {}
       IN cpu' = IF inTrace THEN [cpu EXCEPT !.phase = "enter", !.page = @ + 1, !.ref = cpu.trace[1].members[cpu.page + 1]]
                 ELSE IF members # {} THEN [cpu EXCEPT !.phase = "enter", !.ref = CHOOSE r \in members : TRUE]
                 ELSE [cpu EXCEPT !.phase = "end",
                           !.ref = IF cpu.engine = "graph" \/ (stored /\ cpu.engine \in {"assembly", "threaded"})
                                      \/ Op.block \in Barriers THEN NoLast ELSE @]
    /\ UNCHANGED <<guestVars, cache, context, peer, raced>>

\* The end of a dispatch: the graph is unpinned, invalidations are observed,
\* and the block is remembered while its entry lives.
End ==
    /\ cpu.phase \in {"leave", "end"}
    /\ LET c == [cache EXCEPT !.active = FALSE]
           d == IF cpu.engine = "graph" /\ c.graph # <<>> /\ ~GraphCurrent(c, c.graph[1]) THEN RetireGraph(c) ELSE c
           gone == cpu.phase = "leave" /\ cpu.engine # "c"
       IN /\ cache' = Observe(d)
          /\ context' = [context EXCEPT !.last = IF Alive(d, cpu.ref) /\ ~gone THEN cpu.ref ELSE NoLast]
    /\ cpu' = Looping
    /\ UNCHANGED <<guestVars, peer, work, raced>>

\* Operations between dispatches: the cache is cleared, or this CPU changes
\* its own translations.
ClearCache ==
    /\ cpu.phase = "loop" /\ work.cpu # <<>> /\ Op.op = "clear"
    /\ cache' = Clear(cache)
    /\ work' = NextOp
    /\ UNCHANGED <<guestVars, context, cpu, peer, raced>>
Remap ==
    /\ cpu.phase = "loop" /\ work.cpu # <<>> /\ Op.op = "remap"
    /\ mapping' = Op.to
    /\ cache' = InvalidateTranslationMappings(cache)
    /\ work' = NextOp
    /\ UNCHANGED <<mem, codeBits, pageGen, sharedEpoch, published, context, cpu, peer, raced>>
-----------------------------------------------------------------------------
(* Peers: other CPUs and devices.                                          *)

\* The pages of the decode under way that have been read and whose
\* generation has not been captured.
Exposed ==
    IF cpu.phase = "decode" THEN Range(cpu.phys)
    ELSE IF cpu.phase = "index" THEN {cpu.phys[i] : i \in cpu.page .. Len(cpu.phys)} ELSE {}

PeerStore ==
    /\ peer.at = "idle" /\ work.peer # <<>> /\ Head(work.peer).op = "store"
    /\ LET p == Head(work.peer).page
       IN /\ mem' = [mem EXCEPT ![p] = @ + 1]
          /\ peer' = [at |-> "stored", page |-> p]
          /\ raced' = (raced \/ p \in Exposed)
    /\ work' = [work EXCEPT !.peer = Tail(@)]
    /\ UNCHANGED <<mapping, codeBits, pageGen, sharedEpoch, published, cache, context, cpu>>
\* Only a page that is marked as code gets a new generation.
PeerNote ==
    /\ peer.at = "stored"
    /\ \/ /\ peer.page \in codeBits
          /\ pageGen' = [pageGen EXCEPT ![peer.page] = @ + 1]
          /\ peer' = [peer EXCEPT !.at = "noted"]
       \/ /\ peer.page \notin codeBits
          /\ peer' = [peer EXCEPT !.at = "idle"]
          /\ UNCHANGED pageGen
    /\ UNCHANGED <<mem, mapping, codeBits, sharedEpoch, published, cache, context, cpu, work, raced>>
PeerPublish ==
    /\ peer.at = "noted"
    /\ sharedEpoch' = sharedEpoch + 1
    /\ peer' = [peer EXCEPT !.at = "idle"]
    /\ UNCHANGED <<mem, mapping, codeBits, pageGen, published, cache, context, cpu, work, raced>>
PeerRemap ==
    /\ peer.at = "idle" /\ work.peer # <<>> /\ Head(work.peer).op = "remap"
    /\ mapping' = Head(work.peer).to
    /\ published' = published + 1
    /\ work' = [work EXCEPT !.peer = Tail(@)]
    /\ UNCHANGED <<mem, codeBits, pageGen, sharedEpoch, cache, context, cpu, peer, raced>>

Next ==
    \/ Begin \/ FindTrace \/ TrySuccessor \/ TryLink \/ TryLookup
    \/ FetchPage \/ Install \/ MarkPage \/ CapturePage \/ Indexed \/ DecodeAhead \/ Link
    \/ TryThreaded \/ ComposeFirst \/ Extend \/ Compose \/ Prepare \/ JoinGraph
    \/ Interpret \/ Execute \/ Store \/ Continue \/ End \/ ClearCache \/ Remap
    \/ PeerStore \/ PeerNote \/ PeerPublish \/ PeerRemap

Spec == Init /\ [][Next]_vars
-----------------------------------------------------------------------------
(* No engine runs code that memory no longer holds, once the change has    *)
(* been published, unless the change fell into the decode itself.          *)
NoStaleCode == cpu.phase \in {"ran", "next"} /\ cpu.stale => raced

(* The same without the exception: RAM writes are coherent with decoded    *)
(* code, as the comments on cache maintenance say.                         *)
CoherentCode == cpu.phase \in {"ran", "next"} => ~cpu.stale

(* Every assembly and threaded program was made from the block its entry   *)
(* holds, and the queues and the pool hold exactly the entries that have   *)
(* one.                                                                    *)
ProgramsMatchBlocks ==
    \A s \in Slots :
        LET e == cache.entries[s]
        IN /\ e.program \in {<<>>, e.bytes} /\ e.threaded \in {<<>>, e.bytes}
           /\ (e.program # <<>> \/ e.threaded # <<>>) => e.valid
           /\ (e.program # <<>>) <=> (s \in Range(cache.probation) \cup Range(cache.protected))
           /\ (e.threaded # <<>>) <=> (s \in Range(cache.pool))

(* Assembly programs stay within their budget and the protected ones       *)
(* within theirs, and no program is counted twice.                         *)
AssemblyBudgeted ==
    LET all == cache.probation \o cache.protected
    IN /\ Size(cache, all) <= Budget /\ Size(cache, cache.protected) <= ProtectedBudget
       /\ IsInjective(all)

(* What the cache keeps beside a block belongs to that block and fits.     *)
ProgramsAccounted == ProgramsMatchBlocks /\ AssemblyBudgeted
=============================================================================
