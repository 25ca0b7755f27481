--------------------------- MODULE TranslationCache ---------------------------
(***************************************************************************)
(* The native address translation of every virtual CPU: its set of TLB     *)
(* entries per kind of access, the hot copies in front of it, the walk of  *)
(* the guest's page tables, and the TLB invalidations that reach it        *)
(* through the shared journal.                                             *)
(*                                                                         *)
(* An entry is not searched for and removed when an invalidation arrives:  *)
(* the CPU advances a private epoch, records it per ASID and per hashed    *)
(* address extent, and revalidates an entry when it next finds it.  A      *)
(* generation that is bumped is a set that is emptied; which way of a set  *)
(* is replaced is left open.  The guest may rewrite its page tables at any *)
(* time, so a walk reads any of Descriptors.                               *)
(***************************************************************************)
EXTENDS ArchState, Sequences, FiniteSets

CONSTANTS
    VCPUs,
    VirtualPages, HighPages,    \* HighPages are those of the upper half
    GroupPages, BlockPages,     \* pages per extent of each size
    ASIDs, Stages,      \* the translation registers the guest may install
    Descriptors,        \* what a page table may hold
    Ways, VASlots, JournalCount, EpochLimit,
    Programs            \* per CPU, the operations it will perform

ConstantsFit ==
    /\ VirtualPages \subseteq Nat /\ HighPages \subseteq VirtualPages /\ VirtualPages # {}
    /\ ASIDs \subseteq Nat /\ ASIDs # {}
    /\ {GroupPages, BlockPages, Ways, VASlots, JournalCount, EpochLimit} \subseteq Nat \ {0}
    /\ EpochLimit > 1
    /\ \A s \in Stages : s.mmu \in BOOLEAN /\ s.asid \in ASIDs
    /\ Descriptors # {}
    /\ \A d \in Descriptors : d.type \in {"invalid", "table", "block"} /\ d.global \in BOOLEAN
    /\ CounterBits \in Nat /\ ValueBits \in Nat /\ ValueBits < CounterBits

ASSUME TranslationAssumption == ConstantsFit

Kinds == {"read", "write", "fetch"}
\* Invalidations, as decode_tlbi leaves them.
TLBIKinds == {"all", "asid", "va", "vaAllAsids"}
TLBIs == [kind : TLBIKinds, page : VirtualPages, asid : ASIDs, broadcast : BOOLEAN]

VARIABLES
    sharedEpoch,    \* translation_epoch
    journal,        \* translation_journal
    observed,       \* per CPU: observed_shared_translation_epoch
    stage,          \* per CPU: translation_state
    tlb, hot,       \* per CPU and kind
    epoch,          \* per CPU: tlbi_epoch
    asidEpoch, vaEpoch, vaAllEpoch, vaGlobalEpoch,
    walk,           \* per CPU: the access whose walk is in progress
    fault,          \* per CPU: translation_fault_pending, and whether Swift was told
    arch, swift,    \* per CPU: native and Swift copies of the registers
    clock,          \* the host's counter clock
    banks,          \* per CPU: the stack pointers as the architecture defines them
    program,        \* per CPU: operations still to come
    issued,         \* how many invalidations were executed
    owed            \* per CPU: the invalidations it must honour, with their number

sharedVars == <<sharedEpoch, journal, issued, owed>>
tlbVars == <<tlb, hot, epoch, asidEpoch, vaEpoch, vaAllEpoch, vaGlobalEpoch, observed>>
archVars == <<arch, swift, banks>>
translationVars == <<sharedVars, tlbVars, archVars, stage, walk, fault, clock, program>>

NoWalk == [kind |-> "none"]
\* The journal before the first publication: zeroed, which reads as "all".
EmptyEntry == [kind |-> "all", page |-> CHOOSE p \in VirtualPages : TRUE,
               asid |-> CHOOSE a \in ASIDs : TRUE, broadcast |-> FALSE]
InitialArch == [reg |-> InitialRegisters, dirty |-> {}, sp |-> 0, pc |-> 0, counter |-> 0,
                clocked |-> TRUE, unpolled |-> 0, pendingIRQ |-> FALSE,
                pstate |-> [el |-> 1, spsel |-> 1, masked |-> FALSE]]

TranslationInit ==
    /\ sharedEpoch = 0
    /\ journal = [i \in 0 .. JournalCount - 1 |-> EmptyEntry]
    /\ observed = [c \in VCPUs |-> 0]
    /\ \E s \in Stages : stage = [c \in VCPUs |-> s]
    /\ tlb = [c \in VCPUs |-> [k \in Kinds |-> {}]]
    /\ hot = [c \in VCPUs |-> [k \in Kinds |-> {}]]
    /\ epoch = [c \in VCPUs |-> 0]
    /\ asidEpoch = [c \in VCPUs |-> [a \in ASIDs |-> 0]]
    /\ vaEpoch = [c \in VCPUs |-> [s \in 0 .. VASlots - 1 |-> 0]]
    /\ vaAllEpoch = vaEpoch /\ vaGlobalEpoch = vaEpoch
    /\ walk = [c \in VCPUs |-> NoWalk]
    /\ fault = [c \in VCPUs |-> [pending |-> FALSE, reported |-> FALSE]]
    /\ swift = [c \in VCPUs |-> InitialRegisters]
    /\ banks = [c \in VCPUs |-> [b \in {0, 1} |-> 0]]
    /\ arch = [c \in VCPUs |-> InitialArch]
    /\ clock = 0
    /\ program \in Programs
    /\ issued = 0
    /\ owed = [c \in VCPUs |-> {}]

Next1(c, op) == program[c] # <<>> /\ Head(program[c]) = op /\ walk[c] = NoWalk
Consume(c) == program' = [program EXCEPT ![c] = Tail(@)]
-----------------------------------------------------------------------------
(* One CPU's translation state, as a record that the operators transform.  *)

Cache(c) ==
    [tlb |-> tlb[c], hot |-> hot[c], epoch |-> epoch[c], asid |-> asidEpoch[c], va |-> vaEpoch[c],
     all |-> vaAllEpoch[c], global |-> vaGlobalEpoch[c], observed |-> observed[c]]
Install(c, m) ==
    /\ tlb' = [tlb EXCEPT ![c] = m.tlb]
    /\ hot' = [hot EXCEPT ![c] = m.hot]
    /\ epoch' = [epoch EXCEPT ![c] = m.epoch]
    /\ asidEpoch' = [asidEpoch EXCEPT ![c] = m.asid]
    /\ vaEpoch' = [vaEpoch EXCEPT ![c] = m.va]
    /\ vaAllEpoch' = [vaAllEpoch EXCEPT ![c] = m.all]
    /\ vaGlobalEpoch' = [vaGlobalEpoch EXCEPT ![c] = m.global]
    /\ observed' = [observed EXCEPT ![c] = m.observed]

ClearHotTLBs(m) == [m EXCEPT !.hot = [k \in Kinds |-> {}]]
ClearTLBs(m) == [ClearHotTLBs(m) EXCEPT !.tlb = [k \in Kinds |-> {}]]

\* The sizes a leaf may cover: a page, a contiguous group, a block.
Sizes == {1, 2, 3}
Extent(page, size) == page \div (CASE size = 1 -> 1 [] size = 2 -> GroupPages [] size = 3 -> BlockPages)
\* avz_tlbi_va_slot: extents share slots.
VASlot(page, size, asid) == (Extent(page, size) + 2 * asid + size) % VASlots

Stamp(table, slots, e) == [s \in DOMAIN table |-> IF s \in slots THEN e ELSE table[s]]

\* The private epoch wraps to 1 and takes every table and entry with it.
AdvanceEpoch(m) ==
    LET h == ClearHotTLBs(m)
        zero(t) == [s \in DOMAIN t |-> 0]
    IN IF m.epoch + 1 = EpochLimit
       THEN [ClearTLBs(h) EXCEPT !.epoch = 1, !.asid = zero(@), !.va = zero(@),
                                 !.all = zero(@), !.global = zero(@)]
       ELSE [h EXCEPT !.epoch = @ + 1]

ApplyTLBIEntries(m, inv) ==
    LET n == AdvanceEpoch(m)
        slots(asid) == {VASlot(inv.page, s, asid) : s \in Sizes}
    IN CASE inv.kind = "all" -> ClearTLBs(m)
         [] inv.kind = "asid" -> [n EXCEPT !.asid[inv.asid] = n.epoch]
         [] inv.kind = "vaAllAsids" -> [n EXCEPT !.all = Stamp(@, slots(0), n.epoch)]
         [] inv.kind = "va" -> [n EXCEPT !.global = Stamp(@, slots(0), n.epoch),
                                         !.va = Stamp(@, slots(inv.asid), n.epoch)]

\* Mutant of EntryIsStale: an address invalidation with an ASID misses the
\* global mappings of the address.
StaleUnlessGlobal(m, e) ==
    \/ e.size = 0
    \/ m.all[VASlot(e.page, e.size, 0)] > e.epoch
    \/ ~e.global /\ (m.asid[e.asid] > e.epoch \/ m.va[VASlot(e.page, e.size, e.asid)] > e.epoch)

\* revalidate_tlb_entry, for an entry of an older epoch.
EntryIsStale(m, e) ==
    \/ e.size = 0
    \/ m.all[VASlot(e.page, e.size, 0)] > e.epoch
    \/ e.global /\ m.global[VASlot(e.page, e.size, 0)] > e.epoch
    \/ ~e.global /\ (m.asid[e.asid] > e.epoch \/ m.va[VASlot(e.page, e.size, e.asid)] > e.epoch)
IsCurrent(m, asid, e) ==
    (e.global \/ e.asid = asid) /\ (e.epoch = m.epoch \/ ~EntryIsStale(m, e))

\* Synchronising: the journal from the observed epoch on, or everything when
\* it no longer reaches back that far.
Pending(from) ==
    IF sharedEpoch - from > JournalCount THEN <<EmptyEntry>>
    ELSE [i \in 1 .. sharedEpoch - from |-> journal[(from + i) % JournalCount]]
SynchronizeShared(m) ==
    LET pending == Pending(m.observed)
        after[i \in 0 .. Len(pending)] ==
            IF i = 0 THEN m
            ELSE IF \E j \in 1 .. i - 1 : pending[j].kind = "all" THEN after[i - 1]
            ELSE ApplyTLBIEntries(after[i - 1], pending[i])
    IN [after[Len(pending)] EXCEPT !.observed = sharedEpoch]
-----------------------------------------------------------------------------
(* Contexts.                                                               *)

\* Mutant of ContextTag: the exception level is left out.
TagWithoutLevel(s, el, page) ==
    [mmu |-> s.mmu, root |-> IF page \in HighPages THEN s.ttbr1 ELSE s.ttbr0]

\* The tag of an address: control registers, its table base and the
\* exception level, but not the ASID.
ContextTag(s, el, page) ==
    [mmu |-> s.mmu, root |-> IF page \in HighPages THEN s.ttbr1 ELSE s.ttbr0, level |-> el]

\* A new ASID empties the hot copies, which carry none.
RefreshContextTags(m, old, new) == IF old.asid = new.asid THEN m ELSE ClearHotTLBs(m)

\* set_stage1_translation.
SetStage1Translation(c, s) ==
    /\ Next1(c, "context") /\ Consume(c)
    /\ stage' = [stage EXCEPT ![c] = s]
    /\ LET m == RefreshContextTags(Cache(c), stage[c], s)
       IN Install(c, IF s.mmu # stage[c].mmu THEN ClearTLBs(m) ELSE m)
    /\ fault' = [fault EXCEPT ![c].pending = FALSE]
    /\ UNCHANGED <<sharedVars, archVars, walk, clock>>

\* set_current_el: the tags change with the level; only the hot fetches go.
SetCurrentEL(m, old, new) ==
    IF old.el = new.el THEN m ELSE [m EXCEPT !.hot["fetch"] = {}]
-----------------------------------------------------------------------------
(* Translating an access.                                                  *)

Matches(c, e, page) ==
    e.page = page /\ e.tag = ContextTag(stage[c], arch[c].pstate.el, page)
HotHits(c, m, kind, page) == {e \in m.hot[kind] : Matches(c, e, page)}

\* The search of a set: entries found stale are dropped, a current one is
\* brought up to the epoch and copied to the hot entries.
Candidates(c, m, kind, page) ==
    {e \in m.tlb[kind] : Matches(c, e, page) /\ (e.global \/ e.asid = stage[c].asid)}
Drop(m, kind, es) == [m EXCEPT !.tlb[kind] = @ \ es]
CopyHot(m, kind, e) == [m EXCEPT !.hot[kind] = {h \in @ : h.page # e.page} \cup {e}]

\* translate and translate_instruction up to the walk; a speculative check of
\* a decoded successor (mapping_is_current) takes the same way.
Translate(c, kind, page, speculative) ==
    /\ Next1(c, "access")
    /\ speculative => kind = "fetch"
    /\ LET m == SynchronizeShared(Cache(c))
           found == {e \in Candidates(c, m, kind, page) : IsCurrent(m, stage[c].asid, e)}
           stale == Candidates(c, m, kind, page) \ found
       IN IF HotHits(c, m, kind, page) # {}
          THEN Install(c, m) /\ Consume(c) /\ UNCHANGED walk
          ELSE \/ \E e \in found :
                    LET fresh == [e EXCEPT !.epoch = m.epoch]
                    IN /\ Install(c, CopyHot([Drop(m, kind, {e}) EXCEPT !.tlb[kind] = @ \cup {fresh}],
                                             kind, fresh))
                       /\ Consume(c) /\ UNCHANGED walk
               \/ /\ found = {}
                  /\ Install(c, Drop(m, kind, stale))
                  /\ walk' = [walk EXCEPT ![c] = [kind |-> kind, page |-> page, level |-> 0, spec |-> speculative]]
                  /\ UNCHANGED program
    /\ UNCHANGED <<sharedVars, stage, archVars, fault, clock>>

\* Alignment, size and permission checks of a leaf.
Permits(d, kind, el) ==
    /\ d.accessed
    /\ el = 0 => d.user
    /\ kind = "write" => ~d.readOnly
    /\ kind = "fetch" => IF el = 0 THEN ~d.uxn ELSE ~d.pxn

\* A new entry takes a free way or any of the set.
InstallEntry(c, e, kind) ==
    LET m == Cache(c)
    IN \E victim \in IF Cardinality(m.tlb[kind]) < Ways THEN {{}} ELSE {{v} : v \in m.tlb[kind]} :
          Install(c, CopyHot([Drop(m, kind, victim) EXCEPT !.tlb[kind] = @ \cup {e}], kind, e))

EndWalk(c) == walk' = [walk EXCEPT ![c] = NoWalk] /\ Consume(c)

\* A fault is reported to Swift, except for a speculative check, which also
\* leaves the pending flag as it was.
Stage1Fault(c) ==
    /\ fault' = [fault EXCEPT ![c] = IF walk[c].spec THEN @ ELSE [pending |-> TRUE, reported |-> TRUE]]
    /\ EndWalk(c)
    /\ UNCHANGED tlbVars

Leaf(c, d, size) ==
    LET w == walk[c]
        el == arch[c].pstate.el
        e == [page |-> w.page, tag |-> ContextTag(stage[c], el, w.page), asid |-> stage[c].asid,
              global |-> d.global, size |-> size, epoch |-> epoch[c], desc |-> d, level |-> el,
              born |-> issued]
    IN IF Permits(d, w.kind, el)
       THEN InstallEntry(c, e, w.kind) /\ EndWalk(c) /\ UNCHANGED fault
       ELSE Stage1Fault(c)

\* With translation off every address maps to itself.
WalkOff(c) ==
    /\ walk[c] # NoWalk /\ ~stage[c].mmu
    /\ LET w == walk[c]
           e == [page |-> w.page, tag |-> ContextTag(stage[c], arch[c].pstate.el, w.page),
                 asid |-> stage[c].asid, global |-> FALSE, size |-> 0, epoch |-> epoch[c],
                 desc |-> CHOOSE d \in Descriptors : TRUE, level |-> 1, born |-> issued]
       IN InstallEntry(c, e, w.kind)
    /\ EndWalk(c)
    /\ UNCHANGED <<sharedVars, stage, archVars, fault, clock>>

\* One level of avz_stage1_translate: read a descriptor, stop or descend.
\* The levels above the last are one; the last is level 1.
WalkLevel(c) ==
    /\ walk[c] # NoWalk /\ stage[c].mmu
    /\ \E d \in Descriptors :
        CASE d.type = "invalid" \/ (walk[c].level = 1 /\ d.type = "block") -> Stage1Fault(c)
          [] d.type = "block" /\ walk[c].level = 0 -> Leaf(c, d, 3)
          [] d.type = "table" /\ walk[c].level = 0 ->
                /\ walk' = [walk EXCEPT ![c].level = 1]
                /\ UNCHANGED <<tlbVars, fault, program>>
          [] d.type = "table" /\ walk[c].level = 1 -> Leaf(c, d, IF d.contiguous THEN 2 ELSE 1)
    /\ UNCHANGED <<sharedVars, stage, archVars, clock>>
-----------------------------------------------------------------------------
(* Invalidations.                                                          *)

\* What an encoding means: anything but the EL1 operations by address and
\* ASID is everything, everywhere.
DecodeTLBI(name, shareable, page, asid) ==
    CASE name \in {"va", "vaAllAsids"} -> [kind |-> name, page |-> page, asid |-> asid, broadcast |-> shareable]
      [] name = "asid" -> [EmptyEntry EXCEPT !.kind = name, !.asid = asid, !.broadcast = shareable]
      [] name = "all" -> [EmptyEntry EXCEPT !.broadcast = shareable]
      [] OTHER -> [EmptyEntry EXCEPT !.broadcast = TRUE]

\* publish_tlbi, under the publication lock.
Publish(inv) ==
    /\ journal' = [journal EXCEPT ![(sharedEpoch + 1) % JournalCount] = inv]
    /\ sharedEpoch' = sharedEpoch + 1

\* executeSystemMaintenanceInstruction: publish, then apply to the own cache.
ExecuteTLBI(c, name, shareable, page, asid) ==
    /\ Next1(c, "tlbi") /\ Consume(c)
    /\ LET inv == DecodeTLBI(name, shareable, page, asid)
       IN /\ IF inv.broadcast THEN Publish(inv) ELSE UNCHANGED <<journal, sharedEpoch>>
          /\ Install(c, ApplyTLBIEntries(Cache(c), inv))
          /\ issued' = issued + 1
          /\ owed' = [d \in VCPUs |-> IF inv.broadcast \/ d = c
                                     THEN owed[d] \cup {[n |-> issued + 1, tlbi |-> inv]} ELSE owed[d]]
    /\ fault' = [fault EXCEPT ![c].pending = FALSE]
    /\ UNCHANGED <<archVars, stage, walk, clock>>
-----------------------------------------------------------------------------
(* Registers, exceptions and time on one CPU.                              *)

\* A guest write to the live stack pointer, outside this module's code.
SetStackPointer(c, v) ==
    /\ Next1(c, "sp") /\ Consume(c)
    /\ arch' = [arch EXCEPT ![c].sp = v]
    /\ banks' = [banks EXCEPT ![c][arch[c].pstate.spsel] = v]
    /\ UNCHANGED <<sharedVars, tlbVars, swift, stage, walk, fault, clock>>

ReadRegister(c, r) ==
    /\ Next1(c, "mrs") /\ Consume(c)
    /\ arch' = [arch EXCEPT ![c] = ReadSystemRegister(@, r, clock).arch]
    /\ UNCHANGED <<sharedVars, tlbVars, swift, banks, stage, walk, fault, clock>>

WriteRegister(c, r, v) ==
    /\ Next1(c, "msr") /\ Consume(c)
    /\ arch' = [arch EXCEPT ![c] = WriteSystemRegister(@, r, v, clock)]
    /\ banks' = IF r = "sp_el0" THEN [banks EXCEPT ![c][0] = v] ELSE banks
    /\ UNCHANGED <<sharedVars, tlbVars, swift, stage, walk, fault, clock>>

Exception(c) ==
    /\ \/ Next1(c, "svc") /\ arch' = [arch EXCEPT ![c] = SynchronousException(@)]
       \/ Next1(c, "eret") /\ arch' = [arch EXCEPT ![c] = ExceptionReturn(@)]
    /\ Consume(c)
    /\ Install(c, SetCurrentEL(Cache(c), arch[c].pstate, arch'[c].pstate))
    /\ UNCHANGED <<sharedVars, swift, banks, stage, walk, fault, clock>>

\* A burst ends in state a: Swift copies the dirty registers, the next burst
\* loads them.
Reload(c, a) ==
    LET kept == GetArchitecturalState(a, swift[c])
    IN /\ swift' = [swift EXCEPT ![c] = kept]
       /\ arch' = [arch EXCEPT ![c] = SetArchitecturalState(a, kept)]
       /\ fault' = [fault EXCEPT ![c] = [pending |-> FALSE, reported |-> FALSE]]

NextBurst(c) ==
    /\ Next1(c, "burst") /\ Consume(c)
    /\ Reload(c, arch[c])
    /\ UNCHANGED <<sharedVars, tlbVars, banks, stage, walk, clock>>

\* The boundary between two blocks observes shootdowns and the timer; an
\* interrupt that is due ends the burst.
BlockBoundary(c) ==
    /\ Next1(c, "block") /\ Consume(c)
    /\ Install(c, SynchronizeShared(Cache(c)))
    /\ LET a == AdvanceTime(arch[c], 1, clock)
       IN IF InterruptDue(a) THEN Reload(c, a)
          ELSE arch' = [arch EXCEPT ![c] = a] /\ UNCHANGED <<swift, fault>>
    /\ UNCHANGED <<sharedVars, banks, stage, walk, clock>>

\* The host's clock moves, in a program that lets it.
Tick(c) ==
    /\ Next1(c, "tick") /\ Consume(c)
    /\ clock' = clock + 1
    /\ UNCHANGED <<sharedVars, tlbVars, archVars, stage, walk, fault>>
ProgramsDone ==
    /\ \A c \in VCPUs : program[c] = <<>> /\ walk[c] = NoWalk
    /\ UNCHANGED translationVars

SmallValues(r) == CASE r = "spsr" -> {[el |-> 0, spsel |-> 0, masked |-> FALSE], [el |-> 1, spsel |-> 1, masked |-> FALSE]}
                    [] r = "ctl" -> {[enabled |-> TRUE, imask |-> FALSE]}
                    [] OTHER -> {1, Modulus(ValueBits) - 1}

TranslationNext ==
    \/ \E c \in VCPUs, kind \in Kinds, page \in VirtualPages, spec \in BOOLEAN : Translate(c, kind, page, spec)
    \/ \E c \in VCPUs : WalkOff(c) \/ WalkLevel(c) \/ Exception(c) \/ BlockBoundary(c) \/ NextBurst(c) \/ Tick(c)
    \/ \E c \in VCPUs, s \in Stages : SetStage1Translation(c, s)
    \/ \E c \in VCPUs, name \in TLBIKinds \cup {"range"}, shareable \in BOOLEAN, page \in VirtualPages, asid \in ASIDs :
            ExecuteTLBI(c, name, shareable, page, asid)
    \/ \E c \in VCPUs, v \in {1, 2} : SetStackPointer(c, v)
    \/ \E c \in VCPUs, r \in Registers \cup {"tval", "counter"} : ReadRegister(c, r)
    \/ \E c \in VCPUs, r \in (Registers \ {"sp_el1"}) \cup {"tval"} : \E v \in SmallValues(r) : WriteRegister(c, r, v)
    \/ ProgramsDone

TranslationSpec == TranslationInit /\ [][TranslationNext]_translationVars
-----------------------------------------------------------------------------
(* Properties.                                                             *)

\* The entries that would translate the next access of c of this kind.
Hits(c, kind) ==
    LET m == Cache(c)
    IN {e \in m.hot[kind] : Matches(c, e, e.page)}
       \cup {e \in m.tlb[kind] : Matches(c, e, e.page) /\ IsCurrent(m, stage[c].asid, e)}

\* Does the architecture require the invalidation to remove the entry?
Covers(inv, e) ==
    /\ e.size # 0
    /\ inv.kind \in {"va", "vaAllAsids"} => Extent(inv.page, e.size) = Extent(e.page, e.size)
    /\ inv.kind = "asid" => ~e.global
    /\ inv.kind \in {"asid", "va"} => e.global \/ e.asid = inv.asid

\* Once a CPU has caught up with the journal, as every access first does, no
\* entry it can hit was read from the page tables before an invalidation that
\* covers it, in spite of hashed extents, a journal that has overflowed, a
\* wrapped epoch and walks that were under way when the invalidation came.
NoStaleHit ==
    \A c \in VCPUs : observed[c] = sharedEpoch =>
        \A kind \in Kinds : \A e \in Hits(c, kind), o \in owed[c] : Covers(o.tlbi, e) => e.born >= o.n

\* An entry that can be hit belongs to the address space in use and grants no
\* more than its descriptor grants at the present exception level, across
\* context switches, exceptions and returns.
HitsPermitted ==
    \A c \in VCPUs, kind \in Kinds : \A e \in Hits(c, kind) :
        /\ e.global \/ e.asid = stage[c].asid
        /\ stage[c].mmu => Permits(e.desc, kind, arch[c].pstate.el)

\* A hit is one the architecture allows now.
HitsAreCurrent == NoStaleHit /\ HitsPermitted

\* The stack pointer in use and the one that is banked are those of the
\* architecture, after any sequence of calls, returns, writes of SP_EL0 and
\* bursts.
StackPointersBanked ==
    \A c \in VCPUs :
        LET sel == arch[c].pstate.spsel
        IN /\ arch[c].sp = banks[c][sel]
           /\ arch[c].reg[IF sel = 0 THEN "sp_el1" ELSE "sp_el0"] = banks[c][1 - sel]

\* Whenever a burst ends, the dirty registers are all that Swift needs: apart
\* from the bank of the live stack pointer no change of native code is lost.
ExitLosesNothing ==
    \A c \in VCPUs :
        \A r \in Registers \ {IF arch[c].pstate.spsel = 0 THEN "sp_el0" ELSE "sp_el1"} :
            GetArchitecturalState(arch[c], swift[c])[r] = arch[c].reg[r]

\* Native code and Swift agree on the registers that both keep.
RegistersAgree == StackPointersBanked /\ ExitLosesNothing
==============================================================================
