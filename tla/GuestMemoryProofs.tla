--------------------------- MODULE GuestMemoryProofs ---------------------------
(***************************************************************************)
(* Proofs about GuestMemory for any number of virtual CPUs, device threads, *)
(* pages, stripes and exclusive slots, any ranges and any workloads.       *)
(***************************************************************************)
EXTENDS GuestMemory, WellFoundedInduction, TLAPS

-----------------------------------------------------------------------------
(* The scripts: where each kind of operation takes its stripes, stores,    *)
(* loads and advances the exclusive generations (0 where it does not).     *)

Kinds == CPUKinds \cup DeviceKinds
Writes == {"write", "writePair", "writeBytes", "fill"}
Noted == {"mapWrite", "hostWrite", "hostSpans"}
Ldxrs == {"ldxr", "ldxp", "slowLdxr"}
\* Operations without stripes and without a final unlock.
Bare == {"decode", "scan", "clear"}

Size(k) == IF k \in Writes \cup Noted \cup Stxrs \cup {"release16"} THEN 8
           ELSE IF k = "device" THEN 7
           ELSE IF k = "hot" THEN 6
           ELSE IF k \in Ldxrs THEN 5
           ELSE IF k \in Loads \cup {"mapRead", "snapshot", "acquire16", "dmaWrite", "rectWrite"} THEN 4
           ELSE IF k \in {"hotRead", "register"} THEN 3
           ELSE IF k \in {"dmaRead", "rectRead", "scan"} THEN 2 ELSE 1
LockAt(k) == IF k \in Ldxrs \cup Stxrs \cup {"register"} THEN 1
             ELSE IF k \in {"hot", "hotRead", "dmaWrite", "rectWrite", "dmaRead", "rectRead"} \cup Bare THEN 0 ELSE 2
StoreAt(k) == IF k \in Writes \cup Noted \cup Stxrs \cup {"device"} THEN 3
              ELSE IF k = "release16" THEN 7
              ELSE IF k = "hot" THEN 2
              ELSE IF k \in {"dmaWrite", "rectWrite"} THEN 1 ELSE 0
LoadAt(k) == IF k \in Ldxrs \cup Loads \cup {"mapRead", "snapshot", "acquire16"} THEN 3
             ELSE IF k = "hotRead" THEN 2
             ELSE IF k \in {"dmaRead", "rectRead"} THEN 1 ELSE 0
GensAt(k) == IF k \in Writes \cup Noted \cup Stxrs THEN 6
             ELSE IF k \in {"release16", "device"} THEN 5
             ELSE IF k \in {"dmaWrite", "rectWrite"} THEN 2 ELSE 0

Layout(k) ==
    /\ Len(Script[k]) = Size(k)
    /\ \A i \in 1..Size(k) :
        /\ Script[k][i] = "lock" <=> i = LockAt(k)
        /\ Script[k][i] = "store" <=> i = StoreAt(k)
        /\ Script[k][i] = "load" <=> i = LoadAt(k)
        /\ Script[k][i] = "gens" <=> i = GensAt(k)
        /\ Script[k][i] = "unlock" <=> i = Size(k) /\ k \notin Bare
        /\ Script[k][i] = "check" <=> i = 1 /\ k \in Writes
        /\ Script[k][i] = "readCheck" <=> i = 1 /\ k \in Loads \ {"readBytes"}
        /\ Script[k][i] = "spanCheck" <=> i = 1 /\ k = "readBytes"
        /\ Script[k][i] = "hotCheck" <=> i = 1 /\ k = "hot"
        /\ Script[k][i] = "hotReadCheck" <=> i = 1 /\ k = "hotRead"
        /\ Script[k][i] = "hotCommit" <=> i = 3 /\ k = "hot"
        /\ Script[k][i] = "observe" <=> i = 2 /\ k \in Ldxrs
        /\ Script[k][i] = "reserve" <=> i = 4 /\ k \in Ldxrs
        /\ Script[k][i] = "compare" <=> i = 2 /\ k \in Stxrs
        /\ Script[k][i] = "advance" <=> i = 1 /\ k = "scan"
        /\ Script[k][i] = "scan" <=> i = 2 /\ k = "scan"
        /\ Script[k][i] = "markCode" <=> k = "decode"
        /\ Script[k][i] = "clear" <=> k = "clear"
        /\ Script[k][i] # "idle"

\* Every script has the layout of the tables.
LEMMA Layouts == \A k \in Kinds : Layout(k)
<1> USE DEF Layout, Size, LockAt, StoreAt, LoadAt, GensAt, Writes, Noted, Ldxrs, Bare, Stxrs, Loads
<1>1. Layout("write")
  BY DEF Script, Write, Commit
<1>2. Layout("writePair")
  BY DEF Script, WritePair, Commit
<1>3. Layout("writeBytes")
  BY DEF Script, WriteBytes, Commit
<1>4. Layout("fill")
  BY DEF Script, Fill, Commit
<1>5. Layout("hot") /\ Layout("hotRead")
  <2>1. Layout("hot")
    BY DEF Script, TryWriteHot
  <2>2. Layout("hotRead")
    BY DEF Script, TryReadHot
  <2> QED
    BY <2>1, <2>2
<1>6. Layout("read") /\ Layout("readPair") /\ Layout("readBytes") /\ Layout("mapRead")
  <2>1. Layout("read")
    BY DEF Script, Read
  <2>2. Layout("readPair")
    BY DEF Script, ReadPair
  <2>3. Layout("readBytes")
    BY DEF Script, ReadBytes
  <2>4. Layout("mapRead")
    BY DEF Script, MapSpanRead
  <2> QED
    BY <2>1, <2>2, <2>3, <2>4
<1>7. Layout("mapWrite")
  BY DEF Script, MapSpanWrite, Commit
<1>8. Layout("ldxr") /\ Layout("ldxp") /\ Layout("slowLdxr")
  <2>1. Layout("ldxr")
    BY DEF Script, ExclusiveRead
  <2>2. Layout("ldxp")
    BY DEF Script, ExclusiveReadPair
  <2>3. Layout("slowLdxr")
    BY DEF Script, SlowExclusiveRead
  <2> QED
    BY <2>1, <2>2, <2>3
<1>9. Layout("stxr") 
  BY DEF Script, ExclusiveWrite, Commit
<1>10. Layout("stxp")
  BY DEF Script, ExclusiveWritePair, Commit
<1>11. Layout("slowStxr")
  BY DEF Script, SlowExclusiveWrite, Commit
<1>12. Layout("decode") /\ Layout("scan") /\ Layout("clear")
  <2>1. Layout("decode")
    BY DEF Script
  <2>2. Layout("scan")
    BY DEF Script
  <2>3. Layout("clear")
    BY DEF Script
  <2> QED
    BY <2>1, <2>2, <2>3
<1>13. Layout("hostWrite")
  BY DEF Script, HostWrite, Commit
<1>14. Layout("hostSpans")
  BY DEF Script, HostWriteSpans, Commit
<1>15. Layout("snapshot") /\ Layout("acquire16") /\ Layout("release16")
  <2>1. Layout("snapshot")
    BY DEF Script, Snapshot
  <2>2. Layout("acquire16")
    BY DEF Script, LoadAcquire
  <2>3. Layout("release16")
    BY DEF Script, StoreRelease
  <2> QED
    BY <2>1, <2>2, <2>3
<1>16. Layout("device") /\ Layout("register")
  <2>1. Layout("device")
    BY DEF Script, DeviceWrite
  <2>2. Layout("register")
    BY DEF Script, RegisterHostRange
  <2> QED
    BY <2>1, <2>2
<1>17. Layout("dmaWrite") /\ Layout("rectWrite") /\ Layout("dmaRead") /\ Layout("rectRead")
  <2>1. Layout("dmaWrite")
    BY DEF Script, DMAWrite, DMARead, DMARect
  <2>2. Layout("rectWrite")
    BY DEF Script, DMAWrite, DMARead, DMARect
  <2>3. Layout("dmaRead")
    BY DEF Script, DMAWrite, DMARead, DMARect
  <2>4. Layout("rectRead")
    BY DEF Script, DMAWrite, DMARead, DMARect
  <2> QED
    BY <2>1, <2>2, <2>3, <2>4
<1> HIDE DEF Layout, Size, LockAt, StoreAt, LoadAt, GensAt
<1> QED
  BY <1>1, <1>2, <1>3, <1>4, <1>5, <1>6, <1>7, <1>8, <1>9, <1>10, <1>11, <1>12, <1>13, <1>14, <1>15,
     <1>16, <1>17 DEF Kinds, CPUKinds, DeviceKinds

\* A set of naturals that is not empty has a lowest member.
LEMMA LowestIsMember ==
    ASSUME NEW S \in SUBSET Nat, S # {}
    PROVE  Lowest(S) \in S /\ \A t \in S : Lowest(S) <= t
<1> DEFINE less == {ss \in Nat \X Nat : ss[1] < ss[2]}
<1>1. PICK s \in S : \A t \in S : ~ (<<t, s>> \in less)
  <2>1. IsWellFoundedOn(less, Nat)
    BY NatLessThanWellFounded, Zenon DEF OpToRel
  <2> HIDE DEF less
  <2> QED
    BY <2>1, WFMin
<1>2. ASSUME NEW t \in S PROVE s <= t
  <2>1. <<t, s>> \in Nat \X Nat /\ <<t, s>>[1] = t /\ <<t, s>>[2] = s
    OBVIOUS
  <2>2. t < s => <<t, s>> \in less
    BY <2>1, Zenon
  <2> QED
    BY <1>1, <2>2
<1> QED
  BY <1>2 DEF Lowest

\* A bounded set of naturals that is not empty has a greatest member.
LEMMA GreatestIsMember ==
    ASSUME NEW S \in SUBSET Nat, S # {}, NEW n \in Nat, \A s \in S : s <= n
    PROVE  Greatest(S) \in S /\ \A t \in S : t <= Greatest(S)
<1> DEFINE T == {n - s : s \in S}
<1>1. T \in SUBSET Nat /\ T # {}
  <2>1. \A s \in S : n - s \in Nat
    OBVIOUS
  <2> QED
    BY <2>1
<1>2. PICK m \in T : \A t \in T : m <= t
  BY <1>1, LowestIsMember
<1>3. PICK s \in S : m = n - s
  BY <1>2
<1>4. ASSUME NEW t \in S PROVE t <= s
  <2>1. m <= n - t
    BY <1>2
  <2>2. s \in Nat /\ t \in Nat /\ n - s <= n - t
    BY <1>3, <2>1
  <2> QED
    BY <2>2
<1> QED
  BY <1>4 DEF Greatest
-----------------------------------------------------------------------------
(* Types.                                                                  *)

Operation ==
    [kind : Kinds \cup {"idle"}, at : Nat, gs : SUBSET Granules, todo : SUBSET Granules, want : SUBSET Stripes,
     rest : SUBSET Granules, epoch : Nat, observed : BOOLEAN, loaded : Seq(Granules \X Nat \X Nat \X Nat)]
\* An operation in progress is at a step of its script, has work left until it
\* is past its stores or loads, and spans to come only where it goes by spans.
\* A byte read checks spans that it has not put aside, until none is left.
OnScript(o) ==
    o.kind # "idle" =>
        /\ o.at \in 1..Size(o.kind)
        /\ o.kind # "readBytes" =>
            /\ o.gs # {} /\ o.todo \subseteq o.gs
            /\ o.at < StoreAt(o.kind) \/ o.at < LoadAt(o.kind) => o.todo = o.gs
        /\ o.at <= StoreAt(o.kind) \/ o.at <= LoadAt(o.kind) => o.todo # {}
        /\ o.kind = "readBytes" => o.rest \subseteq o.gs /\ (o.rest # {} <=> o.at = 1)
        /\ o.rest # {} => o.kind \in PageByPage \cup {"readBytes"}
\* What was seen is only copied here; the monitor's invariant says what it is.
IsReservation(r) ==
    r \in [valid : BOOLEAN, gs : SUBSET Granules, gen : Nat, seen : {r.seen}, firm : {r.firm}]

CounterTypes ==
    /\ version \in [Granules -> Nat] /\ hostVersion \in [Granules -> Nat] /\ firmVersion \in [Granules -> Nat]
    /\ flags \in [Pages -> SUBSET {"host", "bulk", "exclusive"}] /\ seenSlots \subseteq Slots
    /\ writeGen \in Nat /\ exGen \in [Slots -> 0..writeGen] /\ pageGen \in [Pages -> Nat]
    /\ codeEpoch \in Nat /\ codePages \subseteq Pages
DirtyTypes ==
    /\ curEpoch \in Nat /\ pageEpoch \in [Pages -> Nat] /\ dirtyHot \in [CPUs -> [Pages -> Nat]]
    /\ scanned \in Nat /\ due \subseteq Pages /\ overtaken \subseteq Pages
ProcessTypes ==
    /\ lock \in [Stripes -> Processes \cup {NoOne}]
    /\ op \in [Processes -> Operation]
    /\ \A p \in Processes : OnScript(op[p])
    /\ plan \in [Processes -> Seq(Kinds)]
    /\ rsv = [c \in CPUs |-> rsv[c]] /\ \A c \in CPUs : IsReservation(rsv[c])
MemoryTypes == CounterTypes /\ DirtyTypes /\ ProcessTypes

\* Pages, stripes and slots of granules.
LEMMA Geometry ==
    ASSUME NEW gs \in SUBSET Granules
    PROVE  PagesOf(gs) \subseteq Pages /\ StripesOf(gs) \subseteq Stripes /\ SlotsOf(gs) \subseteq Slots
<1>1. ASSUME NEW g \in gs PROVE g \div GranulesPerPage \in Pages
  BY GuestMemoryAssumption, SMTT(30) DEF Granules, Pages
<1>2. ASSUME NEW n \in Nat PROVE n % StripeCount \in Stripes /\ n % SlotCount \in Slots
  BY GuestMemoryAssumption DEF Stripes, Slots
<1> QED
  BY <1>1, <1>2 DEF PagesOf, StripesOf, SlotsOf, Granules, Pages

\* An operation that moves on within its script only changes its position.
LEMMA SkipMoves ==
    ASSUME NEW o \in Operation, o.kind # "idle", NEW n \in Nat, NEW at \in Nat, at = o.at + n, at <= Size(o.kind)
    PROVE  Skip(o, n) = [o EXCEPT !.at = at]
<1>1. Len(Script[o.kind]) = Size(o.kind)
  BY Layouts DEF Layout, Operation
<1> QED
  BY <1>1 DEF Skip, Operation, Size
-----------------------------------------------------------------------------
(* Where the steps are.                                                    *)

\* The steps at which a process can be, in terms of the tables.
LEMMA Places ==
    ASSUME MemoryTypes, NEW p \in Processes
    PROVE  /\ op[p].kind # "idle" => op[p].kind \in Kinds /\ op[p].at \in 1..Size(op[p].kind)
           /\ At(p, "idle") <=> op[p].kind = "idle"
           /\ \A s \in {"check", "readCheck", "spanCheck", "hotCheck", "hotReadCheck", "hotCommit", "note", "noteBulk", "lock",
                        "store", "load", "unlock", "observe", "reserve", "compare", "epoch", "mark", "gens", "code", "advance",
                        "scan", "markCode", "clear"} :
                At(p, s) <=> op[p].kind # "idle" /\ Script[op[p].kind][op[p].at] = s
           /\ op[p].kind # "idle" => Layout(op[p].kind)
<1> DEFINE k == op[p].kind
<1>1. op[p] \in Operation /\ OnScript(op[p])
  BY DEF MemoryTypes, ProcessTypes
<1>2. CASE k = "idle"
  BY <1>2 DEF At, StepOf
<1>3. CASE k # "idle"
  <2>1. k \in Kinds /\ Layout(k)
    BY <1>1, <1>3, Layouts DEF Operation
  <2>2. op[p].at \in 1..Size(k)
    BY <1>1, <1>3 DEF OnScript
  <2> QED
    BY <2>1, <2>2, <1>3 DEF At, StepOf, Layout
<1> QED
  BY <1>2, <1>3

\* Every operation with a final unlock reaches it: a step before it is not the
\* last one.
LEMMA NotLast ==
    ASSUME MemoryTypes, NEW p \in Processes, op[p].kind \notin Bare, op[p].kind # "idle", ~At(p, "unlock")
    PROVE  op[p].at + 1 <= Size(op[p].kind)
  BY Places DEF Layout

\* m is the operation o, n steps further on.
MovedOn(m, o, n) ==
    /\ m \in Operation
    /\ m.kind = o.kind /\ m.at = o.at + n /\ m.gs = o.gs /\ m.todo = o.todo /\ m.want = o.want
    /\ m.rest = o.rest /\ m.epoch = o.epoch /\ m.observed = o.observed /\ m.loaded = o.loaded

\* An operation on its script moves on by n steps.
LEMMA Moves ==
    ASSUME NEW o \in Operation, o.kind # "idle", NEW n \in {1, 2}, o.at >= 1, o.at + n <= Size(o.kind)
    PROVE  MovedOn(Skip(o, n), o, n)
<1> DEFINE at == o.at + n
           m == [o EXCEPT !.at = at]
<1>1. at \in Nat /\ at \in 1..Size(o.kind)
  BY DEF Operation, Size
<1>2. Skip(o, n) = m
  BY <1>1, SkipMoves
<1> HIDE DEF at
<1>3. m \in Operation /\ m.kind = o.kind /\ m.at = at /\ m.gs = o.gs /\ m.todo = o.todo /\ m.want = o.want
      /\ m.rest = o.rest /\ m.epoch = o.epoch /\ m.observed = o.observed /\ m.loaded = o.loaded
  BY <1>1 DEF Operation
<1> HIDE DEF m
<1> QED
  BY <1>1, <1>2, <1>3 DEF MovedOn, at
-----------------------------------------------------------------------------
(* The steps that neither start nor end an operation, nor take a stripe.   *)

\* The operation has its stripes still to take.
ToLock(o) == o.kind # "idle" /\ (o.at <= LockAt(o.kind) \/ (o.kind \in {"hot", "hotRead"} /\ o.at = 1))
Locking == Kinds \ Bare
\* The operation of p becomes o, another step of it or of the complete path.
Becomes(p, o) ==
    /\ o \in Operation /\ OnScript(o)
    /\ op' = [op EXCEPT ![p] = o] /\ op'[p] = o
    /\ o.kind \in Locking /\ op[p].kind \in Locking
    /\ o.gs = op[p].gs /\ o.want = op[p].want
    /\ ToLock(o) => ToLock(op[p])
    /\ ~(o.kind = "readBytes" /\ o.at = 1)
    /\ UNCHANGED <<lock, plan>>

\* The positions in the tables are numbers.
LEMMA Tables ==
    ASSUME NEW k
    PROVE  Size(k) \in 1..8 /\ LockAt(k) \in 0..2 /\ StoreAt(k) \in 0..7 /\ LoadAt(k) \in 0..3 /\ GensAt(k) \in 0..6
  BY DEF Size, LockAt, StoreAt, LoadAt, GensAt

\* The kinds of which an idle process and a scan are none.
LEMMA Strangers == "idle" \notin Locking /\ {"idle", "scan"} \cap (Ldxrs \cup Loads \cup Stxrs) = {}
  BY DEF Locking, Kinds, CPUKinds, DeviceKinds, Stxrs, Loads, Ldxrs

\* A process and its operation.
LEMMA Processing ==
    ASSUME MemoryTypes, NEW p \in Processes
    PROVE  /\ op \in [Processes -> Operation] /\ op[p] \in Operation /\ OnScript(op[p])
           /\ op[p].kind \in Kinds \cup {"idle"} /\ op[p].at \in Nat /\ op[p].gs \subseteq Granules
           /\ op[p].todo \subseteq Granules /\ op[p].want \subseteq Stripes /\ op[p].rest \subseteq Granules
           /\ op[p].epoch \in Nat
           /\ op[p].observed \in BOOLEAN
<1>1. op \in [Processes -> Operation] /\ OnScript(op[p])
  BY DEF MemoryTypes, ProcessTypes
<1> QED
  BY <1>1 DEF Operation

\* A step that changes nothing of the operation but its position and what the
\* type x says.
LEMMA StepsOn ==
    ASSUME MemoryTypes, NEW p \in Processes, op[p].kind \in Locking, NEW x \in Operation, NEW n \in {1, 2},
           x.kind = op[p].kind, x.at = op[p].at, x.gs = op[p].gs, x.want = op[p].want, x.todo = op[p].todo,
           x.rest = op[p].rest, ~(op[p].kind = "readBytes" /\ op[p].at = 1),
           x.at + n <= Size(x.kind), op' = [op EXCEPT ![p] = Skip(x, n)], UNCHANGED <<lock, plan>>
    PROVE  Becomes(p, Skip(x, n)) /\ MovedOn(Skip(x, n), x, n)
<1>1. op[p].kind # "idle" /\ x.at \in 1..Size(x.kind)
  BY Processing DEF Locking, Kinds, CPUKinds, DeviceKinds, Stxrs, Loads, OnScript
<1>2. MovedOn(Skip(x, n), x, n)
  BY <1>1, Moves
<1>3. op'[p] = Skip(x, n)
  BY Processing
<1>4. OnScript(Skip(x, n))
  BY <1>1, <1>2, Processing, Tables DEF OnScript, MovedOn
<1>5. (ToLock(Skip(x, n)) => ToLock(op[p])) /\ ~(Skip(x, n).kind = "readBytes" /\ Skip(x, n).at = 1)
  BY <1>1, <1>2, Tables DEF ToLock, MovedOn
<1> QED
  BY <1>2, <1>3, <1>4, <1>5 DEF Becomes, MovedOn

\* A store's check: on to the lock, or past it when nothing has observed its pages.
LEMMA CheckMoves ==
    ASSUME MemoryTypes, NEW p \in Processes, Check(p)
    PROVE  \E o : /\ Becomes(p, o)
                  /\ o.kind \in Writes /\ o.kind = op[p].kind /\ op[p].at = 1 /\ o.at \in {2, 3}
                  /\ RequiresSerialization(o.gs) => o.at = 2
                  /\ o.observed = Observed(o.gs) /\ o.todo = op[p].todo /\ o.loaded = op[p].loaded
                  /\ o.epoch = op[p].epoch
<1> DEFINE x == [op[p] EXCEPT !.observed = Observed(op[p].gs)]
<1>1. op[p].kind \in Writes /\ op[p].at = 1
  BY Places DEF Check, Layout
<1>2. Size(op[p].kind) = 8 /\ op[p].kind \in Locking
  BY <1>1 DEF Size, Locking, Kinds, Bare, Writes, CPUKinds
<1>3. /\ x \in Operation /\ x.kind = op[p].kind /\ x.at = op[p].at /\ x.gs = op[p].gs /\ x.want = op[p].want /\ x.rest = op[p].rest
      /\ x.observed = Observed(op[p].gs) /\ x.todo = op[p].todo /\ x.loaded = op[p].loaded /\ x.epoch = op[p].epoch
  BY Processing DEF Operation, Observed
<1>4. PICK n \in {1, 2} : /\ op' = [op EXCEPT ![p] = Skip(x, n)]
                          /\ RequiresSerialization(op[p].gs) => n = 1
                          /\ UNCHANGED <<lock, plan>>
  BY DEF Check, Advance
<1> HIDE DEF x
<1>5. x.at + n <= Size(x.kind)
  BY <1>1, <1>2, <1>3
<1>6. Becomes(p, Skip(x, n)) /\ MovedOn(Skip(x, n), x, n)
  <2>1. op[p].kind # "readBytes"
    BY <1>1 DEF Writes
  <2> QED
    BY <1>2, <1>3, <1>4, <1>5, <2>1, StepsOn
<1> QED
  BY <1>1, <1>3, <1>4, <1>6 DEF MovedOn

\* A load's check: what it found observed sends it to the lock.
LEMMA ReadCheckMoves ==
    ASSUME MemoryTypes, NEW p \in Processes, ReadCheck(p)
    PROVE  \E o : /\ Becomes(p, o)
                  /\ o.kind \in Loads \ {"readBytes"} /\ o.kind = op[p].kind /\ op[p].at = 1 /\ o.at \in {2, 3}
                  /\ o.observed => o.at = 2
                  /\ o.todo = op[p].todo /\ o.loaded = op[p].loaded /\ o.epoch = op[p].epoch
<1> DEFINE x == [op[p] EXCEPT !.observed = MayHaveObservation(op[p].gs, {"host"})]
<1>1. op[p].kind \in Loads \ {"readBytes"} /\ op[p].at = 1
  BY Places DEF ReadCheck, Layout
<1>2. Size(op[p].kind) = 4 /\ op[p].kind \in Locking
  BY <1>1 DEF Size, Locking, Kinds, Bare, Loads, CPUKinds, Writes, Noted, Stxrs, Ldxrs
<1>3. /\ x \in Operation /\ x.kind = op[p].kind /\ x.at = op[p].at /\ x.gs = op[p].gs /\ x.want = op[p].want /\ x.rest = op[p].rest
      /\ x.observed = MayHaveObservation(op[p].gs, {"host"}) /\ x.todo = op[p].todo /\ x.loaded = op[p].loaded
      /\ x.epoch = op[p].epoch
  BY Processing DEF Operation, MayHaveObservation
<1>4. PICK n \in {1, 2} : /\ op' = [op EXCEPT ![p] = Skip(x, n)]
                          /\ ReadNeedsLock(x.kind, x.gs) => n = 1
                          /\ UNCHANGED <<lock, plan>>
  BY DEF ReadCheck, Advance
<1> HIDE DEF x
<1>5. x.at + n <= Size(x.kind)
  BY <1>1, <1>2, <1>3
<1>6. Becomes(p, Skip(x, n)) /\ MovedOn(Skip(x, n), x, n)
  BY <1>1, <1>2, <1>3, <1>4, <1>5, StepsOn
<1> QED
  BY <1>1, <1>3, <1>4, <1>6 DEF MovedOn, ReadNeedsLock

\* A byte read is at its check where it begins.
LEMMA SpanChecks ==
    ASSUME MemoryTypes, NEW p \in Processes
    PROVE  At(p, "spanCheck") <=> op[p].kind = "readBytes" /\ op[p].at = 1
<1>1. /\ op[p].kind # "idle" => Layout(op[p].kind) /\ op[p].at \in 1..Size(op[p].kind)
      /\ At(p, "spanCheck") <=> op[p].kind # "idle" /\ Script[op[p].kind][op[p].at] = "spanCheck"
  BY Places
<1> QED
  BY <1>1 DEF Layout

\* Only decoding, scanning and clearing take no part in locking.
LEMMA LockingStep ==
    ASSUME MemoryTypes, NEW p \in Processes, op[p].kind # "idle",
           ~At(p, "markCode"), ~At(p, "clear"), ~At(p, "advance"), ~At(p, "scan")
    PROVE  op[p].kind \in Locking
  BY Places DEF Layout, Locking, Bare, Size, Writes, Noted, Stxrs, Ldxrs, Loads

\* A step that is not the last one and changes only the position.
LEMMA AdvanceFrom ==
    ASSUME MemoryTypes, NEW p \in Processes, op[p].kind \in Locking, ~At(p, "unlock"), ~At(p, "spanCheck"),
           op' = [op EXCEPT ![p] = Advance(op[p])], UNCHANGED <<lock, plan>>
    PROVE  \E o : Becomes(p, o) /\ MovedOn(o, op[p], 1)
<1>1. op[p].at + 1 <= Size(op[p].kind)
  BY NotLast DEF Locking, Kinds, CPUKinds, DeviceKinds, Stxrs, Loads
<1>2. ~(op[p].kind = "readBytes" /\ op[p].at = 1)
  BY SpanChecks
<1> QED
  BY <1>1, <1>2, Processing, StepsOn DEF Advance

\* Noting, observing, reserving, marking and the generations move on by one step.
LEMMA PlainMoves ==
    ASSUME MemoryTypes, NEW p \in Processes, Note(p) \/ Observe(p) \/ Reserve(p) \/ Mark(p) \/ Gens(p) \/ Code(p)
    PROVE  \E o : Becomes(p, o) /\ MovedOn(o, op[p], 1)
<1>1. /\ At(p, "note") \/ At(p, "noteBulk") \/ At(p, "observe") \/ At(p, "reserve") \/ At(p, "mark") \/ At(p, "gens")
         \/ At(p, "code")
      /\ op' = [op EXCEPT ![p] = Advance(op[p])] /\ UNCHANGED <<lock, plan>>
  BY DEF Note, Observe, Reserve, Mark, Gens, Code
<1>2. /\ op[p].kind # "idle"
      /\ ~At(p, "markCode") /\ ~At(p, "clear") /\ ~At(p, "advance") /\ ~At(p, "scan") /\ ~At(p, "unlock")
      /\ ~At(p, "spanCheck")
  BY <1>1 DEF At, StepOf
<1> QED
  BY <1>1, <1>2, LockingStep, AdvanceFrom

\* The first half of a mark remembers the epoch.
LEMMA EpochMoves ==
    ASSUME MemoryTypes, NEW p \in Processes, Epoch(p)
    PROVE  \E o : /\ Becomes(p, o)
                  /\ o.kind = op[p].kind /\ o.at = op[p].at + 1 /\ o.todo = op[p].todo
                  /\ o.epoch = curEpoch /\ o.observed = op[p].observed /\ o.loaded = op[p].loaded
<1> DEFINE x == [op[p] EXCEPT !.epoch = curEpoch]
<1>1. /\ At(p, "epoch") /\ op[p].kind # "idle"
      /\ ~At(p, "markCode") /\ ~At(p, "clear") /\ ~At(p, "advance") /\ ~At(p, "scan") /\ ~At(p, "unlock")
      /\ ~At(p, "spanCheck")
  BY DEF Epoch, At, StepOf
<1>2. op[p].kind \in Locking /\ op[p].at + 1 <= Size(op[p].kind)
  BY <1>1, LockingStep, NotLast DEF Locking
<1>3. /\ x \in Operation /\ x.kind = op[p].kind /\ x.at = op[p].at /\ x.gs = op[p].gs /\ x.want = op[p].want /\ x.rest = op[p].rest
      /\ x.observed = op[p].observed /\ x.todo = op[p].todo /\ x.loaded = op[p].loaded /\ x.epoch = curEpoch
  BY Processing DEF Operation, MemoryTypes, DirtyTypes
<1>4. op' = [op EXCEPT ![p] = Skip(x, 1)] /\ UNCHANGED <<lock, plan>>
  BY DEF Epoch, Advance
<1> HIDE DEF x
<1>5. Becomes(p, Skip(x, 1)) /\ MovedOn(Skip(x, 1), x, 1)
  BY <1>1, <1>2, <1>3, <1>4, SpanChecks, StepsOn
<1> QED
  BY <1>3, <1>5 DEF MovedOn

\* An inlined store goes on only where no flag is set.
LEMMA HotCheckMoves ==
    ASSUME MemoryTypes, NEW p \in Processes, HotCheck(p)
    PROVE  \E o : /\ Becomes(p, o)
                  /\ op[p].kind = "hot" /\ op[p].at = 1
                  /\ \/ o.kind = "write" /\ o.at = 1 /\ o.observed = op[p].observed
                     \/ /\ o.kind = "hot" /\ o.at = 2 /\ o.observed = Observed(o.gs)
                        /\ ~MayHaveObservation(o.gs, {"host", "bulk", "exclusive"})
                  /\ o.todo = op[p].todo /\ o.loaded = op[p].loaded /\ o.epoch = op[p].epoch
<1> DEFINE x == [op[p] EXCEPT !.observed = Observed(op[p].gs)]
           y == [op[p] EXCEPT !.kind = "write"]
<1>1. op[p].kind = "hot" /\ op[p].at = 1
  BY Places DEF HotCheck, Layout
<1>2. /\ Size("hot") = 6 /\ Size("write") = 8 /\ "hot" \in Locking /\ "write" \in Locking
      /\ LockAt("hot") = 0 /\ LockAt("write") = 2 /\ StoreAt("hot") = 2 /\ StoreAt("write") = 3 /\ LoadAt("write") = 0
  BY DEF Size, Locking, Kinds, Bare, Writes, CPUKinds, Noted, Stxrs, Ldxrs, Loads, LockAt, StoreAt, LoadAt
<1>3. CASE MayHaveObservation(op[p].gs, {"host", "bulk", "exclusive"})
  <2>1. op' = [op EXCEPT ![p] = y] /\ UNCHANGED <<lock, plan>>
    BY <1>3 DEF HotCheck
  <2>2. /\ y \in Operation /\ y.kind = "write" /\ y.at = op[p].at /\ y.gs = op[p].gs /\ y.want = op[p].want /\ y.rest = op[p].rest
        /\ y.observed = op[p].observed /\ y.todo = op[p].todo /\ y.loaded = op[p].loaded /\ y.epoch = op[p].epoch
    BY Processing, <1>2 DEF Operation, Locking
  <2> HIDE DEF y
  <2>3. op'[p] = y
    BY <2>1, Processing
  <2>4. OnScript(y) /\ ToLock(op[p])
    BY <1>1, <1>2, <2>2, Processing DEF OnScript, ToLock, PageByPage
  <2> QED
    BY <1>1, <1>2, <2>1, <2>2, <2>3, <2>4 DEF Becomes
<1>4. CASE ~MayHaveObservation(op[p].gs, {"host", "bulk", "exclusive"})
  <2>1. op' = [op EXCEPT ![p] = Skip(x, 1)] /\ UNCHANGED <<lock, plan>>
    BY <1>4 DEF HotCheck, Advance
  <2>2. /\ x \in Operation /\ x.kind = op[p].kind /\ x.at = op[p].at /\ x.gs = op[p].gs /\ x.want = op[p].want /\ x.rest = op[p].rest
        /\ x.observed = Observed(op[p].gs) /\ x.todo = op[p].todo /\ x.loaded = op[p].loaded /\ x.epoch = op[p].epoch
    BY Processing DEF Operation, Observed
  <2> HIDE DEF x
  <2>3. x.at + 1 <= Size(x.kind) /\ op[p].kind \in Locking
    BY <1>1, <1>2, <2>2
  <2>4. Becomes(p, Skip(x, 1)) /\ MovedOn(Skip(x, 1), x, 1)
    BY <1>1, <2>1, <2>2, <2>3, StepsOn
  <2> QED
    BY <1>1, <1>4, <2>2, <2>4 DEF MovedOn
<1> QED
  BY <1>3, <1>4

\* An inlined load goes on, or becomes a complete one.
LEMMA HotReadCheckMoves ==
    ASSUME MemoryTypes, NEW p \in Processes, HotReadCheck(p)
    PROVE  \E o : /\ Becomes(p, o)
                  /\ op[p].kind = "hotRead" /\ op[p].at = 1
                  /\ (o.kind = "read" /\ o.at = 1) \/ (o.kind = "hotRead" /\ o.at = 2)
                  /\ o.observed = op[p].observed
                  /\ o.todo = op[p].todo /\ o.loaded = op[p].loaded /\ o.epoch = op[p].epoch
<1> DEFINE y == [op[p] EXCEPT !.kind = "read"]
<1>1. op[p].kind = "hotRead" /\ op[p].at = 1
  BY Places DEF HotReadCheck, Layout
<1>2. /\ Size("hotRead") = 3 /\ Size("read") = 4 /\ "hotRead" \in Locking /\ "read" \in Locking
      /\ LockAt("hotRead") = 0 /\ LockAt("read") = 2 /\ LoadAt("hotRead") = 2 /\ LoadAt("read") = 3 /\ StoreAt("read") = 0
  BY DEF Size, Locking, Kinds, Bare, Writes, CPUKinds, Noted, Stxrs, Ldxrs, Loads, LockAt, StoreAt, LoadAt
<1>3. CASE MayHaveObservation(op[p].gs, {"host"})
  <2>1. op' = [op EXCEPT ![p] = y] /\ UNCHANGED <<lock, plan>>
    BY <1>3 DEF HotReadCheck
  <2>2. /\ y \in Operation /\ y.kind = "read" /\ y.at = op[p].at /\ y.gs = op[p].gs /\ y.want = op[p].want /\ y.rest = op[p].rest
        /\ y.observed = op[p].observed /\ y.todo = op[p].todo /\ y.loaded = op[p].loaded /\ y.epoch = op[p].epoch
    BY Processing, <1>2 DEF Operation, Locking
  <2> HIDE DEF y
  <2>3. op'[p] = y
    BY <2>1, Processing
  <2>4. OnScript(y) /\ ToLock(op[p])
    BY <1>1, <1>2, <2>2, Processing DEF OnScript, ToLock, PageByPage
  <2> QED
    BY <1>1, <1>2, <2>1, <2>2, <2>3, <2>4 DEF Becomes
<1>4. CASE ~MayHaveObservation(op[p].gs, {"host"})
  <2>1. op' = [op EXCEPT ![p] = Skip(op[p], 1)] /\ UNCHANGED <<lock, plan>>
    BY <1>4 DEF HotReadCheck, Advance
  <2>2. op[p].at + 1 <= Size(op[p].kind) /\ op[p].kind \in Locking
    BY <1>1, <1>2
  <2>3. Becomes(p, Skip(op[p], 1)) /\ MovedOn(Skip(op[p], 1), op[p], 1)
    BY <1>1, <2>1, <2>2, Processing, StepsOn
  <2> QED
    BY <1>1, <2>3 DEF MovedOn
<1> QED
  BY <1>3, <1>4

\* An inlined store on a code page takes the complete commit.
LEMMA HotCommitMoves ==
    ASSUME MemoryTypes, NEW p \in Processes, HotCommit(p)
    PROVE  \E o : /\ Becomes(p, o)
                  /\ op[p].kind = "hot" /\ op[p].at = 3 /\ o.kind \in {"hot", "write"} /\ o.at = 4
                  /\ o.observed = op[p].observed
                  /\ o.todo = op[p].todo /\ o.loaded = op[p].loaded /\ o.epoch = op[p].epoch
<1> DEFINE y == [op[p] EXCEPT !.kind = "write", !.at = 4]
<1>1. op[p].kind = "hot" /\ op[p].at = 3
  BY Places DEF HotCommit, Layout
<1>2. /\ Size("hot") = 6 /\ Size("write") = 8 /\ "hot" \in Locking /\ "write" \in Locking
      /\ LockAt("write") = 2 /\ StoreAt("write") = 3 /\ LoadAt("write") = 0
  BY DEF Size, Locking, Kinds, Bare, Writes, CPUKinds, Noted, Stxrs, Ldxrs, Loads, LockAt, StoreAt, LoadAt
<1>3. CASE PagesOf(op[p].gs) \cap codePages # {}
  <2>1. Position("write", "epoch") = 4
    <3>1. Script["write"] = Write /\ Len(Write) = 8 /\ \A i \in 1..8 : Write[i] = "epoch" <=> i = 4
      BY DEF Script, Write, Commit
    <3> QED
      BY <3>1 DEF Position
  <2>2. op' = [op EXCEPT ![p] = y] /\ UNCHANGED <<lock, plan>>
    BY <1>3, <2>1 DEF HotCommit
  <2>3. /\ y \in Operation /\ y.kind = "write" /\ y.at = 4 /\ y.gs = op[p].gs /\ y.want = op[p].want /\ y.rest = op[p].rest
        /\ y.observed = op[p].observed /\ y.todo = op[p].todo /\ y.loaded = op[p].loaded /\ y.epoch = op[p].epoch
    BY Processing, <1>2 DEF Operation, Locking
  <2> HIDE DEF y
  <2>4. op'[p] = y
    BY <2>2, Processing
  <2>5. OnScript(y) /\ ~ToLock(y)
    BY <1>1, <1>2, <2>3, Processing DEF OnScript, ToLock, PageByPage
  <2> QED
    BY <1>1, <1>2, <2>2, <2>3, <2>4, <2>5 DEF Becomes
<1>4. CASE PagesOf(op[p].gs) \cap codePages = {}
  <2>1. op' = [op EXCEPT ![p] = Skip(op[p], 1)] /\ UNCHANGED <<lock, plan>>
    BY <1>4 DEF HotCommit, Advance
  <2>2. op[p].at + 1 <= Size(op[p].kind) /\ op[p].kind \in Locking
    BY <1>1, <1>2
  <2>3. Becomes(p, Skip(op[p], 1)) /\ MovedOn(Skip(op[p], 1), op[p], 1)
    BY <1>1, <2>1, <2>2, Processing, StepsOn
  <2> QED
    BY <1>1, <2>3 DEF MovedOn
<1> QED
  BY <1>3, <1>4

\* A comparison leads to the store or to the unlock.
LEMMA CompareMoves ==
    ASSUME MemoryTypes, NEW p \in Processes, Compare(p)
    PROVE  \E o : /\ Becomes(p, o)
                  /\ op[p].kind \in Stxrs /\ o.kind = op[p].kind /\ op[p].at = 2 /\ o.at \in {3, 8}
                  /\ o.at = 3 => ExclusiveGeneration(o.gs) = rsv[p].gen
                  /\ o.observed = op[p].observed
                  /\ o.todo = op[p].todo /\ o.loaded = op[p].loaded /\ o.epoch = op[p].epoch
<1> DEFINE last == Len(Script[op[p].kind])
           y == [op[p] EXCEPT !.at = last]
<1>1. op[p].kind \in Stxrs /\ op[p].at = 2
  BY Places DEF Compare, Layout
<1>2. /\ Size(op[p].kind) = 8 /\ op[p].kind \in Locking /\ op[p].kind # "idle" /\ op[p].kind \notin {"hot", "hotRead", "readBytes"}
      /\ LockAt(op[p].kind) = 1 /\ StoreAt(op[p].kind) = 3 /\ LoadAt(op[p].kind) = 0
  BY <1>1 DEF Size, Locking, Kinds, Bare, Writes, CPUKinds, Noted, Stxrs, Ldxrs, Loads, LockAt, StoreAt, LoadAt
<1>3. last = 8
  BY <1>2, Places DEF Layout
<1>4. CASE ExclusiveGeneration(op[p].gs) = rsv[p].gen
  <2>1. op' = [op EXCEPT ![p] = Skip(op[p], 1)] /\ UNCHANGED <<lock, plan>>
    BY <1>4 DEF Compare, Advance
  <2>2. op[p].at + 1 <= Size(op[p].kind) /\ op[p].kind \in Locking
    BY <1>1, <1>2
  <2>3. Becomes(p, Skip(op[p], 1)) /\ MovedOn(Skip(op[p], 1), op[p], 1)
    BY <1>2, <2>1, <2>2, Processing, StepsOn
  <2> QED
    BY <1>1, <1>4, <2>3 DEF MovedOn
<1>5. CASE ExclusiveGeneration(op[p].gs) # rsv[p].gen
  <2>1. op' = [op EXCEPT ![p] = y] /\ UNCHANGED <<lock, plan>>
    BY <1>5 DEF Compare
  <2> HIDE DEF last
  <2>2. /\ y \in Operation /\ y.kind = op[p].kind /\ y.at = 8 /\ y.gs = op[p].gs /\ y.want = op[p].want /\ y.rest = op[p].rest
        /\ y.observed = op[p].observed /\ y.todo = op[p].todo /\ y.loaded = op[p].loaded /\ y.epoch = op[p].epoch
    BY Processing, <1>3 DEF Operation
  <2> HIDE DEF y
  <2>3. op'[p] = y
    BY <2>1, Processing
  <2>4. OnScript(y) /\ ~ToLock(y)
    BY <1>1, <1>2, <2>2, Processing DEF OnScript, ToLock
  <2>5. Becomes(p, y)
    BY <1>2, <2>1, <2>2, <2>3, <2>4 DEF Becomes
  <2> QED
    BY <1>1, <2>2, <2>5
<1> QED
  BY <1>4, <1>5

\* The lowest granule that is left of an operation is one of its granules, and
\* unless it is a byte read one of its span.
LEMMA NextGranule ==
    ASSUME MemoryTypes, NEW p \in Processes, op[p].kind # "idle",
           op[p].at = StoreAt(op[p].kind) \/ op[p].at = LoadAt(op[p].kind)
    PROVE  /\ Lowest(op[p].todo) \in op[p].todo /\ Lowest(op[p].todo) \in Granules
           /\ op[p].kind # "readBytes" => Lowest(op[p].todo) \in op[p].gs
<1>1. op[p].todo # {} /\ (op[p].kind # "readBytes" => op[p].todo \subseteq op[p].gs) /\ op[p].todo \in SUBSET Granules
  BY Processing, Tables DEF OnScript
<1>2. op[p].todo \in SUBSET Nat
  BY <1>1 DEF Granules
<1> QED
  BY <1>1, <1>2, LowestIsMember

\* What a store or a load makes of the operation: o without the granule g.
LEMMA WorksOn ==
    ASSUME MemoryTypes, NEW p \in Processes, op[p].kind \in Locking, ~At(p, "unlock"), NEW o \in Operation,
           op[p].at = StoreAt(op[p].kind) \/ op[p].at = LoadAt(op[p].kind), NEW g \in op[p].todo,
           o.kind = op[p].kind, o.at = op[p].at, o.gs = op[p].gs, o.want = op[p].want, o.rest = op[p].rest,
           o.todo = op[p].todo \ {g},
           op' = [op EXCEPT ![p] = IF o.todo = {} THEN Advance(o) ELSE o], UNCHANGED <<lock, plan>>
    PROVE  /\ Becomes(p, op'[p])
           /\ op'[p].kind = o.kind /\ op'[p].todo = o.todo /\ op'[p].epoch = o.epoch /\ op'[p].observed = o.observed
           /\ op'[p].loaded = o.loaded /\ op'[p].at = IF o.todo = {} THEN o.at + 1 ELSE o.at
<1> DEFINE k == op[p].kind
<1>1. k # "idle" /\ op[p].at \in 1..Size(k) /\ op[p].at + 1 <= Size(k)
  BY Processing, NotLast DEF OnScript, Locking, Kinds, CPUKinds, DeviceKinds, Stxrs, Loads
<1>2. ~(StoreAt(k) > 0 /\ LoadAt(k) > 0) /\ StoreAt("readBytes") = 0 /\ LoadAt("readBytes") = 3
  BY DEF StoreAt, LoadAt, Writes, Noted, Stxrs, Ldxrs, Loads
<1>3. op'[p] = IF o.todo = {} THEN Skip(o, 1) ELSE o
  BY Processing DEF Advance
<1>4. ~(k = "readBytes" /\ op[p].at = 1)
  BY <1>1, <1>2
<1>5. CASE o.todo # {}
  <2>1. OnScript(o)
    BY <1>1, <1>2, <1>5, Processing, Tables DEF OnScript
  <2>2. ToLock(o) => ToLock(op[p])
    BY DEF ToLock
  <2>3. op'[p] = o /\ op' = [op EXCEPT ![p] = o]
    BY <1>3, <1>5
  <2>4. Becomes(p, o)
    BY <1>1, <1>4, <2>1, <2>2, <2>3 DEF Becomes
  <2> QED
    BY <1>5, <2>3, <2>4
<1>6. CASE o.todo = {}
  <2>1. MovedOn(Skip(o, 1), o, 1)
    BY <1>1, Moves
  <2>2. OnScript(Skip(o, 1))
    BY <1>1, <1>2, <1>6, <2>1, Processing, Tables DEF OnScript, MovedOn
  <2>3. ToLock(Skip(o, 1)) => ToLock(op[p])
    BY <1>1, <2>1, Tables DEF ToLock, MovedOn
  <2>4. op'[p] = Skip(o, 1) /\ op' = [op EXCEPT ![p] = Skip(o, 1)]
    BY <1>3, <1>6 DEF Advance
  <2> DEFINE m == Skip(o, 1)
  <2>5. m \in Operation /\ m.kind = k /\ m.gs = op[p].gs /\ m.want = op[p].want /\ m.at = op[p].at + 1
    BY <2>1 DEF MovedOn
  <2>6. /\ OnScript(m) /\ (ToLock(m) => ToLock(op[p])) /\ ~(m.kind = "readBytes" /\ m.at = 1)
        /\ op' = [op EXCEPT ![p] = m] /\ op'[p] = m
    <3>1. m.at # 1
      <4>1. op[p].at >= 1 /\ op[p].at \in Nat
        BY <1>1
      <4> HIDE DEF m
      <4> QED
        BY <2>5, <4>1
    <3> QED
      BY <2>2, <2>3, <2>4, <3>1
  <2> HIDE DEF m
  <2>7. Becomes(p, m)
    BY <2>5, <2>6 DEF Becomes
  <2> QED
    BY <1>6, <2>1, <2>6, <2>7 DEF MovedOn, m
<1> QED
  BY <1>5, <1>6

\* A store is done with one more granule, and with all of them moves on.
LEMMA StoreMoves ==
    ASSUME MemoryTypes, NEW p \in Processes, Store(p)
    PROVE  LET o == op'[p]
               g == Lowest(op[p].todo)
           IN /\ Becomes(p, o)
              /\ op[p].at = StoreAt(op[p].kind) /\ o.kind = op[p].kind /\ o.epoch = op[p].epoch
              /\ o.observed = op[p].observed /\ o.loaded = op[p].loaded
              /\ g \in op[p].todo /\ g \in op[p].gs /\ g \in Granules
              /\ o.todo = op[p].todo \ {g} /\ o.at = IF o.todo = {} THEN op[p].at + 1 ELSE op[p].at
<1> DEFINE g == Lowest(op[p].todo)
           x == [op[p] EXCEPT !.todo = op[p].todo \ {g}]
<1>1. op[p].kind # "idle" /\ op[p].at = StoreAt(op[p].kind) /\ op[p].kind \in Locking /\ ~At(p, "unlock")
  <2>1. op[p].kind # "idle" /\ ~At(p, "unlock") /\ ~At(p, "markCode") /\ ~At(p, "clear") /\ ~At(p, "advance") /\ ~At(p, "scan")
    BY DEF Store, At, StepOf
  <2>2. op[p].kind \in Locking
    BY <2>1, LockingStep
  <2>3. Script[op[p].kind][op[p].at] = "store" /\ op[p].at \in 1..Size(op[p].kind) /\ Layout(op[p].kind)
    BY <2>1, Places DEF Store
  <2> QED
    BY <2>1, <2>2, <2>3 DEF Layout
<1>2. g \in op[p].todo /\ g \in op[p].gs /\ g \in Granules
  <2>1. op[p].kind # "readBytes"
    <3>1. StoreAt("readBytes") = 0
      BY DEF StoreAt, Writes, Noted, Stxrs
    <3> QED
      BY <1>1, <3>1, Processing DEF OnScript
  <2> QED
    BY <1>1, <2>1, NextGranule
<1> HIDE DEF g
<1>3. /\ x \in Operation /\ x.kind = op[p].kind /\ x.at = op[p].at /\ x.gs = op[p].gs /\ x.want = op[p].want /\ x.rest = op[p].rest
      /\ x.observed = op[p].observed /\ x.todo = op[p].todo \ {g} /\ x.loaded = op[p].loaded /\ x.epoch = op[p].epoch
  BY Processing DEF Operation
<1>4. op' = [op EXCEPT ![p] = IF x.todo = {} THEN Advance(x) ELSE x] /\ UNCHANGED <<lock, plan>>
  BY DEF Store, g
<1> HIDE DEF x
<1> QED
  <2>1. /\ Becomes(p, op'[p])
        /\ op'[p].kind = x.kind /\ op'[p].todo = x.todo /\ op'[p].epoch = x.epoch /\ op'[p].observed = x.observed
        /\ op'[p].loaded = x.loaded /\ op'[p].at = IF x.todo = {} THEN x.at + 1 ELSE x.at
    BY <1>1, <1>2, <1>3, <1>4, WorksOn
  <2> QED
    BY <1>1, <1>2, <1>3, <2>1 DEF g

\* A load has one more granule, and with all of them moves on.
LEMMA LoadMoves ==
    ASSUME MemoryTypes, NEW p \in Processes, Load(p)
    PROVE  LET o == op'[p]
               g == Lowest(op[p].todo)
           IN /\ Becomes(p, o)
              /\ op[p].at = LoadAt(op[p].kind) /\ o.kind = op[p].kind /\ o.epoch = op[p].epoch
              /\ o.observed = op[p].observed
              /\ g \in op[p].todo /\ g \in Granules
              /\ o.loaded = Append(op[p].loaded, <<g, version[g], hostVersion[g], firmVersion[g]>>)
              /\ o.todo = op[p].todo \ {g} /\ o.at = IF o.todo = {} THEN op[p].at + 1 ELSE op[p].at
<1> DEFINE g == Lowest(op[p].todo)
           entry == <<g, version[g], hostVersion[g], firmVersion[g]>>
           loaded == Append(op[p].loaded, entry)
           x == [op[p] EXCEPT !.todo = op[p].todo \ {g}, !.loaded = loaded]
<1>1. op[p].kind # "idle" /\ op[p].at = LoadAt(op[p].kind) /\ op[p].kind \in Locking /\ ~At(p, "unlock")
  <2>1. op[p].kind # "idle" /\ ~At(p, "unlock") /\ ~At(p, "markCode") /\ ~At(p, "clear") /\ ~At(p, "advance") /\ ~At(p, "scan")
    BY DEF Load, At, StepOf
  <2>2. op[p].kind \in Locking
    BY <2>1, LockingStep
  <2>3. Script[op[p].kind][op[p].at] = "load" /\ op[p].at \in 1..Size(op[p].kind) /\ Layout(op[p].kind)
    BY <2>1, Places DEF Load
  <2> QED
    BY <2>1, <2>2, <2>3 DEF Layout
<1>2. g \in op[p].todo /\ g \in Granules
  BY <1>1, NextGranule
<1>3. entry \in Granules \X Nat \X Nat \X Nat
  <2>1. version[g] \in Nat /\ hostVersion[g] \in Nat /\ firmVersion[g] \in Nat
    BY <1>2 DEF MemoryTypes, CounterTypes
  <2> HIDE DEF g
  <2> QED
    BY <1>2, <2>1
<1> HIDE DEF g, entry
<1>4. loaded \in Seq(Granules \X Nat \X Nat \X Nat)
  <2>1. op[p].loaded \in Seq(Granules \X Nat \X Nat \X Nat)
    BY Processing DEF Operation
  <2> QED
    BY <1>3, <2>1
<1>5. op' = [op EXCEPT ![p] = IF x.todo = {} THEN Advance(x) ELSE x] /\ UNCHANGED <<lock, plan>>
  BY DEF Load, g, entry
<1> HIDE DEF loaded
<1>6. /\ x \in Operation /\ x.kind = op[p].kind /\ x.at = op[p].at /\ x.gs = op[p].gs /\ x.want = op[p].want /\ x.rest = op[p].rest
      /\ x.observed = op[p].observed /\ x.todo = op[p].todo \ {g} /\ x.loaded = loaded /\ x.epoch = op[p].epoch
  BY <1>4, Processing DEF Operation
<1> HIDE DEF x
<1>7. /\ Becomes(p, op'[p])
      /\ op'[p].kind = x.kind /\ op'[p].todo = x.todo /\ op'[p].epoch = x.epoch /\ op'[p].observed = x.observed
      /\ op'[p].loaded = x.loaded /\ op'[p].at = IF x.todo = {} THEN x.at + 1 ELSE x.at
  BY <1>1, <1>2, <1>5, <1>6, WorksOn
<1> QED
  BY <1>1, <1>2, <1>6, <1>7 DEF g, entry, loaded
-----------------------------------------------------------------------------
(* The steps that start and end an operation, or take a stripe.            *)

\* A process takes the lowest stripe it wants, and with the last one moves on.
LEMMA LockMoves ==
    ASSUME MemoryTypes, NEW p \in Processes, Lock(p)
    PROVE  LET o == op'[p]
               s == Lowest(op[p].want)
           IN /\ o \in Operation /\ OnScript(o) /\ op' = [op EXCEPT ![p] = o]
              /\ op[p].kind \in Locking /\ op[p].at = LockAt(op[p].kind) /\ o.kind = op[p].kind
              /\ o.gs = op[p].gs /\ o.todo = op[p].todo /\ o.epoch = op[p].epoch /\ o.observed = op[p].observed
              /\ o.loaded = op[p].loaded
              /\ o.want = op[p].want \ {s} /\ o.at = IF o.want = {} THEN op[p].at + 1 ELSE op[p].at
              /\ lock[s] = NoOne /\ lock' = [lock EXCEPT ![s] = p] /\ UNCHANGED plan
<1> DEFINE s == Lowest(op[p].want)
           x == [op[p] EXCEPT !.want = op[p].want \ {s}]
<1>1. op[p].kind # "idle" /\ op[p].at = LockAt(op[p].kind) /\ op[p].kind \in Locking /\ ~At(p, "unlock")
  <2>1. op[p].kind # "idle" /\ ~At(p, "unlock") /\ ~At(p, "markCode") /\ ~At(p, "clear") /\ ~At(p, "advance") /\ ~At(p, "scan")
    BY DEF Lock, At, StepOf
  <2>2. op[p].kind \in Locking
    BY <2>1, LockingStep
  <2>3. Script[op[p].kind][op[p].at] = "lock" /\ op[p].at \in 1..Size(op[p].kind) /\ Layout(op[p].kind)
    BY <2>1, Places DEF Lock
  <2>4. op[p].at = LockAt(op[p].kind)
    BY <2>3 DEF Layout
  <2> QED
    BY <2>1, <2>2, <2>4
<1>2. op' = [op EXCEPT ![p] = IF x.want = {} THEN Advance(x) ELSE x]
  BY DEF Lock, NextStripe
<1>3. lock[s] = NoOne /\ lock' = [lock EXCEPT ![s] = p] /\ UNCHANGED plan
  BY DEF Lock, NextStripe
<1> HIDE DEF s
<1>4. /\ x \in Operation /\ x.kind = op[p].kind /\ x.at = op[p].at /\ x.gs = op[p].gs /\ x.want = op[p].want \ {s} /\ x.rest = op[p].rest
      /\ x.observed = op[p].observed /\ x.todo = op[p].todo /\ x.loaded = op[p].loaded /\ x.epoch = op[p].epoch
  BY Processing DEF Operation
<1> HIDE DEF x
<1>5. op'[p] = IF x.want = {} THEN Skip(x, 1) ELSE x
  BY <1>2, Processing DEF Advance
<1>6. x.at \in 1..Size(x.kind) /\ x.at + 1 <= Size(x.kind)
  BY <1>1, <1>4, Processing, NotLast DEF OnScript, Locking
<1>7. CASE x.want # {}
  <2>1. OnScript(x)
    BY <1>4, Processing DEF OnScript
  <2> QED
    BY <1>1, <1>2, <1>3, <1>4, <1>5, <1>7, <2>1 DEF s
<1>8. CASE x.want = {}
  <2>1. MovedOn(Skip(x, 1), x, 1)
    BY <1>1, <1>4, <1>6, Moves
  <2>2. OnScript(Skip(x, 1))
    <3>1. op[p].kind = "readBytes" => op[p].at = 2
      BY <1>1 DEF LockAt, Ldxrs, Stxrs, Bare
    <3> QED
      BY <1>1, <1>4, <1>6, <2>1, <3>1, Processing, Tables DEF OnScript, MovedOn
  <2>3. op' = [op EXCEPT ![p] = Skip(x, 1)] /\ op'[p] = Skip(x, 1)
    BY <1>2, <1>5, <1>8 DEF Advance
  <2> DEFINE o == Skip(x, 1)
  <2>4. /\ o \in Operation /\ o.kind = op[p].kind /\ o.gs = op[p].gs /\ o.want = {} /\ o.todo = op[p].todo
        /\ o.epoch = op[p].epoch /\ o.observed = op[p].observed /\ o.loaded = op[p].loaded
        /\ o.at = op[p].at + 1
    BY <1>4, <1>8, <2>1 DEF MovedOn
  <2>5. o.want = op[p].want \ {s}
    BY <1>4, <1>8, <2>4
  <2> HIDE DEF o
  <2> QED
    BY <1>1, <1>3, <2>2, <2>3, <2>4, <2>5 DEF s, o
<1> QED
  BY <1>7, <1>8

\* The first span of a range is a part of it.
LEMMA FirstSpans ==
    ASSUME NEW range \in SUBSET Granules, range # {}
    PROVE  FirstSpan(range) # {} /\ FirstSpan(range) \subseteq range
<1>1. PagesOf(range) # {} /\ PagesOf(range) \in SUBSET Nat
  BY Geometry DEF PagesOf, Pages
<1>2. Lowest(PagesOf(range)) \in PagesOf(range)
  BY <1>1, LowestIsMember
<1> QED
  BY <1>2 DEF FirstSpan, PagesOf

\* A started operation is at its first step, with all the granules and stripes of
\* its first span to come.
LEMMA StartedIs ==
    ASSUME NEW k \in Kinds, NEW range \in SUBSET Granules, range # {}
    PROVE  LET o == Started(k, range)
           IN /\ o \in Operation /\ OnScript(o) /\ o.kind = k /\ o.at = 1
              /\ o.gs # {} /\ o.gs \subseteq Granules /\ (k \notin PageByPage => o.gs = range)
              /\ o.todo = o.gs /\ o.want = StripesOf(o.gs) /\ o.want # {}
              /\ o.loaded = <<>> /\ ~o.observed /\ o.epoch = 0
<1> DEFINE gs == IF k \in PageByPage THEN FirstSpan(range) ELSE range
           want == StripesOf(gs)
           rest == IF k = "readBytes" THEN range ELSE range \ gs
           x == [Idle EXCEPT !.kind = k, !.at = 1, !.gs = gs, !.todo = gs, !.want = want, !.rest = rest]
<1>1. gs # {} /\ gs \subseteq Granules
  BY FirstSpans
<1>2. want \subseteq Stripes /\ want # {}
  BY <1>1, Geometry DEF StripesOf, PagesOf
<1>3. /\ rest \subseteq Granules
      /\ k = "readBytes" => rest \subseteq gs /\ rest # {}
      /\ rest # {} => k \in PageByPage \cup {"readBytes"}
  BY DEF PageByPage
<1>4. Started(k, range) = x
  BY DEF Started
<1>5. k \notin PageByPage => gs = range
  OBVIOUS
<1> HIDE DEF gs, want, rest
<1>6. /\ x \in Operation /\ x.kind = k /\ x.at = 1 /\ x.gs = gs /\ x.todo = gs /\ x.want = want /\ x.rest = rest
      /\ x.loaded = <<>> /\ x.observed = FALSE /\ x.epoch = 0
  <2>1. Idle \in Operation
    BY DEF Idle, Operation
  <2>2. x \in Operation
    BY <1>1, <1>2, <1>3, <2>1 DEF Operation
  <2> QED
    BY <2>2 DEF Idle
<1> HIDE DEF x
<1>7. OnScript(x)
  BY <1>1, <1>3, <1>6, Tables DEF OnScript
<1> QED
  BY <1>1, <1>2, <1>4, <1>5, <1>6, <1>7 DEF want

\* A new operation is at its first step.
LEMMA BeginMoves ==
    ASSUME MemoryTypes, NEW p \in Processes, NEW gs \in Ranges, Begin(p, gs)
    PROVE  LET o == op'[p]
           IN /\ o \in Operation /\ OnScript(o) /\ op' = [op EXCEPT ![p] = o]
              /\ op[p].kind = "idle" /\ plan[p] # <<>> /\ o.kind = Head(plan[p]) /\ o.kind \in Kinds /\ o.at = 1
              /\ o.gs # {} /\ o.gs \subseteq Granules /\ (o.kind \notin PageByPage => o.gs = gs)
              /\ o.todo = o.gs /\ o.want = StripesOf(o.gs) /\ o.want # {}
              /\ o.loaded = <<>> /\ ~o.observed /\ o.epoch = 0
              /\ plan' = [plan EXCEPT ![p] = Tail(plan[p])] /\ plan' \in [Processes -> Seq(Kinds)]
              /\ UNCHANGED lock
<1> DEFINE k == Head(plan[p])
           x == Started(k, gs)
<1>1. gs # {} /\ gs \subseteq Granules
  BY GuestMemoryAssumption DEF Granules
<1>2. plan \in [Processes -> Seq(Kinds)] /\ plan[p] # <<>>
  BY DEF Begin, MemoryTypes, ProcessTypes
<1>3. k \in Kinds /\ Tail(plan[p]) \in Seq(Kinds)
  BY <1>2
<1>4. /\ op' = [op EXCEPT ![p] = x] /\ UNCHANGED lock /\ plan' = [plan EXCEPT ![p] = Tail(plan[p])]
      /\ op[p].kind = "idle"
  BY DEF Begin
<1>5. plan' \in [Processes -> Seq(Kinds)]
  BY <1>2, <1>3, <1>4
<1> HIDE DEF k
<1>6. /\ x \in Operation /\ OnScript(x) /\ x.kind = k /\ x.at = 1
      /\ x.gs # {} /\ x.gs \subseteq Granules /\ (k \notin PageByPage => x.gs = gs)
      /\ x.todo = x.gs /\ x.want = StripesOf(x.gs) /\ x.want # {}
      /\ x.loaded = <<>> /\ ~x.observed /\ x.epoch = 0
  BY <1>1, <1>3, StartedIs
<1> HIDE DEF x
<1>7. op'[p] = x
  BY <1>4, Processing
<1> QED
  BY <1>2, <1>3, <1>4, <1>5, <1>6, <1>7 DEF k

\* An operation that goes page by page gives its stripes back and starts its next
\* span.
NextSpan(p) == Unlock(p) /\ op[p].rest # {}
LEMMA NextSpanMoves ==
    ASSUME MemoryTypes, NEW p \in Processes, NextSpan(p)
    PROVE  LET o == op'[p]
           IN /\ o \in Operation /\ OnScript(o) /\ op' = [op EXCEPT ![p] = o]
              /\ op[p].kind \in PageByPage /\ o.kind = op[p].kind /\ o.at = 1
              /\ o.gs # {} /\ o.todo = o.gs /\ o.want = StripesOf(o.gs)
              /\ o.loaded = <<>> /\ ~o.observed /\ o.epoch = 0 /\ UNCHANGED plan
<1> DEFINE k == op[p].kind
           x == Started(k, op[p].rest)
<1>1. k \in PageByPage /\ k \in Kinds
  <2>1. At(p, "unlock") /\ k # "idle"
    BY DEF NextSpan, Unlock, At, StepOf
  <2>2. ~(k = "readBytes" /\ op[p].at = 1)
    BY <2>1, SpanChecks DEF At
  <2>3. k \in Kinds
    BY <2>1, Processing
  <2> QED
    BY <2>1, <2>2, <2>3, Processing DEF OnScript, NextSpan
<1>2. op' = [op EXCEPT ![p] = x] /\ UNCHANGED plan
  BY DEF NextSpan, Unlock
<1>3. op[p].rest \in SUBSET Granules /\ op[p].rest # {}
  BY Processing DEF NextSpan
<1>4. /\ x \in Operation /\ OnScript(x) /\ x.kind = k /\ x.at = 1 /\ x.gs # {} /\ x.todo = x.gs
      /\ x.want = StripesOf(x.gs) /\ x.loaded = <<>> /\ ~x.observed /\ x.epoch = 0
  BY <1>1, <1>3, StartedIs
<1> HIDE DEF x
<1>5. op'[p] = x
  BY <1>2, Processing
<1> QED
  BY <1>1, <1>2, <1>4, <1>5

\* A byte read puts aside a span that nothing observes, and after the last one
\* goes to the lock or, with nothing to lock, to the load.
LEMMA CheckSpansMoves ==
    ASSUME MemoryTypes, NEW p \in Processes, CheckSpans(p)
    PROVE  LET o == op'[p]
               x == op[p]
           IN /\ o \in Operation /\ OnScript(o) /\ op' = [op EXCEPT ![p] = o]
              /\ x.kind = "readBytes" /\ x.at = 1 /\ o.kind = "readBytes"
              /\ o.want = StripesOf(o.gs) /\ o.loaded = x.loaded /\ o.epoch = x.epoch
              /\ (o.at \in {1, 2} /\ o.gs # {}) \/ (o.at = 3 /\ ~o.observed)
              /\ UNCHANGED <<lock, plan>>
<1> DEFINE x == op[p]
           span == FirstSpan(x.rest)
           gs == IF MayHaveObservation(span, {"host"}) THEN x.gs ELSE x.gs \ span
           want == StripesOf(gs)
           observed == gs # {}
           rest == x.rest \ span
           y == [op[p] EXCEPT !.gs = gs, !.want = want, !.rest = rest, !.observed = observed]
<1>1. x.kind = "readBytes" /\ x.at = 1
  BY SpanChecks DEF CheckSpans
<1>2. Size("readBytes") = 4 /\ StoreAt("readBytes") = 0 /\ LoadAt("readBytes") = 3
  BY DEF Size, StoreAt, LoadAt, Writes, Noted, Stxrs, Ldxrs, Loads
<1>3. x.rest # {} /\ x.rest \subseteq x.gs /\ x.todo # {} /\ x.gs \subseteq Granules
  BY <1>1, <1>2, Processing DEF OnScript
<1>4. /\ gs \subseteq Granules /\ rest \subseteq gs /\ want \subseteq Stripes /\ observed \in BOOLEAN
      /\ rest \subseteq Granules
  <2>1. gs \subseteq Granules /\ rest \subseteq gs /\ observed \in BOOLEAN /\ rest \subseteq Granules
    BY <1>3
  <2> HIDE DEF gs
  <2> QED
    BY <2>1, Geometry
<1>5. /\ op' = [op EXCEPT ![p] = IF y.rest # {} THEN y ELSE IF gs # {} THEN Skip(y, 1) ELSE Skip(y, 2)]
      /\ UNCHANGED <<lock, plan>>
  BY DEF CheckSpans, Advance
<1>6. (observed <=> gs # {}) /\ want = StripesOf(gs)
  OBVIOUS
<1> HIDE DEF span, gs, want, observed, rest
<1>7. /\ y \in Operation /\ y.kind = "readBytes" /\ y.at = 1 /\ y.gs = gs /\ y.want = want /\ y.rest = rest
      /\ y.observed = observed /\ y.todo = x.todo /\ y.loaded = x.loaded /\ y.epoch = x.epoch
  BY <1>1, <1>4, Processing DEF Operation
<1> HIDE DEF y
<1>8. CASE rest # {}
  <2>1. op' = [op EXCEPT ![p] = y] /\ op'[p] = y
    BY <1>5, <1>7, <1>8, Processing
  <2>2. OnScript(y)
    BY <1>2, <1>3, <1>4, <1>7, <1>8 DEF OnScript
  <2> QED
    BY <1>1, <1>4, <1>5, <1>6, <1>7, <1>8, <2>1, <2>2
<1>9. ASSUME NEW n \in {1, 2}, rest = {}, op' = [op EXCEPT ![p] = Skip(y, n)], n = 1 <=> gs # {}
      PROVE  LET o == op'[p]
             IN /\ o \in Operation /\ OnScript(o) /\ op' = [op EXCEPT ![p] = o] /\ o.kind = "readBytes"
                /\ o.want = StripesOf(o.gs) /\ o.loaded = x.loaded /\ o.epoch = x.epoch
                /\ (o.at \in {1, 2} /\ o.gs # {}) \/ (o.at = 3 /\ ~o.observed)
  <2> DEFINE z == Skip(y, n)
  <2>1. MovedOn(z, y, n)
    BY <1>2, <1>7, Moves
  <2>2. op'[p] = z
    BY <1>9, Processing
  <2> HIDE DEF z
  <2>3. /\ z \in Operation /\ z.kind = "readBytes" /\ z.at = n + 1 /\ z.gs = gs /\ z.want = StripesOf(z.gs)
        /\ z.rest = {} /\ z.observed = observed /\ z.todo = x.todo /\ z.loaded = x.loaded /\ z.epoch = x.epoch
    BY <1>6, <1>7, <1>9, <2>1 DEF MovedOn
  <2>4. OnScript(z)
    BY <1>2, <1>3, <2>3 DEF OnScript
  <2>5. (z.at \in {1, 2} /\ z.gs # {}) \/ (z.at = 3 /\ ~z.observed)
    BY <1>6, <1>9, <2>3
  <2> QED
    BY <1>9, <2>2, <2>3, <2>4, <2>5
<1>10. CASE rest = {}
  <2>1. PICK n \in {1, 2} : op' = [op EXCEPT ![p] = Skip(y, n)] /\ (n = 1 <=> gs # {})
    <3>1. CASE gs # {}
      BY <1>5, <1>7, <1>10, <3>1
    <3>2. CASE gs = {}
      BY <1>5, <1>7, <1>10, <3>2
    <3> QED
      BY <3>1, <3>2
  <2> QED
    BY <1>1, <1>5, <1>9, <1>10, <2>1
<1> QED
  BY <1>8, <1>10

\* The steps between two spans.
Spans(p) == CheckSpans(p) \/ NextSpan(p)
LEMMA SpanMoves ==
    ASSUME MemoryTypes, NEW p \in Processes, Spans(p)
    PROVE  LET o == op'[p]
           IN /\ o \in Operation /\ OnScript(o) /\ op' = [op EXCEPT ![p] = o] /\ UNCHANGED plan
              /\ o.kind = op[p].kind /\ o.kind \in PageByPage \cup {"readBytes"} /\ o.want = StripesOf(o.gs)
              /\ (o.at \in {1, 2} /\ o.gs # {}) \/ (o.at = 3 /\ o.kind = "readBytes" /\ ~o.observed)
              /\ o.kind # "readBytes" => o.at = 1
              /\ o.epoch \in {0, op[p].epoch} /\ o.loaded \in {<<>>, op[p].loaded}
<1>1. CASE CheckSpans(p)
  BY <1>1, CheckSpansMoves
<1>2. CASE NextSpan(p)
  BY <1>2, NextSpanMoves
<1> QED
  BY <1>1, <1>2 DEF Spans

\* The steps that leave a process idle.
Ends(p) == (Unlock(p) /\ op[p].rest = {}) \/ MarkCodePage(p) \/ Scan(p) \/ ClearHostObservations(p)
LEMMA EndMoves ==
    ASSUME MemoryTypes, NEW p \in Processes, Ends(p)
    PROVE  /\ op' = [op EXCEPT ![p] = Idle] /\ op'[p] = Idle /\ Idle \in Operation /\ OnScript(Idle) /\ Idle.kind = "idle"
           /\ op[p].kind # "idle" /\ UNCHANGED plan
           /\ Unlock(p) \/ (op[p].kind \in Bare /\ UNCHANGED lock)
<1>1. Idle \in Operation /\ OnScript(Idle) /\ Idle.kind = "idle"
  BY DEF Idle, Operation, OnScript
<1>2. op' = [op EXCEPT ![p] = Idle] /\ UNCHANGED plan /\ op[p].kind # "idle"
  BY DEF Ends, Unlock, MarkCodePage, Scan, ClearHostObservations, At, StepOf
<1>3. ASSUME ~Unlock(p) PROVE op[p].kind \in Bare /\ UNCHANGED lock
  <2>1. /\ MarkCodePage(p) \/ Scan(p) \/ ClearHostObservations(p)
        /\ At(p, "markCode") \/ At(p, "scan") \/ At(p, "clear")
    BY <1>3 DEF Ends, MarkCodePage, Scan, ClearHostObservations
  <2>2. op[p].at \in 1..Size(op[p].kind) /\ Layout(op[p].kind)
    BY <1>2, Places
  <2>3. Script[op[p].kind][op[p].at] \in {"markCode", "scan", "clear"}
    BY <1>2, <2>1 DEF At, StepOf
  <2>4. op[p].kind \in Bare
    BY <2>2, <2>3 DEF Layout, Bare
  <2>5. UNCHANGED lock
    BY <2>1 DEF MarkCodePage, Scan, ClearHostObservations
  <2> QED
    BY <2>4, <2>5
<1> QED
  BY <1>1, <1>2, <1>3, Processing

\* A scan remembers the epoch it has closed.
LEMMA AdvanceDirtyMoves ==
    ASSUME MemoryTypes, NEW p \in Processes, AdvanceDirtyEpoch(p)
    PROVE  LET o == op'[p]
           IN /\ o \in Operation /\ OnScript(o) /\ op' = [op EXCEPT ![p] = o]
              /\ op[p].kind = "scan" /\ op[p].at = 1 /\ o.kind = "scan" /\ o.at = 2 /\ o.epoch = curEpoch
              /\ o.gs = op[p].gs /\ o.want = op[p].want /\ o.todo = op[p].todo /\ o.observed = op[p].observed
              /\ UNCHANGED <<lock, plan>>
<1> DEFINE x == [op[p] EXCEPT !.epoch = curEpoch]
<1>1. op[p].kind = "scan" /\ op[p].at = 1 /\ Size("scan") = 2 /\ StoreAt("scan") = 0 /\ LoadAt("scan") = 0
  <2>1. Size("scan") = 2 /\ StoreAt("scan") = 0 /\ LoadAt("scan") = 0
    BY DEF Size, StoreAt, LoadAt, Writes, Noted, Stxrs, Ldxrs, Loads
  <2>2. At(p, "advance")
    BY DEF AdvanceDirtyEpoch
  <2>3. /\ Script[op[p].kind][op[p].at] = "advance" /\ op[p].at \in 1..Size(op[p].kind)
        /\ Layout(op[p].kind)
    BY <2>2, Places
  <2>4. op[p].kind = "scan" /\ op[p].at = 1
    BY <2>3 DEF Layout
  <2> QED
    BY <2>1, <2>4
<1>2. op' = [op EXCEPT ![p] = Skip(x, 1)] /\ UNCHANGED <<lock, plan>>
  BY DEF AdvanceDirtyEpoch, Advance
<1>3. /\ x \in Operation /\ x.kind = op[p].kind /\ x.at = op[p].at /\ x.gs = op[p].gs /\ x.want = op[p].want /\ x.rest = op[p].rest
      /\ x.todo = op[p].todo /\ x.epoch = curEpoch /\ x.observed = op[p].observed
  BY Processing DEF Operation, MemoryTypes, DirtyTypes
<1> HIDE DEF x
<1>4. x.kind # "idle" /\ x.at + 1 <= Size(x.kind)
  BY <1>1, <1>3
<1>5. MovedOn(Skip(x, 1), x, 1)
  BY <1>1, <1>3, <1>4, Moves
<1>6. op'[p] = Skip(x, 1)
  BY <1>2, Processing
<1>7. OnScript(Skip(x, 1))
  BY <1>1, <1>3, <1>5, Processing DEF OnScript, MovedOn
<1> QED
  <2>1. op'[p] \in Operation /\ OnScript(op'[p]) /\ op' = [op EXCEPT ![p] = op'[p]]
    BY <1>2, <1>5, <1>6, <1>7 DEF MovedOn
  <2>2. /\ op'[p].kind = x.kind /\ op'[p].at = 2 /\ op'[p].epoch = x.epoch /\ op'[p].gs = x.gs /\ op'[p].want = x.want
        /\ op'[p].todo = x.todo /\ op'[p].observed = x.observed
    BY <1>1, <1>3, <1>5, <1>6 DEF MovedOn
  <2> QED
    BY <1>1, <1>2, <1>3, <2>1, <2>2

\* The steps that go on without taking or giving back a stripe.
Goes(p) ==
    \/ Check(p) \/ HotCheck(p) \/ ReadCheck(p) \/ HotReadCheck(p) \/ Note(p) \/ Store(p) \/ Load(p) \/ Observe(p)
    \/ Reserve(p) \/ Compare(p) \/ Epoch(p) \/ Mark(p) \/ Gens(p) \/ Code(p) \/ HotCommit(p)

\* The five kinds of steps.
LEMMA StepCases ==
    ASSUME NEW p \in Processes, Step(p)
    PROVE  Goes(p) \/ Ends(p) \/ Lock(p) \/ AdvanceDirtyEpoch(p) \/ Spans(p)
  BY DEF Step, Goes, Ends, Spans, NextSpan

\* Steps that go on keep the range and the stripes of their operation.
LEMMA GoesOn ==
    ASSUME MemoryTypes, NEW p \in Processes, Goes(p)
    PROVE  Becomes(p, op'[p])
<1>1. CASE Check(p)
  BY <1>1, CheckMoves DEF Becomes
<1>2. CASE HotCheck(p)
  BY <1>2, HotCheckMoves DEF Becomes
<1>3. CASE ReadCheck(p)
  BY <1>3, ReadCheckMoves DEF Becomes
<1>4. CASE HotReadCheck(p)
  BY <1>4, HotReadCheckMoves DEF Becomes
<1>5. CASE Note(p) \/ Observe(p) \/ Reserve(p) \/ Mark(p) \/ Gens(p) \/ Code(p)
  BY <1>5, PlainMoves DEF Becomes
<1>6. CASE Store(p) \/ Load(p)
  BY <1>6, StoreMoves, LoadMoves
<1>7. CASE Compare(p)
  BY <1>7, CompareMoves DEF Becomes
<1>8. CASE Epoch(p)
  BY <1>8, EpochMoves DEF Becomes
<1>9. CASE HotCommit(p)
  BY <1>9, HotCommitMoves DEF Becomes
<1> QED
  BY <1>1, <1>2, <1>3, <1>4, <1>5, <1>6, <1>7, <1>8, <1>9 DEF Goes

\* What a step of p makes of the operations and the locks.
LEMMA StepOps ==
    ASSUME MemoryTypes, NEW p \in Processes, Step(p)
    PROVE  /\ op' = [op EXCEPT ![p] = op'[p]] /\ op'[p] \in Operation /\ OnScript(op'[p])
           /\ UNCHANGED plan /\ op[p].kind # "idle"
           /\ lock' \in [Stripes -> Processes \cup {NoOne}]
<1>1. lock \in [Stripes -> Processes \cup {NoOne}]
  BY DEF MemoryTypes, ProcessTypes
<1>2. CASE Goes(p)
  BY <1>1, <1>2, GoesOn DEF Becomes, Locking, Kinds, CPUKinds, DeviceKinds, Stxrs, Loads
<1>3. CASE Ends(p)
  <2>1. lock' \in [Stripes -> Processes \cup {NoOne}]
    BY <1>1, <1>3, EndMoves DEF Ends, Unlock
  <2> QED
    BY <1>3, <2>1, EndMoves DEF Ends
<1>4. CASE Lock(p)
  <2>1. lock' \in [Stripes -> Processes \cup {NoOne}]
    BY <1>1, <1>4, LockMoves
  <2> QED
    BY <1>4, <2>1, LockMoves DEF Locking, Kinds, CPUKinds, DeviceKinds, Stxrs, Loads
<1>5. CASE AdvanceDirtyEpoch(p)
  BY <1>1, <1>5, AdvanceDirtyMoves
<1>6. CASE Spans(p)
  <2>1. lock' \in [Stripes -> Processes \cup {NoOne}]
    BY <1>1, <1>6 DEF Spans, NextSpan, CheckSpans, Unlock
  <2>2. op[p].kind # "idle"
    BY <1>6, SpanMoves DEF PageByPage
  <2> QED
    BY <1>6, <2>1, <2>2, SpanMoves
<1> QED
  BY <1>2, <1>3, <1>4, <1>5, <1>6, StepCases

\* The initial state is well typed.
LEMMA InitTypes == Init => MemoryTypes
<1> SUFFICES ASSUME Init PROVE MemoryTypes
  OBVIOUS
<1>1. CounterTypes
  BY DEF Init, CounterTypes
<1>2. DirtyTypes
  BY DEF Init, DirtyTypes
<1>3. op \in [Processes -> Operation] /\ \A p \in Processes : OnScript(op[p])
  BY DEF Init, Idle, Operation, OnScript
<1>4. rsv = [c \in CPUs |-> rsv[c]] /\ \A c \in CPUs : IsReservation(rsv[c])
  BY DEF Init, NoReservation, IsReservation
<1>5. plan \in [Processes -> Seq(Kinds)]
  BY WorkloadsAssumption DEF Init, Kinds
<1>6. lock \in [Stripes -> Processes \cup {NoOne}]
  BY DEF Init
<1> QED
  BY <1>1, <1>2, <1>3, <1>4, <1>5, <1>6 DEF MemoryTypes, ProcessTypes

\* The counters keep their types.
LEMMA StepCounters ==
    ASSUME MemoryTypes, NEW p \in Processes, Step(p)
    PROVE  CounterTypes'
<1> USE DEF MemoryTypes, CounterTypes, memVars, obsVars, genVars
<1>1. CASE Store(p)
  <2>1. Lowest(op[p].todo) \in Granules
    BY <1>1, StoreMoves
  <2> QED
    BY <1>1, <2>1 DEF Store
<1>2. CASE Note(p)
  BY <1>2 DEF Note
<1>3. CASE Observe(p)
  BY <1>3, Geometry, Processing DEF Observe
<1>4. CASE Gens(p)
  <2>1. PICK hit : writeGen' = (IF hit = {} THEN writeGen ELSE writeGen + 1)
                  /\ exGen' = [s \in Slots |-> IF s \in hit THEN writeGen + 1 ELSE exGen[s]]
    BY <1>4 DEF Gens
  <2>2. UNCHANGED <<memVars, obsVars, pageGen, codeEpoch, codePages>>
    BY <1>4 DEF Gens
  <2> QED
    BY <2>1, <2>2
<1>5. CASE Code(p)
  BY <1>5 DEF Code
<1>6. CASE MarkCodePage(p)
  BY <1>6, Geometry, Processing DEF MarkCodePage
<1>7. CASE ClearHostObservations(p)
  BY <1>7 DEF ClearHostObservations
<1>8. CASE Check(p) \/ HotCheck(p) \/ ReadCheck(p) \/ CheckSpans(p) \/ HotReadCheck(p) \/ Lock(p) \/ Unlock(p) \/ Load(p) \/ Reserve(p)
           \/ Compare(p) \/ Epoch(p) \/ Mark(p) \/ HotCommit(p) \/ AdvanceDirtyEpoch(p) \/ Scan(p)
  <2>1. UNCHANGED <<memVars, obsVars, genVars>>
    BY <1>8 DEF Check, HotCheck, ReadCheck, CheckSpans, HotReadCheck, Lock, Unlock, Load, Reserve, Compare, Epoch, Mark, HotCommit,
                AdvanceDirtyEpoch, Scan
  <2> QED
    BY <2>1
<1> QED
  BY <1>1, <1>2, <1>3, <1>4, <1>5, <1>6, <1>7, <1>8 DEF Step

\* The dirty tracking keeps its types.
LEMMA StepDirtyTypes ==
    ASSUME MemoryTypes, NEW p \in Processes, Step(p)
    PROVE  DirtyTypes'
<1> USE DEF MemoryTypes, DirtyTypes, dirtyVars
<1>1. CASE Mark(p)
  <2>1. PagesOf(op[p].gs) \subseteq Pages /\ op[p].epoch \in Nat
    BY Geometry, Processing
  <2> DEFINE pages == PagesOf(op[p].gs)
             stamped == {pg \in pages : ~HotCertified(p, pg)}
  <2>2. /\ pageEpoch' = [pg \in Pages |-> IF pg \in stamped THEN op[p].epoch ELSE pageEpoch[pg]]
        /\ dirtyHot' = IF KeepsHot(p)
                       THEN [dirtyHot EXCEPT ![p] = [pg \in Pages |-> IF pg \in pages THEN op[p].epoch ELSE @[pg]]]
                       ELSE dirtyHot
        /\ due' = due \cup pages /\ UNCHANGED <<curEpoch, scanned>>
        /\ overtaken' = IF op[p].epoch = curEpoch THEN overtaken \ stamped ELSE overtaken \cup pages
    BY <1>1 DEF Mark
  <2> HIDE DEF pages, stamped
  <2>3. pageEpoch' \in [Pages -> Nat]
    BY <2>1, <2>2
  <2>4. dirtyHot' \in [CPUs -> [Pages -> Nat]]
    <3>1. CASE KeepsHot(p)
      <4>1. p \in CPUs
        BY <3>1 DEF KeepsHot
      <4>2. [pg \in Pages |-> IF pg \in pages THEN op[p].epoch ELSE dirtyHot[p][pg]] \in [Pages -> Nat]
        BY <2>1, <4>1
      <4> QED
        BY <2>2, <3>1, <4>2
    <3> QED
      BY <2>2, <3>1
  <2> QED
    BY <2>1, <2>2, <2>3, <2>4 DEF pages
<1>2. CASE AdvanceDirtyEpoch(p)
  BY <1>2 DEF AdvanceDirtyEpoch
<1>3. CASE Scan(p)
  BY <1>3, Processing DEF Scan
<1>4. CASE ~Mark(p) /\ ~AdvanceDirtyEpoch(p) /\ ~Scan(p)
  <2>1. UNCHANGED dirtyVars
    <3>1. CASE Check(p) \/ HotCheck(p) \/ ReadCheck(p) \/ CheckSpans(p) \/ HotReadCheck(p) \/ Note(p) \/ Lock(p) \/ Unlock(p)
      BY <3>1, Zenon DEF Check, HotCheck, ReadCheck, CheckSpans, HotReadCheck, Note, Lock, Unlock, dirtyVars
    <3>2. CASE Store(p) \/ Load(p) \/ Observe(p) \/ Reserve(p) \/ Compare(p) \/ Epoch(p) \/ Gens(p)
      BY <3>2, Zenon DEF Store, Load, Observe, Reserve, Compare, Epoch, Gens, dirtyVars
    <3>3. CASE Code(p) \/ HotCommit(p) \/ MarkCodePage(p) \/ ClearHostObservations(p)
      BY <3>3, Zenon DEF Code, HotCommit, MarkCodePage, ClearHostObservations, dirtyVars
    <3> QED
      BY <1>4, <3>1, <3>2, <3>3 DEF Step
  <2> QED
    BY <2>1
<1> QED
  BY <1>1, <1>2, <1>3, <1>4

\* The generation of an exclusive access is the newest of its slots.
LEMMA GenerationOf ==
    ASSUME MemoryTypes, NEW gs \in SUBSET Granules, gs # {}
    PROVE  /\ ExclusiveGeneration(gs) \in Nat
           /\ \A s \in SlotsOf(gs) : exGen[s] <= ExclusiveGeneration(gs)
           /\ \E s \in SlotsOf(gs) : exGen[s] = ExclusiveGeneration(gs)
<1> DEFINE S == {exGen[s] : s \in SlotsOf(gs)}
<1>1. exGen \in [Slots -> 0..writeGen] /\ writeGen \in Nat
  BY DEF MemoryTypes, CounterTypes
<1>2. SlotsOf(gs) \subseteq Slots
  BY Geometry
<1>3. SlotsOf(gs) # {}
  BY DEF SlotsOf
<1>4. S \in SUBSET Nat /\ S # {} /\ \A g \in S : g <= writeGen
  BY <1>1, <1>2, <1>3
<1>5. Greatest(S) \in S /\ \A t \in S : t <= Greatest(S)
  BY <1>1, <1>4, GreatestIsMember
<1> QED
  BY <1>4, <1>5 DEF ExclusiveGeneration

\* Reservations keep their type.
LEMMA StepReservations ==
    ASSUME MemoryTypes, NEW p \in Processes, Step(p)
    PROVE  rsv' = [c \in CPUs |-> rsv'[c]] /\ \A c \in CPUs : IsReservation(rsv'[c])
<1>1. rsv = [c \in CPUs |-> rsv[c]] /\ \A c \in CPUs : IsReservation(rsv[c])
  BY DEF MemoryTypes, ProcessTypes
<1>2. CASE Reserve(p)
  <2>1. op[p].gs \in SUBSET Granules /\ op[p].gs # {}
    <3>1. op[p].kind # "idle" /\ Script[op[p].kind][op[p].at] = "reserve" /\ op[p].at \in 1..Size(op[p].kind)
          /\ Layout(op[p].kind)
      BY <1>2, Places DEF Reserve, At, StepOf
    <3>2. op[p].kind # "readBytes"
      BY <3>1 DEF Layout, Ldxrs
    <3> QED
      BY <3>1, <3>2, Processing DEF OnScript
  <2>2. ExclusiveGeneration(op[p].gs) \in Nat
    BY <2>1, GenerationOf
  <2>3. PICK seen, firm : rsv' = [rsv EXCEPT ![p] = [valid |-> TRUE, gs |-> op[p].gs,
                                     gen |-> ExclusiveGeneration(op[p].gs), seen |-> seen, firm |-> firm]]
    BY <1>2 DEF Reserve
  <2> QED
    BY <1>1, <2>1, <2>2, <2>3 DEF IsReservation
<1>3. CASE Compare(p)
  <2>1. rsv' = [rsv EXCEPT ![p].valid = FALSE]
    BY <1>3 DEF Compare
  <2>2. rsv' = [c \in CPUs |-> IF c = p THEN [rsv[c] EXCEPT !.valid = FALSE] ELSE rsv[c]]
    BY <1>1, <2>1
  <2>3. ASSUME NEW r, IsReservation(r) PROVE IsReservation([r EXCEPT !.valid = FALSE])
    BY <2>3 DEF IsReservation
  <2> QED
    BY <1>1, <2>2, <2>3
<1>4. CASE ~Reserve(p) /\ ~Compare(p)
  <2>1. UNCHANGED rsv
    BY <1>4 DEF Step, Check, HotCheck, ReadCheck, CheckSpans, HotReadCheck, Note, Lock, Unlock, Store, Load, Observe, AdvanceDirtyEpoch,
                Epoch, Mark, Gens, Code, HotCommit, MarkCodePage, ClearHostObservations, Scan
  <2> QED
    BY <1>1, <2>1
<1> QED
  BY <1>2, <1>3, <1>4

\* Every step keeps the types.
LEMMA StepTypes == MemoryTypes /\ [Next]_vars => MemoryTypes'
<1> SUFFICES ASSUME MemoryTypes, [Next]_vars PROVE MemoryTypes'
  OBVIOUS
<1>1. ASSUME NEW p \in Processes, NEW o \in Operation, OnScript(o), op' = [op EXCEPT ![p] = o]
      PROVE  op' \in [Processes -> Operation] /\ \A q \in Processes : OnScript(op'[q])
  <2>1. op \in [Processes -> Operation] /\ \A q \in Processes : OnScript(op[q])
    BY DEF MemoryTypes, ProcessTypes
  <2> QED
    BY <1>1, <2>1
<1>2. ASSUME NEW p \in Processes, NEW gs \in Ranges, Begin(p, gs) PROVE MemoryTypes'
  <2>1. op' \in [Processes -> Operation] /\ \A q \in Processes : OnScript(op'[q])
    BY <1>1, <1>2, BeginMoves
  <2>2. plan' \in [Processes -> Seq(Kinds)] /\ UNCHANGED lock
    BY <1>2, BeginMoves
  <2>3. UNCHANGED <<memVars, obsVars, genVars, dirtyVars, rsv>>
    BY <1>2 DEF Begin
  <2> QED
    BY <2>1, <2>2, <2>3 DEF MemoryTypes, CounterTypes, DirtyTypes, ProcessTypes, memVars, obsVars, genVars, dirtyVars
<1>3. ASSUME NEW p \in Processes, Step(p) PROVE MemoryTypes'
  <2>1. CounterTypes' /\ DirtyTypes'
    BY <1>3, StepCounters, StepDirtyTypes
  <2>2. op' \in [Processes -> Operation] /\ \A q \in Processes : OnScript(op'[q])
    BY <1>1, <1>3, StepOps
  <2>3. lock' \in [Stripes -> Processes \cup {NoOne}] /\ UNCHANGED plan
    BY <1>3, StepOps
  <2>4. rsv' = [c \in CPUs |-> rsv'[c]] /\ \A c \in CPUs : IsReservation(rsv'[c])
    BY <1>3, StepReservations
  <2> QED
    BY <2>1, <2>2, <2>3, <2>4 DEF MemoryTypes, ProcessTypes
<1>4. CASE UNCHANGED vars
  BY <1>4 DEF vars, MemoryTypes, CounterTypes, DirtyTypes, ProcessTypes, memVars, obsVars, genVars, dirtyVars
<1> QED
  BY <1>2, <1>3, <1>4 DEF Next, Done
-----------------------------------------------------------------------------
(* The lock stripes.                                                       *)

\* Who holds a stripe is between its lock and its unlock, and wants only higher ones.
HoldsAscending ==
    \A p \in Processes, s \in Stripes :
        lock[s] = p => /\ op[p].kind \in Locking /\ ~(op[p].kind = "readBytes" /\ op[p].at = 1)
                       /\ \A t \in op[p].want : s < t
\* Before its lock an operation wants a stripe; those of its range that it does
\* not want any more it holds.
WantsTheRest ==
    \A p \in Processes :
        /\ ToLock(op[p]) => op[p].want # {}
        /\ op[p].kind # "idle" => /\ op[p].want \subseteq StripesOf(op[p].gs)
                                  /\ \A s \in StripesOf(op[p].gs) \ op[p].want : lock[s] = p
LockInvariant == HoldsAscending /\ WantsTheRest

\* Initially nobody holds or wants a stripe.
LEMMA InitLocks == Init => LockInvariant
<1> SUFFICES ASSUME Init PROVE LockInvariant
  OBVIOUS
<1>1. \A p \in Processes : op[p].kind = "idle"
  BY DEF Init, Idle
<1>2. \A p \in Processes, s \in Stripes : lock[s] # p
  BY GuestMemoryAssumption DEF Init, Processes
<1> QED
  BY <1>1, <1>2 DEF LockInvariant, HoldsAscending, WantsTheRest, ToLock

\* Every step keeps the order of the stripes.
LEMMA StepLocks == MemoryTypes /\ LockInvariant /\ [Next]_vars => LockInvariant'
<1> SUFFICES ASSUME MemoryTypes, LockInvariant, [Next]_vars PROVE LockInvariant'
  OBVIOUS
<1>1. /\ op \in [Processes -> Operation] /\ lock \in [Stripes -> Processes \cup {NoOne}] /\ NoOne \notin Processes
      /\ "idle" \notin Kinds /\ "idle" \notin Locking /\ \A k \in Locking : k \notin Bare
  BY GuestMemoryAssumption DEF MemoryTypes, ProcessTypes, Processes, Kinds, CPUKinds, DeviceKinds, Stxrs, Loads, Locking
<1>2. ASSUME NEW p \in Processes, NEW gs \in Ranges, Begin(p, gs) PROVE LockInvariant'
  <2>1. /\ op[p].kind = "idle" /\ UNCHANGED lock /\ op' = [op EXCEPT ![p] = op'[p]]
        /\ op'[p].want = StripesOf(op'[p].gs) /\ op'[p].gs # {}
    BY <1>2, BeginMoves
  <2>2. StripesOf(op'[p].gs) # {}
    BY <2>1 DEF StripesOf, PagesOf
  <2>3. \A s \in Stripes : lock[s] # p
    BY <1>1, <2>1 DEF LockInvariant, HoldsAscending
  <2>4. \A q \in Processes \ {p} : op'[q] = op[q]
    BY <1>1, <2>1
  <2>5. HoldsAscending'
    BY <2>1, <2>3, <2>4 DEF LockInvariant, HoldsAscending
  <2>6. WantsTheRest'
    BY <2>1, <2>2, <2>4 DEF LockInvariant, WantsTheRest
  <2> QED
    BY <2>5, <2>6 DEF LockInvariant
<1>3. ASSUME NEW p \in Processes, Goes(p) PROVE LockInvariant'
  <2>1. Becomes(p, op'[p])
    BY <1>3, GoesOn
  <2>2. \A q \in Processes \ {p} : op'[q] = op[q]
    BY <1>1, <2>1 DEF Becomes
  <2> QED
    BY <1>1, <2>1, <2>2 DEF LockInvariant, HoldsAscending, WantsTheRest, Becomes
<1>4. ASSUME NEW p \in Processes, Ends(p) PROVE LockInvariant'
  <2>1. op' = [op EXCEPT ![p] = Idle] /\ op'[p] = Idle /\ Idle.kind = "idle"
    BY <1>4, EndMoves DEF Ends
  <2>2. \A q \in Processes \ {p} : op'[q] = op[q]
    BY <1>1, <2>1
  <2>3. \A s \in Stripes : /\ lock'[s] # p
                           /\ \A q \in Processes \ {p} : lock'[s] = q <=> lock[s] = q
    <3>1. CASE Unlock(p)
      BY <1>1, <3>1 DEF Unlock
    <3>2. CASE op[p].kind \in Bare /\ UNCHANGED lock
      BY <1>1, <3>2 DEF LockInvariant, HoldsAscending
    <3> QED
      BY <1>4, <3>1, <3>2, EndMoves DEF Ends
  <2>4. \A q \in Processes : op[q].kind # "idle" => StripesOf(op[q].gs) \subseteq Stripes
    BY Geometry, Processing
  <2> QED
    BY <2>1, <2>2, <2>3, <2>4 DEF LockInvariant, HoldsAscending, WantsTheRest, ToLock
<1>5. ASSUME NEW p \in Processes, Lock(p) PROVE LockInvariant'
  <2> DEFINE s == Lowest(op[p].want)
  <2>1. /\ op' = [op EXCEPT ![p] = op'[p]] /\ op[p].kind \in Locking /\ op[p].at = LockAt(op[p].kind)
        /\ op'[p].kind = op[p].kind /\ op'[p].gs = op[p].gs /\ op'[p].want = op[p].want \ {s}
        /\ op'[p].at = IF op'[p].want = {} THEN op[p].at + 1 ELSE op[p].at
        /\ lock[s] = NoOne /\ lock' = [lock EXCEPT ![s] = p]
    BY <1>5, LockMoves
  <2>2. \A q \in Processes \ {p} : op'[q] = op[q]
    BY <1>1, <2>1
  <2>3. /\ op[p].at \in Nat /\ op[p].at >= 1 /\ op[p].kind # "idle" /\ op'[p].at >= op[p].at
        /\ op[p].kind = "readBytes" => op[p].at = 2
    <3>1. LockAt("readBytes") = 2
      BY DEF LockAt, Ldxrs, Stxrs, Bare
    <3> QED
      BY <1>1, <2>1, <3>1, Processing DEF OnScript
  <2>4. op[p].want # {} /\ op[p].want \in SUBSET Nat /\ op[p].want \subseteq Stripes
    BY <1>1, <2>1, <2>3, Processing, Tables DEF LockInvariant, WantsTheRest, ToLock, Stripes
  <2>5. s \in op[p].want /\ \A t \in op[p].want : s <= t
    BY <2>4, LowestIsMember
  <2> HIDE DEF s
  <2>6. HoldsAscending'
    <3> SUFFICES ASSUME NEW q \in Processes, NEW r \in Stripes, lock'[r] = q
                 PROVE  /\ op'[q].kind \in Locking /\ ~(op'[q].kind = "readBytes" /\ op'[q].at = 1)
                        /\ \A t \in op'[q].want : r < t
      BY DEF HoldsAscending
    <3>1. CASE q # p
      BY <1>1, <2>1, <2>2, <2>4, <2>5, <3>1 DEF LockInvariant, HoldsAscending
    <3>2. CASE q = p /\ r # s
      BY <1>1, <2>1, <2>3, <3>2 DEF LockInvariant, HoldsAscending
    <3>3. CASE q = p /\ r = s
      <4>1. \A t \in op'[q].want : r <= t /\ r # t /\ r \in Nat /\ t \in Nat
        BY <2>1, <2>4, <2>5, <3>3
      <4> QED
        BY <2>1, <2>3, <3>3, <4>1
    <3> QED
      BY <3>1, <3>2, <3>3
  <2>7. WantsTheRest'
    <3> SUFFICES ASSUME NEW q \in Processes
                 PROVE  /\ ToLock(op'[q]) => op'[q].want # {}
                        /\ op'[q].kind # "idle" => /\ op'[q].want \subseteq StripesOf(op'[q].gs)
                                                   /\ \A t \in StripesOf(op'[q].gs) \ op'[q].want : lock'[t] = q
      BY DEF WantsTheRest
    <3>1. CASE q # p
      BY <1>1, <2>1, <2>2, <2>4, <2>5, <3>1 DEF LockInvariant, WantsTheRest
    <3>2. CASE q = p
      <4>1. ToLock(op'[p]) => op'[p].want # {}
        BY <2>1, <2>3, Tables DEF ToLock, LockAt, Ldxrs, Stxrs, Bare
      <4> QED
        BY <1>1, <2>1, <2>3, <2>4, <2>5, <3>2, <4>1 DEF LockInvariant, WantsTheRest
    <3> QED
      BY <3>1, <3>2
  <2> QED
    BY <2>6, <2>7 DEF LockInvariant
<1>6. ASSUME NEW p \in Processes, AdvanceDirtyEpoch(p) PROVE LockInvariant'
  <2>1. /\ op' = [op EXCEPT ![p] = op'[p]] /\ op[p].kind = "scan" /\ op'[p].kind = "scan" /\ op'[p].at = 2
        /\ op'[p].gs = op[p].gs /\ op'[p].want = op[p].want /\ UNCHANGED lock
    BY <1>6, AdvanceDirtyMoves
  <2>2. \A q \in Processes \ {p} : op'[q] = op[q]
    BY <1>1, <2>1
  <2>3. ~ToLock(op'[p]) /\ "scan" \notin Locking
    BY <2>1 DEF ToLock, LockAt, Ldxrs, Stxrs, Bare, Locking
  <2> QED
    BY <1>1, <2>1, <2>2, <2>3 DEF LockInvariant, HoldsAscending, WantsTheRest
<1>7. ASSUME NEW p \in Processes, Spans(p) PROVE LockInvariant'
  <2>1. /\ op' = [op EXCEPT ![p] = op'[p]] /\ op'[p].want = StripesOf(op'[p].gs) /\ op'[p].gs \subseteq Granules
        /\ op'[p].kind \in PageByPage \cup {"readBytes"}
        /\ (op'[p].at \in {1, 2} /\ op'[p].gs # {}) \/ (op'[p].at = 3 /\ op'[p].kind = "readBytes")
    BY <1>7, SpanMoves DEF Operation
  <2>2. \A q \in Processes \ {p} : op'[q] = op[q]
    BY <1>1, <2>1
  <2>3. \A s \in Stripes : /\ lock'[s] # p
                           /\ \A q \in Processes \ {p} : lock'[s] = q <=> lock[s] = q
    <3>1. CASE CheckSpans(p)
      <4>1. UNCHANGED lock /\ op[p].kind = "readBytes" /\ op[p].at = 1
        BY <3>1, CheckSpansMoves
      <4> QED
        BY <1>1, <4>1 DEF LockInvariant, HoldsAscending
    <3>2. CASE NextSpan(p)
      BY <1>1, <3>2 DEF NextSpan, Unlock
    <3> QED
      BY <1>7, <3>1, <3>2 DEF Spans
  <2>4. ToLock(op'[p]) => op'[p].want # {}
    <3>1. op'[p].at = 3 /\ op'[p].kind = "readBytes" => ~ToLock(op'[p])
      BY DEF ToLock, LockAt, Ldxrs, Stxrs, Bare
    <3>2. op'[p].gs # {} => StripesOf(op'[p].gs) # {}
      BY DEF StripesOf, PagesOf
    <3> QED
      BY <2>1, <3>1, <3>2
  <2>5. \A q \in Processes : op[q].kind # "idle" => StripesOf(op[q].gs) \subseteq Stripes
    BY Geometry, Processing
  <2>6. HoldsAscending'
    BY <2>2, <2>3 DEF LockInvariant, HoldsAscending
  <2>7. WantsTheRest'
    BY <2>1, <2>2, <2>3, <2>4, <2>5 DEF LockInvariant, WantsTheRest
  <2> QED
    BY <2>6, <2>7 DEF LockInvariant
<1>8. CASE UNCHANGED vars
  BY <1>8 DEF vars, LockInvariant, HoldsAscending, WantsTheRest
<1> QED
  BY <1>2, <1>3, <1>4, <1>5, <1>6, <1>7, <1>8, StepCases DEF Next, Done

\* A waiting process wants a stripe, and the next one it wants is among them.
LEMMA WaitersWant ==
    ASSUME MemoryTypes, LockInvariant, NEW p \in Processes, At(p, "lock")
    PROVE  /\ Lowest(op[p].want) \in op[p].want /\ Lowest(op[p].want) \in Stripes
           /\ \A t \in op[p].want : Lowest(op[p].want) <= t
<1>1. op[p].kind # "idle" /\ op[p].at = LockAt(op[p].kind)
  BY Places DEF Layout
<1>2. op[p].want # {} /\ op[p].want \subseteq Stripes
  BY <1>1, Processing, Tables DEF LockInvariant, WantsTheRest, ToLock
<1>3. op[p].want \in SUBSET Nat
  BY <1>2 DEF Stripes
<1> QED
  BY <1>2, <1>3, LowestIsMember

\* No set of processes, however many, waits for itself.
LEMMA NobodyWaits == MemoryTypes /\ LockInvariant => NoCircularWait
<1> SUFFICES ASSUME MemoryTypes, LockInvariant, NEW waiters \in SUBSET Processes, waiters # {},
                    \A p \in waiters : \E q \in waiters : Waiting(p, q)
             PROVE  FALSE
  BY Zenon DEF NoCircularWait
<1> DEFINE next(p) == Lowest(op[p].want)
           N == {next(p) : p \in waiters}
<1>1. \A p \in waiters : At(p, "lock") /\ \E q \in waiters : lock[next(p)] = q
  BY DEF Waiting, NextStripe
<1>2. \A p \in waiters : next(p) \in op[p].want /\ next(p) \in Stripes
  BY <1>1, WaitersWant
<1> HIDE DEF next
<1>3. N # {} /\ N \in SUBSET Nat /\ \A n \in N : n <= StripeCount
  BY <1>2, GuestMemoryAssumption DEF Stripes
<1>4. StripeCount \in Nat
  BY GuestMemoryAssumption
<1>5. PICK m \in N : \A n \in N : n <= m
  BY <1>3, <1>4, GreatestIsMember
<1>6. PICK p \in waiters : m = next(p)
  BY <1>5
<1>7. PICK q \in waiters : lock[next(p)] = q
  BY <1>1
<1>8. next(p) < next(q)
  BY <1>2, <1>7 DEF LockInvariant, HoldsAscending
<1>9. next(q) <= next(p) /\ next(p) \in Nat /\ next(q) \in Nat
  BY <1>3, <1>5, <1>6
<1> QED
  BY <1>8, <1>9

\* Whatever the ranges and however many threads, the lock stripes never make a
\* set of threads wait for each other.
THEOREM LocksNeverDeadlock == Spec => []NoCircularWait
<1>1. Init => MemoryTypes /\ LockInvariant
  BY InitTypes, InitLocks
<1>2. MemoryTypes /\ LockInvariant /\ [Next]_vars => MemoryTypes' /\ LockInvariant'
  BY StepTypes, StepLocks
<1> QED
  BY <1>1, <1>2, NobodyWaits, PTL DEF Spec
-----------------------------------------------------------------------------
(* Dirty pages.                                                            *)

\* Scans are behind the current epoch, which no stamp and no hot entry is ahead
\* of; where no advance has overtaken a mark, what a hot entry certifies the page
\* is stamped with.
DirtyInvariant ==
    /\ scanned < curEpoch
    /\ \A p \in Processes : /\ op[p].epoch <= curEpoch
                            /\ op[p].kind = "scan" /\ op[p].at = 2 => op[p].epoch < curEpoch
    /\ \A pg \in Pages : pageEpoch[pg] <= curEpoch
    /\ \A c \in CPUs, pg \in Pages : dirtyHot[c][pg] <= curEpoch
    /\ \A c \in CPUs, pg \in Pages \ overtaken : dirtyHot[c][pg] <= pageEpoch[pg]
    /\ DirtyPagesReported

\* Initially no page is due.
LEMMA InitDirty == Init => DirtyInvariant
  BY DEF Init, DirtyInvariant, DirtyPagesReported, Idle

\* Only reading the current epoch changes the epoch of an operation that goes on.
LEMMA GoesEpochs ==
    ASSUME MemoryTypes, NEW p \in Processes, Goes(p)
    PROVE  op'[p].epoch \in {op[p].epoch, curEpoch} /\ op'[p].kind # "scan"
<1>1. op'[p].kind # "scan"
  BY GoesOn DEF Becomes, Locking, Bare
<1>2. CASE Check(p)
  BY <1>1, <1>2, CheckMoves DEF Becomes
<1>3. CASE HotCheck(p)
  BY <1>1, <1>3, HotCheckMoves DEF Becomes
<1>4. CASE ReadCheck(p)
  BY <1>1, <1>4, ReadCheckMoves DEF Becomes
<1>5. CASE HotReadCheck(p)
  BY <1>1, <1>5, HotReadCheckMoves DEF Becomes
<1>6. CASE Note(p) \/ Observe(p) \/ Reserve(p) \/ Mark(p) \/ Gens(p) \/ Code(p)
  BY <1>1, <1>6, PlainMoves DEF Becomes, MovedOn
<1>7. CASE Store(p) \/ Load(p)
  BY <1>1, <1>7, StoreMoves, LoadMoves
<1>8. CASE Compare(p)
  BY <1>1, <1>8, CompareMoves DEF Becomes
<1>9. CASE Epoch(p)
  BY <1>1, <1>9, EpochMoves DEF Becomes
<1>10. CASE HotCommit(p)
  BY <1>1, <1>10, HotCommitMoves DEF Becomes
<1> QED
  BY <1>2, <1>3, <1>4, <1>5, <1>6, <1>7, <1>8, <1>9, <1>10 DEF Goes

\* Only marking, advancing and scanning touch the dirty tracking.
LEMMA DirtyUnchanged ==
    ASSUME NEW p \in Processes, Step(p), ~Mark(p), ~AdvanceDirtyEpoch(p), ~Scan(p)
    PROVE  UNCHANGED dirtyVars
  BY DEF Step, Check, HotCheck, ReadCheck, CheckSpans, HotReadCheck, Note, Lock, Unlock, Store, Load, Observe, Reserve, Compare,
         Epoch, Gens, Code, HotCommit, MarkCodePage, ClearHostObservations

\* Every step keeps the dirty pages that are due ahead of the scans.
LEMMA StepDirty == MemoryTypes /\ DirtyInvariant /\ [Next]_vars => DirtyInvariant'
<1> SUFFICES ASSUME MemoryTypes, DirtyInvariant, [Next]_vars PROVE DirtyInvariant'
  OBVIOUS
<1> USE DEF dirtyVars
<1>1. /\ op \in [Processes -> Operation] /\ \A p \in Processes : op[p].epoch \in Nat
      /\ DirtyTypes
  BY Processing DEF MemoryTypes, ProcessTypes
<1>2. ASSUME NEW p \in Processes, NEW gs \in Ranges, Begin(p, gs) PROVE DirtyInvariant'
  <2>1. op' = [op EXCEPT ![p] = op'[p]] /\ op'[p].epoch = 0 /\ op'[p].at = 1
    BY <1>2, BeginMoves
  <2>2. UNCHANGED dirtyVars
    BY <1>2 DEF Begin
  <2>3. \A q \in Processes \ {p} : op'[q] = op[q]
    BY <1>1, <2>1
  <2> QED
    BY <1>1, <2>1, <2>2, <2>3 DEF DirtyInvariant, DirtyPagesReported, DirtyTypes
<1>3. ASSUME NEW p \in Processes, Step(p), ~Mark(p), ~AdvanceDirtyEpoch(p), ~Scan(p) PROVE DirtyInvariant'
  <2>1. UNCHANGED dirtyVars
    BY <1>3, DirtyUnchanged
  <2>2. \A q \in Processes \ {p} : op'[q] = op[q]
    BY <1>1, <1>3, StepOps
  <2>3. op'[p].epoch \in {0, op[p].epoch, curEpoch} /\ op'[p].kind # "scan"
    <3>1. CASE Goes(p)
      BY <3>1, GoesEpochs
    <3>2. CASE Ends(p)
      BY <3>2, EndMoves DEF Ends, Idle
    <3>3. CASE Lock(p)
      BY <3>3, LockMoves DEF Locking, Bare
    <3>4. CASE Spans(p)
      BY <3>4, SpanMoves DEF PageByPage
    <3> QED
      BY <1>3, <3>1, <3>2, <3>3, <3>4, StepCases
  <2> QED
    BY <1>1, <2>1, <2>2, <2>3 DEF DirtyInvariant, DirtyPagesReported, DirtyTypes
<1>4. ASSUME NEW p \in Processes, Mark(p) PROVE DirtyInvariant'
  <2>1. /\ \A q \in Processes \ {p} : op'[q] = op[q]
        /\ op'[p].epoch = op[p].epoch /\ op'[p].kind # "scan"
    <3>1. \E o : Becomes(p, o) /\ MovedOn(o, op[p], 1)
      BY <1>4, PlainMoves
    <3> QED
      BY <1>1, <3>1 DEF Becomes, MovedOn, Locking, Bare
  <2> DEFINE pages == PagesOf(op[p].gs)
             e == op[p].epoch
             stamped == {pg \in pages : ~HotCertified(p, pg)}
  <2>2. /\ pageEpoch' = [pg \in Pages |-> IF pg \in stamped THEN e ELSE pageEpoch[pg]]
        /\ due' = due \cup pages /\ UNCHANGED <<curEpoch, scanned>>
        /\ overtaken' = IF e = curEpoch THEN overtaken \ stamped ELSE overtaken \cup pages
    BY <1>4 DEF Mark
  <2>3. \A c \in CPUs, pg \in Pages :
          dirtyHot'[c][pg] = IF c = p /\ KeepsHot(p) /\ pg \in pages THEN e ELSE dirtyHot[c][pg]
    <3>1. dirtyHot' = IF KeepsHot(p)
                      THEN [dirtyHot EXCEPT ![p] = [pg \in Pages |-> IF pg \in pages THEN e ELSE @[pg]]]
                      ELSE dirtyHot
      BY <1>4 DEF Mark
    <3> HIDE DEF pages, e
    <3> QED
      BY <1>1, <3>1 DEF DirtyTypes
  <2>4. pages \subseteq Pages /\ stamped \subseteq pages /\ e \in Nat /\ e <= curEpoch
    BY <1>1, Geometry, Processing DEF DirtyInvariant
  <2>5. \A pg \in pages \ stamped : p \in CPUs /\ dirtyHot[p][pg] = e
    BY DEF HotCertified, KeepsHot
  <2> HIDE DEF pages, e, stamped
  <2>6. /\ curEpoch \in Nat /\ scanned \in Nat /\ scanned < curEpoch
        /\ \A pg \in Pages : pageEpoch[pg] \in Nat /\ pageEpoch[pg] <= curEpoch
        /\ \A c \in CPUs, pg \in Pages : dirtyHot[c][pg] \in Nat /\ dirtyHot[c][pg] <= curEpoch
    BY <1>1 DEF DirtyInvariant, DirtyTypes
  <2>7. /\ \A pg \in Pages : pageEpoch'[pg] <= curEpoch
        /\ \A c \in CPUs, pg \in Pages : dirtyHot'[c][pg] \in Nat /\ dirtyHot'[c][pg] <= curEpoch
    BY <2>2, <2>3, <2>4, <2>6
  <2>8. ASSUME NEW pg \in Pages, pg \notin overtaken'
        PROVE  pageEpoch'[pg] = curEpoch \/ (pg \notin pages /\ pg \notin overtaken /\ pageEpoch'[pg] = pageEpoch[pg])
    <3>1. CASE pg \in pages /\ pg \in stamped
      BY <2>2, <2>8, <3>1
    <3>2. CASE pg \in pages /\ pg \notin stamped
      <4>1. e = curEpoch /\ pg \notin overtaken
        BY <2>2, <2>8, <3>2
      <4>2. curEpoch <= pageEpoch[pg]
        BY <2>5, <3>2, <4>1 DEF DirtyInvariant
      <4> QED
        BY <2>2, <2>6, <3>2, <4>2
    <3>3. CASE pg \notin pages
      BY <2>2, <2>4, <2>8, <3>3
    <3> QED
      BY <3>1, <3>2, <3>3
  <2>9. ASSUME NEW c \in CPUs, NEW pg \in Pages \ overtaken' PROVE dirtyHot'[c][pg] <= pageEpoch'[pg]
    <3>1. CASE pageEpoch'[pg] = curEpoch
      BY <2>7, <3>1
    <3>2. CASE pg \notin pages /\ pg \notin overtaken /\ pageEpoch'[pg] = pageEpoch[pg]
      BY <2>3, <3>2 DEF DirtyInvariant
    <3> QED
      BY <2>8, <3>1, <3>2
  <2>10. DirtyPagesReported'
    <3> SUFFICES ASSUME NEW pg \in due' \ overtaken' PROVE pageEpoch'[pg] > scanned
      BY <2>2 DEF DirtyPagesReported
    <3>1. pg \in Pages
      BY <1>1, <2>2, <2>4 DEF DirtyTypes
    <3>2. CASE pageEpoch'[pg] = curEpoch
      BY <2>6, <3>2
    <3>3. CASE pg \notin pages /\ pg \notin overtaken /\ pageEpoch'[pg] = pageEpoch[pg]
      BY <2>2, <3>3 DEF DirtyInvariant, DirtyPagesReported
    <3> QED
      BY <2>8, <3>1, <3>2, <3>3
  <2> QED
    BY <1>1, <2>1, <2>2, <2>6, <2>7, <2>9, <2>10 DEF DirtyInvariant
<1>5. ASSUME NEW p \in Processes, AdvanceDirtyEpoch(p) PROVE DirtyInvariant'
  <2>1. op'[p].epoch = curEpoch /\ \A q \in Processes \ {p} : op'[q] = op[q]
    BY <1>1, <1>5, AdvanceDirtyMoves
  <2>2. curEpoch' = curEpoch + 1 /\ UNCHANGED <<pageEpoch, dirtyHot, scanned, due, overtaken>>
    BY <1>5 DEF AdvanceDirtyEpoch
  <2> QED
    BY <1>1, <2>1, <2>2 DEF DirtyInvariant, DirtyPagesReported, DirtyTypes
<1>6. ASSUME NEW p \in Processes, Scan(p) PROVE DirtyInvariant'
  <2>1. op'[p] = Idle /\ \A q \in Processes \ {p} : op'[q] = op[q]
    BY <1>1, <1>6, EndMoves DEF Ends
  <2>2. op[p].kind = "scan" /\ op[p].at = 2
    BY <1>6, Places DEF Scan, Layout
  <2>3. /\ due' = due \ DirtyPages(scanned, op[p].epoch) /\ scanned' = op[p].epoch
        /\ UNCHANGED <<curEpoch, pageEpoch, dirtyHot, overtaken>>
    BY <1>6 DEF Scan
  <2>4. op[p].epoch < curEpoch /\ op[p].epoch \in Nat
    BY <1>1, <2>2 DEF DirtyInvariant
  <2>5. DirtyPagesReported'
    BY <1>1, <2>3, <2>4 DEF DirtyInvariant, DirtyPagesReported, DirtyPages, DirtyTypes
  <2> QED
    BY <1>1, <2>1, <2>3, <2>4, <2>5 DEF DirtyInvariant, DirtyTypes, Idle
<1>7. CASE UNCHANGED vars
  BY <1>7 DEF vars, DirtyInvariant, DirtyPagesReported
<1> QED
  BY <1>2, <1>3, <1>4, <1>5, <1>6, <1>7 DEF Next, Done

\* Whatever the order of stores, marks, advances and scans of any threads, a page
\* marked dirty is reported by a later scan, but for a page of which an advance
\* overtook a mark between the load of the epoch and the stamp: its report waits
\* for a stamp with the epoch that is then current.
THEOREM NoDirtyPageIsLost == Spec => []DirtyPagesReported
<1>1. Init => MemoryTypes /\ DirtyInvariant
  BY InitTypes, InitDirty
<1>2. MemoryTypes /\ DirtyInvariant /\ [Next]_vars => MemoryTypes' /\ DirtyInvariant'
  BY StepTypes, StepDirty
<1>3. DirtyInvariant => DirtyPagesReported
  BY DEF DirtyInvariant
<1> QED
  BY <1>1, <1>2, <1>3, PTL DEF Spec
-----------------------------------------------------------------------------
(* The exclusive monitor and the loads of host-observed pages.             *)

\* Device threads perform the operations of devices.
DevicesApart ==
    \A d \in Devices : op[d].kind \in DeviceKinds \cup {"idle"} /\ plan[d] \in Seq(DeviceKinds)
\* An operation past its lock step holds its stripes, unless it had none to take
\* or found its pages unobserved.
TookStripes ==
    \A p \in Processes : op[p].kind # "idle" =>
        /\ LockAt(op[p].kind) = 0 => op[p].want # {} /\ ~op[p].observed
        /\ /\ LockAt(op[p].kind) > 0 /\ op[p].at > LockAt(op[p].kind)
           /\ op[p].observed \/ op[p].kind \notin Writes \cup Loads
           => op[p].want = {}

\* An exclusive load has been at the granule.
Marked(g) == "exclusive" \in flags[g \div GranulesPerPage] /\ g % SlotCount \in seenSlots
\* What an operation has loaded so far of its granules is still there: entry k of
\* each load agrees with the table it was taken from.
StillThere(o, k, table) ==
    \A i \in 1..Len(o.loaded) : o.loaded[i][1] \in o.gs => o.loaded[i][k] = table[o.loaded[i][1]]
\* An exclusive load has marked its granules before it loads them, and nobody
\* changes them under its stripes.
ExclusiveLoads ==
    \A p \in Processes : op[p].kind \in Ldxrs =>
        /\ op[p].at > 2 => \A g \in op[p].gs : Marked(g)
        /\ StillThere(op[p], 4, firmVersion)
        /\ \A g \in op[p].gs \ op[p].todo : \E i \in 1..Len(op[p].loaded) : op[p].loaded[i][1] = g
        /\ op[p].at > 3 => op[p].todo = {}
ObservedLoads ==
    \A p \in Processes : op[p].kind \in Loads /\ op[p].at > 2 /\ op[p].observed => StillThere(op[p], 3, hostVersion)
\* An operation that has yet to load has loaded nothing.
FreshOperations == \A p \in Processes : op[p].at < LoadAt(op[p].kind) => op[p].loaded = <<>>

\* p has stored g under its stripes and has yet to advance the generations, or
\* has advanced them and has yet to store.
Owing(p, g) ==
    op[p].kind # "idle" /\ op[p].want = {} /\ op[p].at <= GensAt(op[p].kind) /\ g \in op[p].gs \ op[p].todo
Late(p, g) ==
    /\ op[p].kind # "idle" /\ op[p].want = {}
    /\ GensAt(op[p].kind) > 0 /\ GensAt(op[p].kind) < op[p].at /\ op[p].at <= StoreAt(op[p].kind)
    /\ g \in op[p].todo
\* A reservation's granule is unchanged since, or a newer generation says that
\* it is not, or will before the stripe is free.
Reserved(r, g) ==
    \/ exGen[g % SlotCount] > r.gen
    \/ \E p \in Processes : Owing(p, g)
    \/ firmVersion[g] = r.firm[g] /\ \A p \in Processes : ~Late(p, g)
Reservations ==
    \A c \in CPUs : rsv[c].valid =>
        /\ rsv[c].gen <= writeGen
        /\ \A g \in rsv[c].gs : Marked(g) /\ Reserved(rsv[c], g)
\* A store-exclusive that has not compared yet has its reservation; one that
\* won the comparison has the granules as they were.
StoreExclusives ==
    \A c \in CPUs : op[c].kind \in Stxrs =>
        /\ op[c].at <= 2 => rsv[c].valid /\ rsv[c].gs = op[c].gs
        /\ op[c].at = 3 => \A g \in op[c].todo : firmVersion[g] = rsv[c].firm[g]
MonitorInvariant ==
    /\ DevicesApart /\ TookStripes /\ FreshOperations /\ ExclusiveLoads /\ ObservedLoads
    /\ Reservations /\ StoreExclusives

\* Initially nothing is observed or reserved.
LEMMA InitMonitor == Init => MonitorInvariant
<1> SUFFICES ASSUME Init PROVE MonitorInvariant
  OBVIOUS
<1>1. \A p \in Processes : op[p] = Idle /\ Idle.kind = "idle" /\ Idle.at = 0 /\ Idle.loaded = <<>>
  BY DEF Init, Idle
<1>2. "idle" \notin Ldxrs \cup Loads \cup Stxrs
  BY DEF Ldxrs, Loads, Stxrs
<1>3. CPUs \subseteq Processes /\ Devices \subseteq Processes
  BY DEF Processes
<1>4. DevicesApart
  BY <1>1, <1>3, WorkloadsAssumption DEF DevicesApart, Init
<1>5. \A c \in CPUs : ~rsv[c].valid
  BY DEF Init, NoReservation
<1> QED
  BY <1>1, <1>2, <1>3, <1>4, <1>5 DEF MonitorInvariant, TookStripes, FreshOperations, ExclusiveLoads, ObservedLoads,
     Reservations, StoreExclusives

\* Two operations that hold their stripes share no granule.
LEMMA SoleHolder ==
    ASSUME LockInvariant, NEW p \in Processes, NEW q \in Processes, op[p].kind # "idle", op[q].kind # "idle",
           op[p].want = {}, op[q].want = {}, NEW g \in op[p].gs, g \in op[q].gs
    PROVE  p = q
<1> DEFINE s == (g \div GranulesPerPage) % StripeCount
<1>1. s \in StripesOf(op[p].gs) /\ s \in StripesOf(op[q].gs)
  BY DEF StripesOf, PagesOf
<1>2. lock[s] = p /\ lock[s] = q
  BY <1>1 DEF LockInvariant, WantsTheRest
<1> QED
  BY <1>2

\* A process holds the stripes of its range when it wants no more of them.
LEMMA HeldIsTaken ==
    ASSUME MemoryTypes, LockInvariant, NEW p \in Processes, op[p].kind # "idle"
    PROVE  Held(p, op[p].gs) <=> op[p].want = {}
<1>1. op[p].want \subseteq StripesOf(op[p].gs) /\ \A s \in StripesOf(op[p].gs) \ op[p].want : lock[s] = p
  BY DEF LockInvariant, WantsTheRest
<1>2. \A s \in op[p].want : lock[s] = p => s < s
  BY Processing DEF LockInvariant, HoldsAscending
<1>3. \A s \in op[p].want : ~(s < s)
  BY Processing DEF Stripes
<1> QED
  BY <1>1, <1>2, <1>3 DEF Held

\* A store that holds its stripes is the only one that the monitor or a
\* locked load has to know of.
LEMMA FirmStores ==
    ASSUME MemoryTypes, LockInvariant, DevicesApart, TookStripes, NEW p \in Processes, Store(p)
    PROVE  LET g == Lowest(op[p].todo)
           IN /\ op[p].want # {} => UNCHANGED <<hostVersion, firmVersion>>
              /\ \A h \in Granules \ {g} : hostVersion'[h] = hostVersion[h] /\ firmVersion'[h] = firmVersion[h]
<1> DEFINE g == Lowest(op[p].todo)
           k == op[p].kind
<1>1. k \in Locking /\ k # "idle" /\ op[p].at = StoreAt(k) /\ g \in Granules
  <2>1. k \in Locking /\ op[p].at = StoreAt(k) /\ g \in Granules
    BY StoreMoves DEF Becomes
  <2>2. At(p, "store")
    BY DEF Store
  <2> QED
    BY <2>1, <2>2 DEF At, StepOf
<1>2. StoreAt(k) > 0
  BY <1>1, Processing DEF OnScript
<1>3. /\ hostVersion \in [Granules -> Nat] /\ firmVersion \in [Granules -> Nat]
      /\ hostVersion' = [hostVersion EXCEPT ![g] = @ + IF p \in Devices /\ k \notin {"dmaWrite", "rectWrite"} THEN 1 ELSE 0]
      /\ firmVersion' = [firmVersion EXCEPT ![g] = @ + IF op[p].observed \/ Held(p, op[p].gs) THEN 1 ELSE 0]
  BY DEF Store, MemoryTypes, CounterTypes
<1>4. ASSUME op[p].want # {} PROVE ~(op[p].observed \/ Held(p, op[p].gs))
  <2>1. LockAt(k) > 0 => StoreAt(k) > LockAt(k)
    BY <1>2 DEF StoreAt, LockAt, Writes, Noted, Stxrs, Ldxrs, Bare
  <2> QED
    BY <1>1, <1>4, <2>1, Tables, HeldIsTaken DEF TookStripes
<1>5. ASSUME op[p].want # {}, p \in Devices PROVE k \in {"dmaWrite", "rectWrite"}
  <2>1. k \in DeviceKinds
    BY <1>1, <1>5 DEF DevicesApart
  <2>2. ASSUME k \notin {"dmaWrite", "rectWrite"} PROVE LockAt(k) > 0 /\ StoreAt(k) > LockAt(k) /\ k \notin Writes \cup Loads
    BY <1>2, <2>1, <2>2 DEF StoreAt, LockAt, Writes, Noted, Stxrs, Ldxrs, Bare, Loads, DeviceKinds
  <2> QED
    BY <1>1, <1>5, <2>2 DEF TookStripes
<1> HIDE DEF g, k
<1>6. \A h \in Granules \ {g} : hostVersion'[h] = hostVersion[h] /\ firmVersion'[h] = firmVersion[h]
  BY <1>1, <1>3
<1>7. ASSUME op[p].want # {} PROVE UNCHANGED <<hostVersion, firmVersion>>
  <2>1. hostVersion' = [hostVersion EXCEPT ![g] = @ + 0] /\ firmVersion' = [firmVersion EXCEPT ![g] = @ + 0]
    BY <1>3, <1>4, <1>5, <1>7
  <2> QED
    BY <1>1, <1>3, <2>1
<1> QED
  BY <1>6, <1>7, Zenon DEF g

\* What observed granules are is what makes a store take its stripes.
LEMMA ObservedSerializes ==
    ASSUME NEW gs
    PROVE  /\ Observed(gs) => RequiresSerialization(gs)
           /\ ~MayHaveObservation(gs, {"host", "bulk", "exclusive"}) => ~Observed(gs)
<1>1. \A g \in gs : g \div GranulesPerPage \in PagesOf(gs)
  BY DEF PagesOf
<1> QED
  BY <1>1 DEF Observed, RequiresSerialization, HasExclusiveObserver, MayHaveObservation

\* The five ways in which an operation goes on, besides a store and a load: to
\* its next step, from a check to the lock or past it, from a lost comparison to
\* the unlock, and from an inlined access to the complete path.
Loaded(o, x) == o.todo = x.todo /\ o.loaded = x.loaded
NextStep(o, x) == o.kind = x.kind /\ o.at = x.at + 1 /\ o.observed = x.observed
Checked(o, x) ==
    o.kind = x.kind /\ x.kind \in Writes \cup (Loads \ {"readBytes"}) /\ x.at = 1 /\ o.at \in {2, 3} /\ (o.observed => o.at = 2)
Lost(o, x) == o.kind = x.kind /\ x.kind \in Stxrs /\ x.at = 2 /\ o.at = 8 /\ o.observed = x.observed
Inlined(o, x) ==
    /\ (x.kind = "hot" /\ o.kind \in {"hot", "write"}) \/ (x.kind = "hotRead" /\ o.kind \in {"hotRead", "read"})
    /\ \/ x.at = 1 /\ o.at = 1 /\ o.kind # x.kind
       \/ x.at = 1 /\ o.at = 2 /\ o.kind = x.kind
       \/ x.kind = "hot" /\ x.at = 3 /\ o.at = 4
    /\ o.observed => x.observed

\* A step that goes on without touching memory goes on in one of these ways.
LEMMA Onward ==
    ASSUME MemoryTypes, NEW p \in Processes, Goes(p), ~Store(p), ~Load(p)
    PROVE  LET o == op'[p]
               x == op[p]
           IN /\ Becomes(p, o) /\ Loaded(o, x)
              /\ NextStep(o, x) \/ Checked(o, x) \/ Lost(o, x) \/ Inlined(o, x)
<1>1. CASE Check(p)
  BY <1>1, CheckMoves, ObservedSerializes DEF Becomes, Checked, Loaded
<1>2. CASE HotCheck(p)
  BY <1>2, HotCheckMoves, ObservedSerializes DEF Becomes, Inlined, Loaded
<1>3. CASE ReadCheck(p)
  BY <1>3, ReadCheckMoves DEF Becomes, Checked, Loaded
<1>4. CASE HotReadCheck(p)
  BY <1>4, HotReadCheckMoves DEF Becomes, Inlined, Loaded
<1>5. CASE Note(p) \/ Observe(p) \/ Reserve(p) \/ Mark(p) \/ Gens(p) \/ Code(p)
  BY <1>5, PlainMoves DEF Becomes, NextStep, Loaded, MovedOn
<1>6. CASE Compare(p)
  BY <1>6, CompareMoves DEF Becomes, NextStep, Lost, Loaded
<1>7. CASE Epoch(p)
  BY <1>7, EpochMoves DEF Becomes, NextStep, Loaded
<1>8. CASE HotCommit(p)
  BY <1>8, HotCommitMoves DEF Becomes, Inlined, Loaded
<1> QED
  BY <1>1, <1>2, <1>3, <1>4, <1>5, <1>6, <1>7, <1>8 DEF Goes

\* The generations advance at their step and nowhere else.
LEMMA AdvancesHere ==
    ASSUME MemoryTypes, NEW p \in Processes, Goes(p)
    PROVE  Gens(p) <=> op[p].at = GensAt(op[p].kind)
<1>1. op[p].kind # "idle" /\ (At(p, "gens") <=> op[p].at = GensAt(op[p].kind))
  BY GoesOn, Places DEF Layout, Becomes, Locking, Kinds, CPUKinds, DeviceKinds, Stxrs, Loads
<1>2. At(p, "gens") => Gens(p)
  BY DEF Goes, At, Check, HotCheck, ReadCheck, HotReadCheck, Note, Store, Load, Observe, Reserve, Compare, Epoch, Mark, Gens,
         Code, HotCommit
<1> QED
  BY <1>1, <1>2 DEF Gens

\* A process keeps what it owes until it advances the generations, and a late
\* store begins with that.
LEMMA OwingLate ==
    ASSUME MemoryTypes, TookStripes, NEW p \in Processes, Goes(p), NEW g
    PROVE  /\ Owing(p, g) /\ ~Gens(p) => Owing(p, g)'
           /\ Late(p, g)' => Late(p, g) \/ (Gens(p) /\ g \in op[p].gs)
<1> DEFINE o == op'[p]
           x == op[p]
<1>1. /\ Becomes(p, o) /\ x.kind # "idle" /\ o.kind # "idle" /\ o.gs = x.gs /\ o.want = x.want
      /\ x.at \in Nat /\ x.at >= 1
      /\ x.kind # "readBytes" => /\ x.todo \subseteq x.gs
                                 /\ x.at < StoreAt(x.kind) \/ x.at < LoadAt(x.kind) => x.todo = x.gs
  BY GoesOn, Processing DEF OnScript, Becomes, Locking, Kinds, CPUKinds, DeviceKinds, Stxrs, Loads
<1>2. GensAt(x.kind) \in 0..6 /\ (Gens(p) <=> x.at = GensAt(x.kind))
  BY Tables, AdvancesHere
<1>3. LockAt("hot") = 0 /\ LockAt("hotRead") = 0
  BY DEF LockAt, Ldxrs, Stxrs
<1>4. x.want = {} => x.kind \notin {"hot", "hotRead"}
  BY <1>1, <1>3 DEF TookStripes
<1>5. CASE x.kind = "readBytes"
  <2>1. o.kind = x.kind
    <3>1. CASE Store(p) \/ Load(p)
      BY <3>1, StoreMoves, LoadMoves
    <3>2. CASE ~Store(p) /\ ~Load(p)
      BY <1>5, <3>2, Onward DEF NextStep, Checked, Lost, Inlined
    <3> QED
      BY <3>1, <3>2
  <2>2. GensAt("readBytes") = 0
    BY DEF GensAt, Writes, Noted, Stxrs
  <2> QED
    BY <1>1, <1>5, <2>1, <2>2 DEF Owing, Late
<1>6. CASE x.kind # "readBytes" /\ (Store(p) \/ Load(p))
  <2>1. o.kind = x.kind /\ o.todo \subseteq x.todo /\ (o.at = x.at \/ (o.at = x.at + 1 /\ o.todo = {}))
    BY <1>6, StoreMoves, LoadMoves
  <2> HIDE DEF o, x
  <2> QED
    BY <1>1, <1>2, <1>6, <2>1 DEF Owing, Late, o, x
<1>7. CASE x.kind # "readBytes" /\ ~Store(p) /\ ~Load(p)
  <2>1. Loaded(o, x) /\ (NextStep(o, x) \/ Checked(o, x) \/ Lost(o, x) \/ Inlined(o, x))
    BY <1>7, Onward
  <2>2. CASE NextStep(o, x)
    <3>1. o.kind = x.kind /\ o.at = x.at + 1 /\ o.todo = x.todo /\ StoreAt(x.kind) \in Nat
      BY <2>1, <2>2, Tables DEF NextStep, Loaded
    <3> HIDE DEF o, x
    <3>2. Owing(p, g) /\ ~Gens(p) => Owing(p, g)'
      BY <1>1, <1>2, <3>1 DEF Owing, o, x
    <3>3. Late(p, g)' => Late(p, g) \/ (Gens(p) /\ g \in op[p].gs)
      BY <1>1, <1>2, <1>7, <3>1 DEF Late, o, x
    <3> QED
      BY <3>2, <3>3
  <2>3. CASE Checked(o, x) \/ Lost(o, x)
    <3>1. x.at < StoreAt(x.kind) \/ x.at < LoadAt(x.kind)
      BY <2>3 DEF Checked, Lost, StoreAt, LoadAt, Writes, Stxrs, Loads, Ldxrs
    <3>2. GensAt(x.kind) = 0 \/ StoreAt(x.kind) < GensAt(x.kind)
      BY <2>3 DEF Checked, Lost, StoreAt, GensAt, Writes, Stxrs, Loads, Noted
    <3>3. o.kind = x.kind /\ o.at \in Nat /\ StoreAt(x.kind) \in Nat
      BY <2>3, Tables DEF Checked, Lost
    <3> QED
      BY <1>1, <1>2, <1>7, <3>1, <3>2, <3>3 DEF Owing, Late
  <2>4. CASE Inlined(o, x)
    BY <1>1, <1>4, <2>4 DEF Inlined, Owing, Late
  <2> QED
    BY <2>1, <2>2, <2>3, <2>4
<1> QED
  BY <1>5, <1>6, <1>7

\* Devices stay devices.
LEMMA StepDevices ==
    ASSUME MemoryTypes, DevicesApart, [Next]_vars
    PROVE  DevicesApart'
<1> SUFFICES ASSUME NEW d \in Devices PROVE op'[d].kind \in DeviceKinds \cup {"idle"} /\ plan'[d] \in Seq(DeviceKinds)
  BY DEF DevicesApart
<1>1. op[d].kind \in DeviceKinds \cup {"idle"} /\ plan[d] \in Seq(DeviceKinds) /\ d \in Processes
  BY DEF DevicesApart, Processes
<1>2. ASSUME NEW p \in Processes, NEW gs \in Ranges, Begin(p, gs)
      PROVE  op'[d].kind \in DeviceKinds \cup {"idle"} /\ plan'[d] \in Seq(DeviceKinds)
  <2>1. /\ op' = [op EXCEPT ![p] = op'[p]] /\ plan[p] # <<>> /\ op'[p].kind = Head(plan[p])
        /\ plan' = [plan EXCEPT ![p] = Tail(plan[p])]
    BY <1>2, BeginMoves
  <2>2. CASE p = d
    <3>1. Head(plan[d]) \in DeviceKinds /\ Tail(plan[d]) \in Seq(DeviceKinds)
      BY <1>1, <2>1, <2>2
    <3>2. plan'[d] = Tail(plan[d])
      BY <1>1, <2>1, <2>2 DEF MemoryTypes, ProcessTypes
    <3> QED
      BY <2>1, <2>2, <3>1, <3>2
  <2>3. CASE p # d
    BY <1>1, <2>1, <2>3, Processing DEF MemoryTypes, ProcessTypes
  <2> QED
    BY <2>2, <2>3
<1>3. ASSUME NEW p \in Processes, Step(p)
      PROVE  op'[d].kind \in DeviceKinds \cup {"idle"} /\ plan'[d] \in Seq(DeviceKinds)
  <2>1. op' = [op EXCEPT ![p] = op'[p]] /\ UNCHANGED plan
    BY <1>3, StepOps
  <2>2. op'[p].kind \in {op[p].kind, "idle"} \/ op[p].kind \in {"hot", "hotRead"}
    <3>1. CASE Goes(p)
      <4>1. CASE Store(p) \/ Load(p)
        BY <4>1, StoreMoves, LoadMoves
      <4>2. CASE ~Store(p) /\ ~Load(p)
        BY <3>1, <4>2, Onward DEF NextStep, Checked, Lost, Inlined
      <4> QED
        BY <4>1, <4>2
    <3> QED
      BY <1>3, <3>1, StepCases, EndMoves, LockMoves, AdvanceDirtyMoves, SpanMoves DEF Ends
  <2>3. {"hot", "hotRead"} \cap DeviceKinds = {} /\ "idle" \notin {"hot", "hotRead"}
    BY DEF DeviceKinds
  <2> QED
    BY <1>1, <2>1, <2>2, <2>3, Processing
<1>4. CASE UNCHANGED vars
  BY <1>1, <1>4 DEF vars
<1> QED
  BY <1>2, <1>3, <1>4 DEF Next, Done

\* Whoever is past its lock still has taken its stripes.
LEMMA StepTook ==
    ASSUME MemoryTypes, LockInvariant, TookStripes, [Next]_vars
    PROVE  TookStripes'
<1> DEFINE Took(o) ==
        o.kind # "idle" =>
            /\ LockAt(o.kind) = 0 => o.want # {} /\ ~o.observed
            /\ /\ LockAt(o.kind) > 0 /\ o.at > LockAt(o.kind)
               /\ o.observed \/ o.kind \notin Writes \cup Loads
               => o.want = {}
<1> SUFFICES \A q \in Processes : Took(op'[q])
  BY DEF TookStripes
<1>1. \A q \in Processes : Took(op[q])
  BY DEF TookStripes
<1>2. ASSUME NEW p \in Processes, Took(op'[p]), op' = [op EXCEPT ![p] = op'[p]] PROVE \A q \in Processes : Took(op'[q])
  <2> HIDE DEF Took
  <2>1. \A q \in Processes \ {p} : op'[q] = op[q]
    BY <1>2, Processing
  <2> QED
    BY <1>1, <1>2, <2>1
<1>3. ASSUME NEW p \in Processes, NEW gs \in Ranges, Begin(p, gs) PROVE Took(op'[p]) /\ op' = [op EXCEPT ![p] = op'[p]]
  <2>1. op' = [op EXCEPT ![p] = op'[p]] /\ op'[p].at = 1 /\ ~op'[p].observed /\ op'[p].want # {}
    BY <1>3, BeginMoves
  <2> QED
    BY <2>1, Tables
<1>4. ASSUME NEW p \in Processes, Step(p) PROVE Took(op'[p]) /\ op' = [op EXCEPT ![p] = op'[p]]
  <2> DEFINE o == op'[p]
             x == op[p]
  <2>1. op' = [op EXCEPT ![p] = o] /\ x.kind # "idle" /\ Took(x)
    BY <1>1, <1>4, StepOps
  <2>2. /\ LockAt("hot") = 0 /\ LockAt("hotRead") = 0 /\ x.at \in Nat
        /\ At(p, "lock") <=> x.at = LockAt(x.kind)
        /\ LockAt(x.kind) \in 0..2
    <3>1. LockAt("hot") = 0 /\ LockAt("hotRead") = 0 /\ LockAt(x.kind) \in 0..2
      BY Tables DEF LockAt, Ldxrs, Stxrs
    <3>2. /\ At(p, "lock") <=> Script[x.kind][x.at] = "lock"
          /\ x.at \in Nat /\ x.at \in 1..Size(x.kind) /\ Layout(x.kind)
      BY <2>1, Places, Processing
    <3>3. At(p, "lock") <=> x.at = LockAt(x.kind)
      BY <3>2 DEF Layout
    <3> QED
      BY <3>1, <3>2, <3>3
  <2>3. CASE Goes(p)
    <3>1. o.want = x.want /\ o.kind # "idle"
      <4>1. o.want = x.want /\ o.kind \in Locking
        BY <2>3, GoesOn DEF Becomes
      <4> QED
        BY <4>1, Strangers
    <3>2. x.at # LockAt(x.kind)
      BY <2>2, <2>3 DEF Goes, At, Check, HotCheck, ReadCheck, HotReadCheck, Note, Store, Load, Observe, Reserve, Compare, Epoch,
         Mark, Gens, Code, HotCommit
    <3>3. CASE Store(p) \/ Load(p)
      <4>1. o.kind = x.kind /\ o.observed = x.observed /\ (o.at = x.at \/ o.at = x.at + 1)
        BY <3>3, StoreMoves, LoadMoves
      <4> QED
        BY <2>1, <2>2, <3>1, <3>2, <4>1
    <3>4. CASE ~Store(p) /\ ~Load(p)
      <4>1. NextStep(o, x) \/ Checked(o, x) \/ Lost(o, x) \/ Inlined(o, x)
        BY <2>3, <3>4, Onward
      <4>2. CASE NextStep(o, x)
        BY <2>1, <2>2, <3>1, <3>2, <4>2 DEF NextStep
      <4>3. CASE Checked(o, x)
        <5>1. LockAt(x.kind) = 2
          BY <4>3 DEF Checked, LockAt, Writes, Loads, Ldxrs, Stxrs, Bare
        <5>2. o.kind = x.kind /\ o.kind \in Writes \cup Loads /\ (o.at > 2 => ~o.observed)
          BY <4>3 DEF Checked
        <5> QED
          BY <2>1, <5>1, <5>2
      <4>4. CASE Lost(o, x)
        <5>1. LockAt(x.kind) = 1 /\ x.kind \notin Writes \cup Loads
          BY <4>4 DEF Lost, LockAt, Writes, Loads, Ldxrs, Stxrs, Bare
        <5> QED
          BY <2>1, <2>2, <3>1, <4>4, <5>1 DEF Lost
      <4>5. CASE Inlined(o, x)
        <5>1. x.want # {} /\ ~x.observed
          BY <2>1, <2>2, <4>5 DEF Inlined
        <5>2. o.kind \in {"hot", "hotRead"} \cup Writes \cup Loads
          BY <4>5 DEF Inlined, Writes, Loads
        <5>3. LockAt("write") = 2 /\ LockAt("read") = 2
          BY DEF LockAt, Ldxrs, Stxrs, Bare
        <5> QED
          BY <2>1, <2>2, <3>1, <4>5, <5>1, <5>2, <5>3 DEF Inlined
      <4> QED
        BY <4>1, <4>2, <4>3, <4>4, <4>5
    <3> QED
      BY <2>1, <3>3, <3>4
  <2>4. CASE Ends(p)
    BY <2>1, <2>4, EndMoves DEF Ends
  <2>5. CASE Lock(p)
    <3>1. /\ x.kind \in Locking /\ x.at = LockAt(x.kind) /\ o.kind = x.kind /\ o.observed = x.observed
          /\ o.at = IF o.want = {} THEN x.at + 1 ELSE x.at
      BY <2>5, LockMoves
    <3>2. x.at \in 1..Size(x.kind)
      BY <2>1, Processing DEF OnScript
    <3> QED
      BY <2>1, <2>2, <3>1, <3>2
  <2>6. CASE AdvanceDirtyEpoch(p)
    <3>1. o.kind = "scan" /\ x.kind = "scan" /\ o.want = x.want /\ LockAt("scan") = 0 /\ o.observed = x.observed
      BY <2>6, AdvanceDirtyMoves DEF LockAt, Ldxrs, Stxrs, Bare
    <3> QED
      BY <2>1, <3>1
  <2>7. CASE Spans(p)
    <3>1. /\ o.kind \in PageByPage \cup {"readBytes"}
          /\ o.at \in {1, 2} \/ (o.at = 3 /\ o.kind = "readBytes" /\ ~o.observed)
      BY <2>7, SpanMoves
    <3>2. LockAt(o.kind) = 2
      BY <3>1 DEF LockAt, PageByPage, Ldxrs, Stxrs, Bare, Loads
    <3>3. o.at > 2 => ~o.observed /\ o.kind \in Loads
      BY <3>1 DEF Loads
    <3> QED
      BY <2>1, <3>2, <3>3
  <2> QED
    BY <1>4, <2>1, <2>3, <2>4, <2>5, <2>6, <2>7, StepCases
<1>5. CASE UNCHANGED vars
  BY <1>1, <1>5 DEF vars
<1> HIDE DEF Took
<1> QED
  BY <1>2, <1>3, <1>4, <1>5 DEF Next, Done

\* Steps that take part in neither loads nor stores leave what was loaded, and all
\* but the check of the spans the granules.
LEMMA LoadedOnly ==
    ASSUME MemoryTypes, NEW p \in Processes, Step(p), ~Load(p), ~CheckSpans(p), op'[p].kind \in Ldxrs \cup Loads
    PROVE  /\ op'[p].loaded = op[p].loaded /\ op'[p].gs = op[p].gs
           /\ op'[p].todo = op[p].todo /\ UNCHANGED memVars
<1>1. ~Store(p)
  <2>1. ASSUME Store(p) PROVE StoreAt(op[p].kind) > 0 /\ op'[p].kind = op[p].kind
    <3>1. op[p].kind \in Locking /\ op[p].at = StoreAt(op[p].kind) /\ op'[p].kind = op[p].kind
      BY <2>1, StoreMoves DEF Becomes
    <3>2. op[p].kind # "idle"
      BY <3>1, Strangers
    <3> QED
      BY <3>1, <3>2, Processing DEF OnScript
  <2> QED
    BY <2>1 DEF StoreAt, Ldxrs, Loads, Writes, Noted, Stxrs
<1>2. UNCHANGED memVars
  BY <1>1 DEF Step, Check, HotCheck, ReadCheck, CheckSpans, HotReadCheck, Note, Lock, Unlock, Load, Observe, Reserve, Compare,
              Epoch, Mark, Gens, Code, HotCommit, MarkCodePage, ClearHostObservations, AdvanceDirtyEpoch, Scan
<1>3. CASE Goes(p)
  BY <1>1, <1>2, <1>3, Onward DEF Loaded, Becomes
<1>4. CASE Ends(p)
  BY <1>4, EndMoves DEF Ends, Ldxrs, Loads
<1>5. CASE Lock(p)
  BY <1>2, <1>5, LockMoves
<1>6. CASE AdvanceDirtyEpoch(p)
  <2>1. op'[p].kind = "scan"
    BY <1>6, AdvanceDirtyMoves
  <2> QED
    BY <2>1, Strangers
<1>7. CASE Spans(p)
  <2>1. op'[p].kind \in PageByPage
    BY <1>7, NextSpanMoves DEF Spans
  <2> QED
    BY <2>1 DEF PageByPage, Ldxrs, Loads
<1> QED
  BY <1>3, <1>4, <1>5, <1>6, <1>7, StepCases

\* Only a store changes memory.
LEMMA OnlyStores ==
    ASSUME NEW p \in Processes, Step(p), ~Store(p)
    PROVE  UNCHANGED memVars
  BY DEF Step, Check, HotCheck, ReadCheck, CheckSpans, HotReadCheck, Note, Lock, Unlock, Load, Observe, Reserve, Compare,
         Epoch, Mark, Gens, Code, HotCommit, MarkCodePage, ClearHostObservations, AdvanceDirtyEpoch, Scan

\* Where one process holds its stripes, another changes neither what the
\* monitor counts nor what the host's writes count.
LEMMA OthersStore ==
    ASSUME MemoryTypes, LockInvariant, DevicesApart, TookStripes, NEW p \in Processes, NEW q \in Processes, p # q, Step(p),
           op[q].kind # "idle", op[q].want = {}, NEW h \in op[q].gs
    PROVE  firmVersion'[h] = firmVersion[h] /\ hostVersion'[h] = hostVersion[h]
<1>1. CASE ~Store(p)
  BY <1>1, OnlyStores DEF memVars
<1>2. CASE Store(p)
  <2>1. op[p].kind # "idle" /\ Lowest(op[p].todo) \in op[p].gs /\ h \in Granules
    BY <1>2, StoreMoves, Processing DEF Store, At, StepOf
  <2>2. op[p].want = {} => Lowest(op[p].todo) # h
    BY <2>1, SoleHolder
  <2> QED
    BY <1>2, <2>1, <2>2, FirmStores
<1> QED
  BY <1>1, <1>2

\* Exclusive observations are sticky.
LEMMA MarkedStays ==
    ASSUME MemoryTypes, NEW g \in Granules, Marked(g), [Next]_vars
    PROVE  Marked(g)'
<1>1. g \div GranulesPerPage \in Pages
  BY GuestMemoryAssumption, SMTT(30) DEF Granules, Pages
<1>2. flags \in [Pages -> SUBSET {"host", "bulk", "exclusive"}]
  BY DEF MemoryTypes, CounterTypes
<1>3. ASSUME NEW p \in Processes, NEW gs \in Ranges, Begin(p, gs) PROVE UNCHANGED obsVars
  BY <1>3 DEF Begin
<1>4. ASSUME NEW p \in Processes, Step(p)
      PROVE  ("exclusive" \in flags[g \div GranulesPerPage])' /\ seenSlots \subseteq seenSlots'
  <2>1. CASE Note(p)
    BY <1>1, <1>2, <2>1 DEF Note, Marked
  <2>2. CASE Observe(p)
    BY <1>1, <1>2, <2>2 DEF Observe, Marked
  <2>3. CASE ClearHostObservations(p)
    BY <1>1, <1>2, <2>3 DEF ClearHostObservations, Marked
  <2>4. CASE ~Note(p) /\ ~Observe(p) /\ ~ClearHostObservations(p)
    <3>1. UNCHANGED obsVars
      BY <1>4, <2>4 DEF Step, Check, HotCheck, ReadCheck, CheckSpans, HotReadCheck, Lock, Unlock, Store, Load, Reserve, Compare,
              Epoch, Mark, Gens, Code, HotCommit, MarkCodePage, AdvanceDirtyEpoch, Scan
    <3>2. flags' = flags /\ seenSlots' = seenSlots
      BY <3>1 DEF obsVars
    <3> QED
      BY <3>2, Zenon DEF Marked
  <2> QED
    BY <2>1, <2>2, <2>3, <2>4
<1>5. CASE UNCHANGED vars
  BY <1>5 DEF vars, obsVars, Marked
<1> QED
  BY <1>3, <1>4, <1>5 DEF Next, Done, Marked, obsVars

\* Steps before the load load nothing.
LEMMA StepFresh ==
    ASSUME MemoryTypes, FreshOperations, [Next]_vars
    PROVE  FreshOperations'
<1> DEFINE Fresh(o) == o.at < LoadAt(o.kind) => o.loaded = <<>>
<1> SUFFICES \A q \in Processes : Fresh(op'[q])
  BY DEF FreshOperations
<1>1. \A q \in Processes : Fresh(op[q])
  BY DEF FreshOperations
<1>2. ASSUME NEW p \in Processes, Fresh(op'[p]), op' = [op EXCEPT ![p] = op'[p]] PROVE \A q \in Processes : Fresh(op'[q])
  <2> HIDE DEF Fresh
  <2>1. \A q \in Processes \ {p} : op'[q] = op[q]
    BY <1>2, Processing
  <2> QED
    BY <1>1, <1>2, <2>1
<1>3. ASSUME NEW p \in Processes, NEW gs \in Ranges, Begin(p, gs) PROVE Fresh(op'[p]) /\ op' = [op EXCEPT ![p] = op'[p]]
  BY <1>3, BeginMoves
<1>4. ASSUME NEW p \in Processes, Step(p) PROVE Fresh(op'[p]) /\ op' = [op EXCEPT ![p] = op'[p]]
  <2> DEFINE o == op'[p]
             x == op[p]
  <2>1. op' = [op EXCEPT ![p] = o] /\ Fresh(x) /\ x.at \in Nat /\ LoadAt(x.kind) \in 0..3 /\ o.at \in Nat
    BY <1>1, <1>4, StepOps, Processing, Tables DEF Operation
  <2>2. CASE Load(p)
    <3>1. o.kind = x.kind /\ o.at >= LoadAt(x.kind)
      BY <2>1, <2>2, LoadMoves
    <3> QED
      BY <2>1, <3>1, Tables
  <2>3. CASE Store(p)
    <3>1. o.kind = x.kind /\ o.at >= x.at /\ o.loaded = x.loaded
      BY <2>1, <2>3, StoreMoves
    <3> QED
      BY <2>1, <3>1
  <2>4. CASE Goes(p) /\ ~Store(p) /\ ~Load(p)
    <3>1. o.loaded = x.loaded /\ (NextStep(o, x) \/ Checked(o, x) \/ Lost(o, x) \/ Inlined(o, x))
      BY <2>4, Onward DEF Loaded
    <3>2. LoadAt("write") = 0 /\ LoadAt("hot") = 0 /\ LoadAt("hotRead") = 2
      BY DEF LoadAt, Ldxrs, Loads
    <3> QED
      BY <2>1, <3>1, <3>2 DEF NextStep, Checked, Lost, Inlined
  <2>5. CASE Ends(p)
    <3>1. o = Idle /\ Idle.at = 0 /\ Idle.loaded = <<>>
      BY <2>5, EndMoves DEF Ends, Idle
    <3> QED
      BY <2>1, <3>1
  <2>6. CASE Lock(p)
    <3>1. o.kind = x.kind /\ o.at >= x.at /\ o.loaded = x.loaded
      BY <2>1, <2>6, LockMoves
    <3> QED
      BY <2>1, <3>1
  <2>7. CASE AdvanceDirtyEpoch(p)
    BY <2>1, <2>7, AdvanceDirtyMoves DEF LoadAt, Ldxrs, Loads
  <2>8. CASE Spans(p)
    <3>1. CASE CheckSpans(p)
      BY <2>1, <3>1, CheckSpansMoves DEF LoadAt, Loads
    <3>2. CASE NextSpan(p)
      BY <2>1, <3>2, NextSpanMoves
    <3> QED
      BY <2>8, <3>1, <3>2 DEF Spans
  <2> QED
    BY <1>4, <2>2, <2>3, <2>4, <2>5, <2>6, <2>7, <2>8, StepCases
<1>5. CASE UNCHANGED vars
  BY <1>1, <1>5 DEF vars
<1> HIDE DEF Fresh
<1> QED
  BY <1>2, <1>3, <1>4, <1>5 DEF Next, Done

\* What a load notes of a granule.
LEMMA Entries ==
    ASSUME NEW g \in Granules, NEW v \in Nat, NEW h \in Nat, NEW f \in Nat
    PROVE  /\ <<g, v, h, f>> \in Granules \X Nat \X Nat \X Nat
           /\ <<g, v, h, f>>[1] = g /\ <<g, v, h, f>>[3] = h /\ <<g, v, h, f>>[4] = f
  OBVIOUS

\* A load adds the granule's entry to the entries there were.
LEMMA LoadAppends ==
    ASSUME MemoryTypes, NEW p \in Processes, Load(p)
    PROVE  LET o == op'[p]
               n == Len(op[p].loaded)
               g == Lowest(op[p].todo)
           IN /\ n \in Nat /\ Len(o.loaded) = n + 1 /\ \A i \in 1..n : o.loaded[i] = op[p].loaded[i]
              /\ o.loaded[n + 1][1] = g /\ o.loaded[n + 1][3] = hostVersion[g] /\ o.loaded[n + 1][4] = firmVersion[g]
              /\ o.gs = op[p].gs /\ o.todo = op[p].todo \ {g} /\ o.kind = op[p].kind
              /\ op[p].at = LoadAt(op[p].kind) /\ (o.at > op[p].at => o.todo = {})
              /\ o.observed = op[p].observed /\ UNCHANGED memVars
<1> DEFINE g == Lowest(op[p].todo)
           e == <<g, version[g], hostVersion[g], firmVersion[g]>>
           old == op[p].loaded
<1>1. old \in Seq(Granules \X Nat \X Nat \X Nat)
  BY Processing DEF Operation
<1>2. g \in Granules /\ version[g] \in Nat /\ hostVersion[g] \in Nat /\ firmVersion[g] \in Nat
  BY LoadMoves DEF MemoryTypes, CounterTypes
<1>3. e \in Granules \X Nat \X Nat \X Nat /\ e[1] = g /\ e[3] = hostVersion[g] /\ e[4] = firmVersion[g]
  <2> HIDE DEF g
  <2> QED
    BY <1>2, Entries
<1>4. op'[p].loaded = Append(old, e) /\ UNCHANGED memVars
  <2>1. op'[p].loaded = Append(old, e)
    BY LoadMoves
  <2>2. UNCHANGED memVars
    BY DEF Load
  <2> QED
    BY <2>1, <2>2
<1>5. /\ op'[p].gs = op[p].gs /\ op'[p].todo = op[p].todo \ {g} /\ op'[p].kind = op[p].kind
      /\ op[p].at = LoadAt(op[p].kind) /\ (op'[p].at > op[p].at => op'[p].todo = {}) /\ op'[p].observed = op[p].observed
  BY LoadMoves, Processing DEF Becomes
<1> HIDE DEF e, old, g
<1>6. /\ Len(old) \in Nat /\ Len(Append(old, e)) = Len(old) + 1 /\ \A i \in 1..Len(old) : Append(old, e)[i] = old[i]
      /\ Append(old, e)[Len(old) + 1] = e
  BY <1>1, <1>3
<1> QED
  BY <1>3, <1>4, <1>5, <1>6 DEF g, old

\* Loading a granule keeps what is loaded up to date.
LEMMA LoadStill ==
    ASSUME MemoryTypes, NEW p \in Processes, Load(p)
    PROVE  /\ StillThere(op[p], 4, firmVersion) => StillThere(op[p], 4, firmVersion)'
           /\ StillThere(op[p], 3, hostVersion) => StillThere(op[p], 3, hostVersion)'
<1> DEFINE n == Len(op[p].loaded)
           g == Lowest(op[p].todo)
<1>1. \A i \in 1..Len(op'[p].loaded) : i \in 1..n \/ i = n + 1
  BY LoadAppends
<1>2. UNCHANGED <<hostVersion, firmVersion>>
  BY LoadAppends DEF memVars
<1>3. /\ \A i \in 1..n : op'[p].loaded[i] = op[p].loaded[i]
      /\ op'[p].loaded[n + 1][1] = g /\ op'[p].loaded[n + 1][3] = hostVersion[g] /\ op'[p].loaded[n + 1][4] = firmVersion[g]
      /\ op'[p].gs = op[p].gs
  BY LoadAppends
<1> HIDE DEF n, g
<1>4. ASSUME StillThere(op[p], 4, firmVersion) PROVE StillThere(op[p], 4, firmVersion)'
  BY <1>1, <1>2, <1>3, <1>4 DEF StillThere, n
<1>5. ASSUME StillThere(op[p], 3, hostVersion) PROVE StillThere(op[p], 3, hostVersion)'
  BY <1>1, <1>2, <1>3, <1>5 DEF StillThere, n
<1> QED
  BY <1>4, <1>5

\* What a process has loaded under its stripes stays when others step.
LEMMA OthersLeave ==
    ASSUME MemoryTypes, LockInvariant, DevicesApart, TookStripes, NEW p \in Processes, NEW q \in Processes, p # q, Step(p),
           op[q].kind # "idle", op[q].want = {}
    PROVE  /\ op'[q] = op[q]
           /\ StillThere(op[q], 4, firmVersion) => StillThere(op[q], 4, firmVersion)'
           /\ StillThere(op[q], 3, hostVersion) => StillThere(op[q], 3, hostVersion)'
<1>1. op'[q] = op[q]
  BY StepOps, Processing
<1>2. \A h \in op[q].gs : firmVersion'[h] = firmVersion[h] /\ hostVersion'[h] = hostVersion[h]
  BY OthersStore
<1> QED
  BY <1>1, <1>2 DEF StillThere

\* Exclusive loads keep their marks, and what they loaded stays.
LEMMA StepExclusiveLoads ==
    ASSUME MemoryTypes, LockInvariant, DevicesApart, TookStripes, FreshOperations, ExclusiveLoads, [Next]_vars
    PROVE  ExclusiveLoads'
<1> DEFINE Good(q) ==
        op[q].kind \in Ldxrs =>
            /\ op[q].at > 2 => \A g \in op[q].gs : Marked(g)
            /\ StillThere(op[q], 4, firmVersion)
            /\ \A g \in op[q].gs \ op[q].todo : \E i \in 1..Len(op[q].loaded) : op[q].loaded[i][1] = g
            /\ op[q].at > 3 => op[q].todo = {}
<1> SUFFICES ASSUME NEW q \in Processes PROVE Good(q)'
  BY DEF ExclusiveLoads
<1>1. Good(q)
  BY DEF ExclusiveLoads
<1>2. op[q].gs \subseteq Granules /\ op[q].at \in Nat /\ \A g \in Granules : Marked(g) => Marked(g)'
  BY Processing, MarkedStays
<1>3. "idle" \notin Ldxrs
  BY DEF Ldxrs
<1>4. ASSUME op[q].kind \in Ldxrs
      PROVE  LoadAt(op[q].kind) = 3 /\ LockAt(op[q].kind) = 1 /\ op[q].kind \notin Writes \cup Loads \cup Stxrs \cup {"hot", "hotRead"}
  BY <1>4 DEF LoadAt, LockAt, Ldxrs, Stxrs, Writes, Loads
<1>5. ASSUME op[q].kind \in Ldxrs, op[q].at <= 2 PROVE op[q].loaded = <<>>
  BY <1>2, <1>4, <1>5 DEF FreshOperations
<1>6. ASSUME op[q].loaded = <<>>, op'[q] = op[q] PROVE StillThere(op[q], 4, firmVersion)'
  BY <1>6 DEF StillThere
<1>7. ASSUME op'[q] = op[q], StillThere(op[q], 4, firmVersion) => StillThere(op[q], 4, firmVersion)' \/ op[q].kind \notin Ldxrs
      PROVE  Good(q)'
  BY <1>1, <1>2, <1>7
<1>8. ASSUME NEW p \in Processes, NEW gs \in Ranges, Begin(p, gs) PROVE Good(q)'
  <2>1. /\ op' = [op EXCEPT ![p] = op'[p]] /\ op'[p].at = 1 /\ op'[p].loaded = <<>>
        /\ op'[p].todo = op'[p].gs
    BY <1>8, BeginMoves
  <2>2. CASE p = q
    BY <2>1, <2>2 DEF StillThere
  <2>3. CASE p # q
    <3>1. op'[q] = op[q] /\ UNCHANGED memVars
      BY <1>8, <2>1, <2>3, Processing DEF Begin
    <3> QED
      BY <1>7, <3>1 DEF StillThere, memVars
  <2> QED
    BY <2>2, <2>3
<1>9. ASSUME NEW p \in Processes, Step(p), p # q PROVE Good(q)'
  <2>1. op'[q] = op[q]
    BY <1>9, StepOps, Processing
  <2>2. CASE op[q].kind \in Ldxrs /\ op[q].at > 2
    <3>1. op[q].want = {}
      BY <1>2, <1>3, <1>4, <2>2 DEF TookStripes
    <3> QED
      BY <1>3, <1>7, <1>9, <2>1, <2>2, <3>1, OthersLeave
  <2>3. CASE op[q].kind \in Ldxrs /\ op[q].at <= 2
    BY <1>5, <1>6, <1>7, <2>1, <2>3
  <2>4. CASE op[q].kind \notin Ldxrs
    BY <1>7, <2>1, <2>4
  <2> QED
    BY <1>2, <2>2, <2>3, <2>4
<1>10. ASSUME Load(q) PROVE Good(q)'
  <2>1. /\ StillThere(op[q], 4, firmVersion) => StillThere(op[q], 4, firmVersion)'
        /\ op'[q].gs = op[q].gs /\ op'[q].kind = op[q].kind /\ op[q].at = LoadAt(op[q].kind)
        /\ op'[q].todo = op[q].todo \ {Lowest(op[q].todo)} /\ (op'[q].at > op[q].at => op'[q].todo = {})
    BY <1>10, LoadAppends, LoadStill
  <2>2. ASSUME NEW g \in op[q].gs, g \notin op[q].todo \/ g = Lowest(op[q].todo), op[q].kind \in Ldxrs
        PROVE  \E i \in 1..Len(op'[q].loaded) : op'[q].loaded[i][1] = g
    <3> DEFINE n == Len(op[q].loaded)
    <3>1. /\ n \in Nat /\ Len(op'[q].loaded) = n + 1 /\ \A i \in 1..n : op'[q].loaded[i] = op[q].loaded[i]
          /\ op'[q].loaded[n + 1][1] = Lowest(op[q].todo)
      BY <1>10, LoadAppends
    <3> HIDE DEF n
    <3>2. n + 1 \in 1..Len(op'[q].loaded) /\ \A i \in 1..n : i \in 1..Len(op'[q].loaded)
      BY <3>1
    <3>3. CASE g = Lowest(op[q].todo)
      BY <3>1, <3>2, <3>3
    <3>4. CASE g # Lowest(op[q].todo)
      <4>1. PICK i \in 1..n : op[q].loaded[i][1] = g
        BY <1>1, <2>2, <3>4 DEF n
      <4> QED
        BY <3>1, <3>2, <4>1
    <3> QED
      BY <3>3, <3>4
  <2> QED
    BY <1>1, <1>2, <1>4, <2>1, <2>2
<1>11. ASSUME Step(q), ~Load(q) PROVE Good(q)'
  <2> SUFFICES ASSUME op'[q].kind \in Ldxrs PROVE Good(q)'
    OBVIOUS
  <2>1. op'[q].loaded = op[q].loaded /\ op'[q].gs = op[q].gs /\ op'[q].todo = op[q].todo /\ UNCHANGED memVars
    <3>1. ~CheckSpans(q)
      BY CheckSpansMoves DEF Ldxrs
    <3> QED
      BY <1>11, <3>1, LoadedOnly
  <2>2. /\ op[q].kind = op'[q].kind
        /\ op'[q].at = op[q].at \/ op'[q].at = op[q].at + 1
    <3>1. CASE Goes(q)
      <4>1. ~Store(q)
        <5>1. ASSUME Store(q) PROVE StoreAt(op[q].kind) > 0 /\ op'[q].kind = op[q].kind
          BY <5>1, StoreMoves, Processing DEF OnScript, Becomes, Locking, Kinds, CPUKinds, DeviceKinds, Stxrs, Loads
        <5> QED
          BY <5>1 DEF StoreAt, Ldxrs, Loads, Writes, Noted, Stxrs
      <4>2. NextStep(op'[q], op[q]) \/ Checked(op'[q], op[q]) \/ Lost(op'[q], op[q]) \/ Inlined(op'[q], op[q])
        BY <1>11, <3>1, <4>1, Onward
      <4> QED
        BY <4>2 DEF NextStep, Checked, Lost, Inlined, Ldxrs, Writes, Loads, Stxrs
    <3>2. CASE Ends(q)
      BY <1>3, <3>2, EndMoves DEF Ends
    <3>3. CASE Lock(q)
      BY <3>3, LockMoves
    <3>4. CASE AdvanceDirtyEpoch(q)
      BY <3>4, AdvanceDirtyMoves DEF Ldxrs
    <3>5. CASE Spans(q)
      BY <3>5, SpanMoves DEF Ldxrs, PageByPage
    <3> QED
      BY <1>11, <3>1, <3>2, <3>3, <3>4, <3>5, StepCases
  <2>3. StillThere(op[q], 4, firmVersion)'
    BY <1>1, <2>1, <2>2 DEF StillThere, memVars
  <2>4. op[q].at = 2 <=> Observe(q)
    <3>1. op[q].at = 2 <=> At(q, "observe")
      <4>1. op[q].kind \in Ldxrs /\ op[q].kind # "idle"
        BY <2>2, Strangers
      <4>2. /\ At(q, "observe") <=> Script[op[q].kind][op[q].at] = "observe"
            /\ op[q].at \in 1..Size(op[q].kind) /\ Layout(op[q].kind)
        BY <4>1, Places
      <4> QED
        BY <4>1, <4>2 DEF Layout
    <3>2. At(q, "observe") => Observe(q)
      BY <1>11 DEF Step, At, Check, HotCheck, ReadCheck, CheckSpans, HotReadCheck, Note, Lock, Unlock, Store, Load, Reserve, Compare,
              Epoch, Mark, Gens, Code, HotCommit, MarkCodePage, AdvanceDirtyEpoch, Scan, ClearHostObservations
    <3> QED
      BY <3>1, <3>2 DEF Observe
  <2>5. ASSUME Observe(q), NEW g \in op[q].gs PROVE Marked(g)'
    <3>1. g \div GranulesPerPage \in Pages /\ g \div GranulesPerPage \in PagesOf(op[q].gs) /\ g % SlotCount \in SlotsOf(op[q].gs)
      BY <2>5, Geometry, Processing DEF PagesOf, SlotsOf
    <3> QED
      BY <2>5, <3>1 DEF Observe, Marked
  <2>6. op[q].at = 3 <=> Load(q)
    <3>1. op[q].at = 3 <=> At(q, "load")
      <4>1. /\ At(q, "load") <=> Script[op[q].kind][op[q].at] = "load"
            /\ op[q].at \in 1..Size(op[q].kind) /\ Layout(op[q].kind)
        BY <1>3, <2>2, Places
      <4> QED
        BY <1>4, <2>2, <4>1 DEF Layout
    <3>2. At(q, "load") => Load(q)
      BY <1>11 DEF Step, At, Check, HotCheck, ReadCheck, CheckSpans, HotReadCheck, Note, Lock, Unlock, Store, Load, Reserve, Compare,
              Epoch, Mark, Gens, Code, HotCommit, MarkCodePage, AdvanceDirtyEpoch, Scan, ClearHostObservations, Observe
    <3> QED
      BY <3>1, <3>2 DEF Load
  <2>7. \A g \in op[q].gs \ op[q].todo : \E i \in 1..Len(op[q].loaded) : op[q].loaded[i][1] = g
    BY <1>1, <2>2
  <2>8. op'[q].at > 2 => \A g \in op[q].gs : Marked(g)'
    BY <1>1, <1>2, <2>2, <2>4, <2>5
  <2>9. op'[q].at > 3 => op[q].todo = {}
    BY <1>1, <1>2, <1>11, <2>2, <2>6
  <2> QED
    BY <2>1, <2>3, <2>7, <2>8, <2>9
<1>12. CASE UNCHANGED vars
  BY <1>7, <1>12 DEF vars, StillThere, memVars
<1> HIDE DEF Good
<1> QED
  BY <1>8, <1>9, <1>10, <1>11, <1>12 DEF Next, Done

\* Loads of observed pages keep the host's writes whole.
LEMMA StepObservedLoads ==
    ASSUME MemoryTypes, LockInvariant, DevicesApart, TookStripes, FreshOperations, ObservedLoads, [Next]_vars
    PROVE  ObservedLoads'
<1> DEFINE Good(q) ==
        op[q].kind \in Loads /\ op[q].at > 2 /\ op[q].observed => StillThere(op[q], 3, hostVersion)
<1> SUFFICES ASSUME NEW q \in Processes PROVE Good(q)'
  BY DEF ObservedLoads
<1>1. Good(q)
  BY DEF ObservedLoads
<1>2. op[q].at \in Nat /\ "idle" \notin Loads
  BY Processing DEF Loads
<1>3. ASSUME op[q].kind \in Loads PROVE LoadAt(op[q].kind) = 3 /\ LockAt(op[q].kind) = 2
  BY <1>3 DEF LoadAt, LockAt, Ldxrs, Stxrs, Loads, Bare
<1>4. ASSUME op[q].kind \in Loads, op[q].at <= 2 PROVE op[q].loaded = <<>>
  BY <1>2, <1>3, <1>4 DEF FreshOperations
<1>5. ASSUME op'[q] = op[q], StillThere(op[q], 3, hostVersion) => StillThere(op[q], 3, hostVersion)'
      PROVE  Good(q)'
  BY <1>1, <1>5
<1>6. ASSUME NEW p \in Processes, NEW gs \in Ranges, Begin(p, gs) PROVE Good(q)'
  <2>1. op' = [op EXCEPT ![p] = op'[p]] /\ op'[p].at = 1
    BY <1>6, BeginMoves
  <2>2. CASE p = q
    BY <2>1, <2>2
  <2>3. CASE p # q
    <3>1. op'[q] = op[q] /\ UNCHANGED memVars
      BY <1>6, <2>1, <2>3, Processing DEF Begin
    <3> QED
      BY <1>5, <3>1 DEF StillThere, memVars
  <2> QED
    BY <2>2, <2>3
<1>7. ASSUME NEW p \in Processes, Step(p), p # q PROVE Good(q)'
  <2>1. op'[q] = op[q]
    BY <1>7, StepOps, Processing
  <2>2. CASE op[q].kind \in Loads /\ op[q].at > 2 /\ op[q].observed
    <3>1. op[q].want = {}
      BY <1>2, <1>3, <2>2 DEF TookStripes
    <3> QED
      BY <1>2, <1>5, <1>7, <2>1, <2>2, <3>1, OthersLeave
  <2>3. CASE ~(op[q].kind \in Loads /\ op[q].at > 2 /\ op[q].observed)
    BY <2>1, <2>3
  <2> QED
    BY <2>2, <2>3
<1>8. ASSUME Load(q) PROVE Good(q)'
  <2>1. /\ StillThere(op[q], 3, hostVersion) => StillThere(op[q], 3, hostVersion)'
        /\ op'[q].kind = op[q].kind /\ op[q].at = LoadAt(op[q].kind) /\ op'[q].observed = op[q].observed
    BY <1>8, LoadAppends, LoadStill
  <2> QED
    BY <1>1, <1>2, <1>3, <2>1
<1>9. ASSUME Step(q), ~Load(q) PROVE Good(q)'
  <2> SUFFICES ASSUME op'[q].kind \in Loads, op'[q].at > 2, op'[q].observed PROVE StillThere(op[q], 3, hostVersion)'
    OBVIOUS
  <2>1. op'[q].loaded = op[q].loaded /\ op'[q].gs = op[q].gs /\ UNCHANGED memVars
    <3>1. ~CheckSpans(q)
      BY CheckSpansMoves
    <3> QED
      BY <1>9, <3>1, LoadedOnly
  <2>2. op[q].kind = op'[q].kind /\ (op[q].at > 2 => op[q].observed)
    <3>1. CASE Goes(q)
      <4>1. ~Store(q)
        <5>1. ASSUME Store(q) PROVE StoreAt(op[q].kind) > 0 /\ op'[q].kind = op[q].kind
          BY <5>1, StoreMoves, Processing DEF OnScript, Becomes, Locking, Kinds, CPUKinds, DeviceKinds, Stxrs, Loads
        <5> QED
          BY <5>1 DEF StoreAt, Ldxrs, Loads, Writes, Noted, Stxrs
      <4>2. NextStep(op'[q], op[q]) \/ Checked(op'[q], op[q]) \/ Lost(op'[q], op[q]) \/ Inlined(op'[q], op[q])
        BY <1>9, <3>1, <4>1, Onward
      <4>3. ~Inlined(op'[q], op[q])
        BY DEF Inlined, Loads
      <4>4. CASE NextStep(op'[q], op[q])
        BY <4>4 DEF NextStep
      <4>5. CASE Checked(op'[q], op[q]) \/ Lost(op'[q], op[q])
        <5>1. op'[q].kind = op[q].kind /\ op[q].at \in {1, 2}
          BY <4>5 DEF Checked, Lost
        <5>2. ~(op[q].at > 2)
          BY <5>1
        <5> QED
          BY <5>1, <5>2
      <4> QED
        BY <4>2, <4>3, <4>4, <4>5
    <3>2. CASE Ends(q)
      BY <1>2, <3>2, EndMoves DEF Ends
    <3>3. CASE Lock(q)
      BY <3>3, LockMoves
    <3>4. CASE AdvanceDirtyEpoch(q)
      BY <3>4, AdvanceDirtyMoves DEF Loads
    <3>5. CASE Spans(q)
      BY <3>5, SpanMoves
    <3> QED
      BY <1>9, <3>1, <3>2, <3>3, <3>4, <3>5, StepCases
  <2>3. CASE op[q].at <= 2
    BY <1>4, <2>1, <2>2, <2>3 DEF StillThere
  <2>4. CASE op[q].at > 2
    BY <1>1, <2>1, <2>2, <2>4 DEF StillThere, memVars
  <2> QED
    BY <1>2, <2>3, <2>4
<1>10. CASE UNCHANGED vars
  BY <1>5, <1>10 DEF vars, StillThere, memVars
<1> HIDE DEF Good
<1> QED
  BY <1>6, <1>7, <1>8, <1>9, <1>10 DEF Next, Done

\* Generations only grow, and the slots of a store that advances them get one
\* newer than any reservation's.
LEMMA NewGenerations ==
    ASSUME MemoryTypes, NEW p \in Processes, Step(p)
    PROVE  /\ writeGen <= writeGen'
           /\ \A s \in Slots : exGen[s] <= exGen'[s]
           /\ Gens(p) => \A g \in op[p].gs : Marked(g) => exGen'[g % SlotCount] = writeGen + 1
<1>1. writeGen \in Nat /\ exGen \in [Slots -> 0..writeGen]
  BY DEF MemoryTypes, CounterTypes
<1>2. CASE Gens(p)
  <2> DEFINE hit == {g % SlotCount : g \in {h \in op[p].gs : HasExclusiveObserver({h})}}
  <2>1. /\ writeGen' = IF hit = {} THEN writeGen ELSE writeGen + 1
        /\ exGen' = [s \in Slots |-> IF s \in hit THEN writeGen + 1 ELSE exGen[s]]
    BY <1>2 DEF Gens
  <2>2. ASSUME NEW g \in op[p].gs, Marked(g) PROVE g % SlotCount \in hit /\ g % SlotCount \in Slots
    BY <2>2, Geometry, Processing DEF HasExclusiveObserver, Marked, SlotsOf
  <2> HIDE DEF hit
  <2> QED
    BY <1>1, <2>1, <2>2
<1>3. CASE Code(p)
  BY <1>1, <1>3 DEF Code, Gens, At
<1>4. CASE ~Gens(p) /\ ~Code(p)
  <2>1. UNCHANGED <<writeGen, exGen>>
    BY <1>4 DEF Step, At, Check, HotCheck, ReadCheck, CheckSpans, HotReadCheck, Note, Lock, Unlock, Store, Load, Reserve, Compare,
            Epoch, Mark, HotCommit, MarkCodePage, AdvanceDirtyEpoch, Scan, ClearHostObservations, Observe, genVars
  <2> QED
    BY <1>1, <1>4, <2>1
<1> QED
  BY <1>2, <1>3, <1>4

\* Who owes has taken its stripes, so it is past its lock and before its end.
LEMMA OwingGoes ==
    ASSUME MemoryTypes, LockInvariant, TookStripes, NEW p \in Processes, Step(p), NEW g, Owing(p, g)
    PROVE  Goes(p)
<1> DEFINE k == op[p].kind
<1>1. /\ k # "idle" /\ op[p].want = {} /\ op[p].at \in 1..Size(k) /\ op[p].at <= GensAt(k)
      /\ LockAt(k) > 0 /\ op[p].at > LockAt(k)
  <2>1. k # "idle" /\ op[p].want = {} /\ op[p].at <= GensAt(k) /\ op[p].at \in 1..Size(k)
    BY Processing DEF Owing, OnScript
  <2>2. ~ToLock(op[p]) /\ LockAt(k) # 0
    BY <2>1 DEF LockInvariant, WantsTheRest, TookStripes
  <2> QED
    BY <2>1, <2>2, Tables DEF ToLock
<1>2. k \notin Bare /\ GensAt(k) < Size(k)
  BY <1>1 DEF LockAt, GensAt, Size, Bare, Ldxrs, Stxrs, Writes, Noted, Loads
<1>3. ~Ends(p)
  <2>1. Layout(k) /\ (At(p, "unlock") <=> Script[k][op[p].at] = "unlock")
    BY <1>1, Places
  <2>2. ~At(p, "unlock")
    BY <1>1, <1>2, <2>1, Tables DEF Layout
  <2> QED
    BY <1>2, <2>2, EndMoves DEF Ends, Unlock
<1>4. ~Lock(p)
  BY <1>1, LockMoves
<1>5. ~AdvanceDirtyEpoch(p)
  BY <1>2, AdvanceDirtyMoves DEF Bare
<1>6. ~Spans(p)
  <2>1. k = "readBytes" => GensAt(k) = 0
    BY DEF GensAt, Writes, Noted, Stxrs
  <2>2. ~CheckSpans(p)
    BY <1>1, <2>1, CheckSpansMoves
  <2>3. Layout(k) /\ (At(p, "unlock") <=> Script[k][op[p].at] = "unlock")
    BY <1>1, Places
  <2>4. ~At(p, "unlock")
    BY <1>1, <1>2, <2>3, Tables DEF Layout
  <2> QED
    BY <2>2, <2>4 DEF Spans, NextSpan, Unlock
<1> QED
  BY <1>3, <1>4, <1>5, <1>6, StepCases

\* A late store begins with the generations.
LEMMA LateBegins ==
    ASSUME MemoryTypes, TookStripes, NEW p \in Processes, Step(p), NEW g, Late(p, g)'
    PROVE  Late(p, g) \/ (Gens(p) /\ g \in op[p].gs)
<1>1. CASE Goes(p)
  BY <1>1, OwingLate
<1>2. CASE Ends(p)
  BY <1>2, EndMoves DEF Ends, Late
<1>3. CASE Lock(p)
  <2> DEFINE k == op[p].kind
  <2>1. op'[p].kind = k /\ op[p].at = LockAt(k) /\ op'[p].at \in {LockAt(k), LockAt(k) + 1} /\ op[p].at \in 1..Size(k)
    BY <1>3, LockMoves, Processing DEF OnScript, Locking, Kinds, CPUKinds, DeviceKinds, Stxrs, Loads
  <2>2. GensAt(k) > 0 /\ GensAt(k) < op'[p].at
    BY <2>1 DEF Late
  <2>3. LockAt(k) > 0 /\ GensAt(k) > 0 => GensAt(k) > LockAt(k) + 1
    BY DEF LockAt, GensAt, Writes, Noted, Ldxrs, Stxrs, Bare
  <2> QED
    BY <2>1, <2>2, <2>3, Tables
<1>4. CASE AdvanceDirtyEpoch(p)
  <2>1. op'[p].kind = "scan" /\ GensAt("scan") = 0
    BY <1>4, AdvanceDirtyMoves DEF GensAt, Writes, Noted, Stxrs
  <2> QED
    BY <2>1 DEF Late
<1>5. CASE Spans(p)
  <2>1. /\ op'[p].kind \in PageByPage \cup {"readBytes"}
        /\ op'[p].kind # "readBytes" => op'[p].at = 1
    BY <1>5, SpanMoves
  <2>2. GensAt(op'[p].kind) = IF op'[p].kind = "readBytes" THEN 0 ELSE 6
    BY <2>1 DEF GensAt, PageByPage, Writes, Noted, Stxrs
  <2> QED
    BY <2>1, <2>2 DEF Late
<1> QED
  BY <1>1, <1>2, <1>3, <1>4, <1>5, StepCases

\* A step keeps what a reservation says of its granules.
LEMMA ReservedStays ==
    ASSUME MemoryTypes, LockInvariant, DevicesApart, TookStripes, NEW p \in Processes, Step(p),
           NEW r, r.gen \in Nat, r.gen <= writeGen, NEW g \in Granules, Marked(g), Reserved(r, g)
    PROVE  Reserved(r, g)'
<1> DEFINE slot == g % SlotCount
<1>1. slot \in Slots /\ exGen[slot] \in Nat /\ exGen'[slot] \in Nat /\ writeGen \in Nat
  <2>1. slot \in Slots
    BY GuestMemoryAssumption DEF Granules, Slots
  <2>2. MemoryTypes'
    BY StepTypes DEF Next
  <2> QED
    BY <2>1, <2>2 DEF MemoryTypes, CounterTypes
<1>2. exGen[slot] <= exGen'[slot] /\ (Gens(p) /\ g \in op[p].gs => exGen'[slot] > r.gen)
  BY <1>1, NewGenerations
<1>3. \A q \in Processes \ {p} : op'[q] = op[q]
  BY StepOps, Processing
<1>4. CASE exGen[slot] > r.gen
  BY <1>1, <1>2, <1>4 DEF Reserved
<1>5. CASE \E q \in Processes : Owing(q, g)
  <2>1. PICK q \in Processes : Owing(q, g)
    BY <1>5
  <2>2. CASE q # p
    <3>1. Owing(q, g)'
      BY <1>3, <2>1, <2>2 DEF Owing
    <3> QED
      BY <3>1 DEF Reserved
  <2>3. CASE q = p
    <3>1. Goes(p)
      BY <2>1, <2>3, OwingGoes
    <3>2. CASE Gens(p)
      BY <1>2, <2>1, <2>3, <3>2 DEF Owing, Reserved
    <3>3. CASE ~Gens(p)
      <4>1. Owing(p, g)'
        BY <2>1, <2>3, <3>1, <3>3, OwingLate
      <4> QED
        BY <4>1 DEF Reserved
    <3> QED
      BY <3>2, <3>3
  <2> QED
    BY <2>2, <2>3
<1>6. CASE firmVersion[g] = r.firm[g] /\ \A q \in Processes : ~Late(q, g)
  <2>1. \A q \in Processes : Late(q, g)' => Gens(p) /\ g \in op[p].gs
    BY <1>3, <1>6, LateBegins DEF Late
  <2>2. CASE Gens(p) /\ g \in op[p].gs
    BY <1>2, <2>2 DEF Reserved
  <2>3. CASE ~(Gens(p) /\ g \in op[p].gs) /\ firmVersion'[g] = firmVersion[g]
    BY <1>6, <2>1, <2>3 DEF Reserved
  <2>4. CASE firmVersion'[g] # firmVersion[g]
    <3> DEFINE k == op[p].kind
    <3>1. Store(p)
      BY <2>4, OnlyStores DEF memVars
    <3>2. g = Lowest(op[p].todo) /\ op[p].want = {}
      BY <2>4, <3>1, FirmStores
    <3>3. /\ Becomes(p, op'[p]) /\ op[p].at = StoreAt(k) /\ op'[p].kind = k
          /\ g \in op[p].todo /\ g \in op[p].gs /\ op'[p].todo = op[p].todo \ {g} /\ op'[p].at \in {op[p].at, op[p].at + 1}
      BY <3>1, <3>2, StoreMoves
    <3>4. k # "idle" /\ op[p].at \in 1..Size(k) /\ LockAt(k) # 0
      BY <3>2, <3>3, Processing DEF Becomes, Locking, Kinds, CPUKinds, DeviceKinds, Stxrs, Loads, OnScript, TookStripes
    <3>5. StoreAt(k) > 0 /\ GensAt(k) > 0 /\ GensAt(k) # StoreAt(k)
      BY <3>3, <3>4 DEF StoreAt, LockAt, GensAt, Writes, Noted, Stxrs, Ldxrs, Bare
    <3>6. CASE GensAt(k) < StoreAt(k)
      <4>1. Late(p, g)
        BY <3>2, <3>3, <3>4, <3>5, <3>6, Tables DEF Late
      <4> QED
        BY <1>6, <4>1
    <3>7. CASE GensAt(k) > StoreAt(k)
      <4>1. op'[p].at <= GensAt(k) /\ op'[p].want = {} /\ op'[p].gs = op[p].gs
        BY <3>2, <3>3, <3>4, <3>7, Tables DEF Becomes
      <4>2. Owing(p, g)'
        BY <3>3, <3>4, <4>1 DEF Owing
      <4> QED
        BY <4>2 DEF Reserved
    <3> QED
      BY <3>5, <3>6, <3>7, Tables
  <2> QED
    BY <2>2, <2>3, <2>4
<1> QED
  BY <1>4, <1>5, <1>6 DEF Reserved

\* A reservation is made on granules as they are.
LEMMA FreshReservation ==
    ASSUME MemoryTypes, LockInvariant, DevicesApart, TookStripes, ExclusiveLoads, NEW c \in CPUs, Reserve(c)
    PROVE  /\ rsv'[c].gen <= writeGen' /\ rsv'[c].gs = op[c].gs
           /\ \A g \in op[c].gs : Marked(g) /\ Reserved(rsv[c], g)'
<1>1. c \in Processes /\ op[c].kind \in Ldxrs /\ op[c].at = 4 /\ op[c].kind # "idle"
  <2>1. c \in Processes
    BY DEF Processes
  <2>2. /\ op[c].kind # "idle" /\ Script[op[c].kind][op[c].at] = "reserve"
        /\ op[c].at \in 1..Size(op[c].kind) /\ Layout(op[c].kind)
    BY <2>1, Places DEF Reserve, At, StepOf
  <2> QED
    BY <2>1, <2>2 DEF Layout
<1>2. op[c].want = {} /\ op[c].gs # {} /\ op[c].gs \in SUBSET Granules
  <2>1. LockAt(op[c].kind) = 1 /\ op[c].kind \notin Writes \cup Loads \cup {"readBytes"}
    BY <1>1 DEF LockAt, Ldxrs, Stxrs, Writes, Loads, Bare
  <2> QED
    BY <1>1, <2>1, Processing DEF TookStripes, OnScript
<1>3. /\ \A g \in op[c].gs : Marked(g)
      /\ StillThere(op[c], 4, firmVersion)
      /\ \A g \in op[c].gs : \E i \in 1..Len(op[c].loaded) : op[c].loaded[i][1] = g
  <2>1. op[c].todo = {} /\ op[c].at > 2
    BY <1>1 DEF ExclusiveLoads
  <2> QED
    BY <1>1, <2>1 DEF ExclusiveLoads
<1> DEFINE entry(g) == CHOOSE l \in {op[c].loaded[i] : i \in 1..Len(op[c].loaded)} : l[1] = g
           firm == [g \in op[c].gs |-> entry(g)[4]]
<1>4. \A g \in op[c].gs : firm[g] = firmVersion[g]
  <2> TAKE g \in op[c].gs
  <2>1. \E l \in {op[c].loaded[i] : i \in 1..Len(op[c].loaded)} : l[1] = g
    BY <1>3
  <2>2. entry(g) \in {op[c].loaded[i] : i \in 1..Len(op[c].loaded)} /\ entry(g)[1] = g
    BY <2>1
  <2>3. firm[g] = entry(g)[4]
    OBVIOUS
  <2> HIDE DEF entry, firm
  <2>4. PICK i \in 1..Len(op[c].loaded) : entry(g) = op[c].loaded[i]
    BY <2>2
  <2>5. op[c].loaded[i][1] = g
    BY <2>2, <2>4
  <2>6. op[c].loaded[i][4] = firmVersion[op[c].loaded[i][1]]
    <3>1. StillThere(op[c], 4, firmVersion)
      BY <1>3
    <3> QED
      BY <2>5, <3>1 DEF StillThere
  <2> QED
    BY <2>3, <2>4, <2>5, <2>6
<1>5. PICK seen : rsv' = [rsv EXCEPT ![c] = [valid |-> TRUE, gs |-> op[c].gs,
                             gen |-> ExclusiveGeneration(op[c].gs), seen |-> seen, firm |-> firm]]
  BY DEF Reserve
<1> HIDE DEF entry, firm
<1>6. rsv'[c].gs = op[c].gs /\ rsv'[c].gen = ExclusiveGeneration(op[c].gs) /\ rsv'[c].firm = firm
  <2>1. c \in DOMAIN rsv
    BY DEF MemoryTypes, ProcessTypes
  <2> QED
    BY <1>5, <2>1, rsv = [d \in CPUs |-> rsv[d]] DEF MemoryTypes, ProcessTypes
<1>7. UNCHANGED <<memVars, genVars>>
  BY DEF Reserve
<1>8. ExclusiveGeneration(op[c].gs) <= writeGen
  <2>1. PICK s \in SlotsOf(op[c].gs) : exGen[s] = ExclusiveGeneration(op[c].gs)
    BY <1>2, GenerationOf
  <2>2. s \in Slots
    BY <1>2, Geometry
  <2> QED
    BY <2>1, <2>2 DEF MemoryTypes, CounterTypes
<1>9. ASSUME NEW q \in Processes, NEW g \in op[c].gs, Late(q, g)' PROVE FALSE
  <2>1. Late(q, g)
    <3>1. CASE q = c
      BY <1>9, <3>1, LateBegins DEF Step, Gens, Reserve, At
    <3>2. CASE q # c
      <4>1. op'[q] = op[q]
        BY <1>1, <3>2, StepOps, Processing DEF Step
      <4> QED
        BY <1>9, <4>1 DEF Late
    <3> QED
      BY <3>1, <3>2
  <2>2. q = c
    <3>1. op[q].kind # "readBytes"
      BY <2>1 DEF Late, GensAt, Writes, Noted, Stxrs
    <3>2. g \in op[q].gs
      BY <2>1, <3>1, Processing DEF Late, OnScript
    <3> QED
      BY <1>1, <1>2, <2>1, <3>2, SoleHolder DEF Late
  <2> QED
    BY <1>1, <2>1, <2>2 DEF Late, StoreAt, Ldxrs, Writes, Noted, Stxrs
<1> QED
  BY <1>3, <1>4, <1>6, <1>7, <1>8, <1>9 DEF Reserved, memVars, genVars

\* Reservations stay good, or known to be stale.
LEMMA StepReserved ==
    ASSUME MemoryTypes, LockInvariant, DevicesApart, TookStripes, ExclusiveLoads, Reservations, [Next]_vars
    PROVE  Reservations'
<1> SUFFICES ASSUME NEW c \in CPUs, rsv'[c].valid
             PROVE  /\ rsv'[c].gen <= writeGen'
                    /\ \A g \in rsv'[c].gs : Marked(g)' /\ Reserved(rsv[c], g)'
  BY DEF Reservations
<1>1. /\ rsv = [d \in CPUs |-> rsv[d]] /\ IsReservation(rsv[c]) /\ c \in Processes
      /\ rsv[c].gs \subseteq Granules /\ rsv[c].gen \in Nat
  BY DEF MemoryTypes, ProcessTypes, Processes, IsReservation
<1>2. ASSUME UNCHANGED <<rsv, writeGen, exGen, firmVersion, flags, seenSlots>>,
             \A q \in Processes, g \in Granules : (Owing(q, g) => Owing(q, g)') /\ (Late(q, g)' => Late(q, g))
      PROVE  /\ rsv'[c].gen <= writeGen'
             /\ \A g \in rsv'[c].gs : Marked(g)' /\ Reserved(rsv[c], g)'
  BY <1>1, <1>2 DEF Reservations, Marked, Reserved
<1>3. ASSUME NEW p \in Processes, NEW gs \in Ranges, Begin(p, gs)
      PROVE  \A q \in Processes, g \in Granules : (Owing(q, g) => Owing(q, g)') /\ (Late(q, g)' => Late(q, g))
  <2>1. op' = [op EXCEPT ![p] = op'[p]] /\ op[p].kind = "idle" /\ op'[p].want # {}
    BY <1>3, BeginMoves
  <2>2. \A q \in Processes \ {p} : op'[q] = op[q]
    BY <2>1, Processing
  <2> QED
    BY <2>1, <2>2 DEF Owing, Late
<1>4. ASSUME NEW p \in Processes, NEW gs \in Ranges, Begin(p, gs)
      PROVE  UNCHANGED <<rsv, writeGen, exGen, firmVersion, flags, seenSlots>>
  BY <1>4 DEF Begin, memVars, genVars, obsVars
<1>5. ASSUME NEW p \in Processes, Step(p), rsv'[c] = rsv[c]
      PROVE  /\ rsv'[c].gen <= writeGen'
             /\ \A g \in rsv'[c].gs : Marked(g)' /\ Reserved(rsv[c], g)'
  <2>1. rsv[c].gen <= writeGen /\ \A g \in rsv[c].gs : Marked(g) /\ Reserved(rsv[c], g)
    BY <1>5 DEF Reservations
  <2>2. writeGen <= writeGen' /\ writeGen \in Nat /\ writeGen' \in Nat
    <3>1. MemoryTypes'
      BY <1>5, StepTypes DEF Next
    <3> QED
      BY <1>5, <3>1, NewGenerations DEF MemoryTypes, CounterTypes
  <2>3. rsv[c].gen <= writeGen'
    BY <1>1, <2>1, <2>2
  <2>4. \A g \in rsv[c].gs : Marked(g)'
    BY <1>1, <2>1, MarkedStays
  <2> DEFINE r == rsv[c]
  <2>5. ASSUME NEW g \in r.gs PROVE \/ exGen'[g % SlotCount] > r.gen
                                    \/ \E q \in Processes : Owing(q, g)'
                                    \/ firmVersion'[g] = r.firm[g] /\ \A q \in Processes : ~Late(q, g)'
    <3>1. g \in Granules /\ Marked(g) /\ Reserved(r, g) /\ r.gen \in Nat /\ r.gen <= writeGen
      BY <1>1, <2>1, <2>5
    <3> QED
      BY <1>5, <3>1, ReservedStays DEF Reserved
  <2> QED
    BY <1>5, <2>3, <2>4, <2>5 DEF Reserved
<1>6. ASSUME NEW p \in Processes, Step(p), rsv'[c] # rsv[c]
      PROVE  Reserve(c) /\ p = c
  <2>1. Reserve(p) \/ Compare(p)
    BY <1>6 DEF Step, At, Check, HotCheck, ReadCheck, CheckSpans, HotReadCheck, Note, Lock, Unlock, Store, Load,
            Epoch, Mark, Gens, Code, HotCommit, MarkCodePage, AdvanceDirtyEpoch, Scan, ClearHostObservations, Observe
  <2>2. p = c
    BY <1>1, <1>6, <2>1 DEF Reserve, Compare
  <2>3. ~Compare(c)
    <3>1. ASSUME Compare(c) PROVE rsv' = [rsv EXCEPT ![c] = [rsv[c] EXCEPT !.valid = FALSE]]
      BY <3>1 DEF Compare
    <3>2. [rsv[c] EXCEPT !.valid = FALSE].valid = FALSE
      BY <1>1 DEF IsReservation
    <3>3. ASSUME Compare(c) PROVE rsv'[c].valid = FALSE
      BY <1>1, <3>1, <3>2, <3>3
    <3> QED
      BY <3>3
  <2> QED
    BY <2>1, <2>2, <2>3
<1>7. ASSUME Reserve(c), Step(c)
      PROVE  /\ rsv'[c].gen <= writeGen'
             /\ \A g \in rsv'[c].gs : Marked(g)' /\ Reserved(rsv[c], g)'
  <2>1. UNCHANGED obsVars
    BY <1>7 DEF Reserve
  <2> QED
    BY <1>7, <2>1, FreshReservation DEF Marked, obsVars
<1>8. CASE UNCHANGED vars
  <2>1. UNCHANGED <<rsv, writeGen, exGen, firmVersion, flags, seenSlots, op>>
    BY <1>8 DEF vars, memVars, genVars, obsVars
  <2> QED
    BY <1>2, <2>1 DEF Owing, Late
<1> QED
  BY <1>2, <1>3, <1>4, <1>5, <1>6, <1>7, <1>8 DEF Next, Done

\* A comparison that succeeds finds the granules as the reservation has them.
LEMMA ComparisonIsRight ==
    ASSUME MemoryTypes, LockInvariant, TookStripes, Reservations, StoreExclusives, NEW c \in CPUs, Compare(c), op'[c].at = 3
    PROVE  \A g \in op'[c].todo : firmVersion'[g] = rsv'[c].firm[g]
<1>1. /\ c \in Processes /\ op[c].kind \in Stxrs /\ op[c].at = 2 /\ op[c].kind # "idle"
      /\ ExclusiveGeneration(op[c].gs) = rsv[c].gen /\ op'[c].todo = op[c].todo
  <2>1. c \in Processes /\ op[c].kind # "idle"
    BY DEF Processes, Compare, At, StepOf
  <2> QED
    BY <2>1, CompareMoves DEF Becomes
<1>2. rsv[c].valid /\ rsv[c].gs = op[c].gs
  BY <1>1 DEF StoreExclusives
<1>3. op[c].want = {} /\ op[c].gs # {} /\ op[c].gs \in SUBSET Granules /\ op[c].todo = op[c].gs
  <2>1. LockAt(op[c].kind) = 1 /\ op[c].kind \notin Writes \cup Loads \cup {"readBytes"} /\ StoreAt(op[c].kind) = 3
    BY <1>1 DEF LockAt, StoreAt, Ldxrs, Stxrs, Writes, Loads, Bare
  <2> QED
    BY <1>1, <2>1, Processing DEF TookStripes, OnScript
<1>4. firmVersion' = firmVersion /\ rsv'[c].firm = rsv[c].firm
  <2>1. rsv = [d \in CPUs |-> rsv[d]] /\ rsv' = [rsv EXCEPT ![c] = [rsv[c] EXCEPT !.valid = FALSE]]
    BY DEF Compare, MemoryTypes, ProcessTypes
  <2>2. [rsv[c] EXCEPT !.valid = FALSE].firm = rsv[c].firm
    BY DEF MemoryTypes, ProcessTypes, IsReservation
  <2>3. rsv'[c] = [rsv[c] EXCEPT !.valid = FALSE]
    BY <2>1
  <2> QED
    BY <2>2, <2>3 DEF Compare, memVars
<1>5. ASSUME NEW g \in op[c].gs PROVE firmVersion[g] = rsv[c].firm[g]
  <2>1. Reserved(rsv[c], g)
    BY <1>2 DEF Reservations
  <2>2. ~(exGen[g % SlotCount] > rsv[c].gen)
    <3>1. g % SlotCount \in SlotsOf(op[c].gs) /\ g % SlotCount \in Slots
      BY <1>3, Geometry DEF SlotsOf
    <3>2. exGen[g % SlotCount] <= rsv[c].gen /\ exGen[g % SlotCount] \in Nat /\ rsv[c].gen \in Nat
      BY <1>1, <1>3, <3>1, GenerationOf DEF MemoryTypes, CounterTypes
    <3> QED
      BY <3>2
  <2>3. ASSUME NEW q \in Processes, Owing(q, g) PROVE FALSE
    <3>1. q = c
      BY <1>1, <1>3, <2>3, SoleHolder DEF Owing
    <3> QED
      BY <1>3, <2>3, <3>1 DEF Owing
  <2> QED
    BY <2>1, <2>2, <2>3 DEF Reserved
<1> QED
  BY <1>1, <1>3, <1>4, <1>5

\* Store-exclusives keep their reservation until they compare, and their
\* granules until they have stored them.
LEMMA StepStoreExclusives ==
    ASSUME MemoryTypes, LockInvariant, DevicesApart, TookStripes, Reservations, StoreExclusives, [Next]_vars
    PROVE  StoreExclusives'
<1> DEFINE Good(c) ==
        op[c].kind \in Stxrs =>
            /\ op[c].at <= 2 => rsv[c].valid /\ rsv[c].gs = op[c].gs
            /\ op[c].at = 3 => \A g \in op[c].todo : firmVersion[g] = rsv[c].firm[g]
<1> SUFFICES ASSUME NEW c \in CPUs PROVE Good(c)'
  BY DEF StoreExclusives
<1>0. c \in Processes
  BY DEF Processes
<1>1. Good(c) /\ c \in Processes /\ op[c].at \in Nat
  BY <1>0, Processing DEF StoreExclusives
<1>2. "idle" \notin Stxrs
  BY DEF Stxrs
<1>3. ASSUME op[c].kind \in Stxrs
      PROVE  /\ LockAt(op[c].kind) = 1 /\ op[c].kind \notin Writes \cup Loads \cup {"hot", "hotRead", "scan"}
             /\ StoreAt(op[c].kind) = 3 /\ LoadAt(op[c].kind) = 0
             /\ op[c].at \in 1..Size(op[c].kind) /\ op[c].todo \subseteq op[c].gs
             /\ At(c, "lock") <=> op[c].at = 1
             /\ At(c, "compare") <=> op[c].at = 2
             /\ At(c, "store") <=> op[c].at = 3
  <2>1. LockAt(op[c].kind) = 1 /\ StoreAt(op[c].kind) = 3 /\ LoadAt(op[c].kind) = 0
    BY <1>3 DEF LockAt, StoreAt, LoadAt, Ldxrs, Stxrs, Writes, Loads, Bare
  <2>2. op[c].kind \notin Writes \cup Loads \cup {"hot", "hotRead", "scan"}
    BY <1>3 DEF Stxrs, Writes, Loads
  <2>3. op[c].at \in 1..Size(op[c].kind) /\ op[c].todo \subseteq op[c].gs /\ op[c].kind # "idle"
    <3>1. op[c].kind # "readBytes"
      BY <1>3 DEF Stxrs
    <3> QED
      BY <1>1, <1>2, <1>3, <3>1, Processing DEF OnScript
  <2>4. /\ At(c, "lock") <=> Script[op[c].kind][op[c].at] = "lock"
        /\ At(c, "compare") <=> Script[op[c].kind][op[c].at] = "compare"
        /\ At(c, "store") <=> Script[op[c].kind][op[c].at] = "store"
        /\ Layout(op[c].kind)
    BY <1>0, <2>3, Places
  <2>5. /\ At(c, "lock") <=> op[c].at = 1
        /\ At(c, "compare") <=> op[c].at = 2
        /\ At(c, "store") <=> op[c].at = 3
    BY <1>3, <2>1, <2>3, <2>4 DEF Layout
  <2> QED
    BY <2>1, <2>2, <2>3, <2>5
<1>4. ASSUME op'[c] = op[c], rsv'[c] = rsv[c], op[c].kind \in Stxrs /\ op[c].at = 3 =>
             \A g \in op[c].todo : firmVersion'[g] = firmVersion[g]
      PROVE  Good(c)'
  BY <1>1, <1>4
<1>5. ASSUME NEW p \in Processes, NEW gs \in Ranges, Begin(p, gs) PROVE Good(c)'
  <2>1. /\ op' = [op EXCEPT ![p] = op'[p]] /\ op'[p].kind = Head(plan[p]) /\ op'[p].at = 1
        /\ op'[p].kind \in Stxrs => op'[p].gs = gs
    BY <1>5, BeginMoves DEF PageByPage, Stxrs
  <2>2. UNCHANGED <<memVars, rsv>> /\ (Head(plan[p]) \in Stxrs => rsv[p].valid /\ rsv[p].gs = gs)
    BY <1>5 DEF Begin
  <2>3. CASE p = c
    BY <2>1, <2>2, <2>3
  <2>4. CASE p # c
    <3>1. op'[c] = op[c]
      BY <1>1, <2>1, <2>4, Processing
    <3> QED
      BY <1>4, <2>2, <3>1 DEF memVars
  <2> QED
    BY <2>3, <2>4
<1>6. ASSUME NEW p \in Processes, Step(p), p # c PROVE Good(c)'
  <2>1. op'[c] = op[c]
    <3>1. op' = [op EXCEPT ![p] = op'[p]] /\ op \in [Processes -> Operation]
      BY <1>6, StepOps, Processing
    <3> QED
      BY <1>0, <1>6, <3>1
  <2>2. rsv'[c] = rsv[c]
    BY <1>6 DEF Step, At, Check, HotCheck, ReadCheck, CheckSpans, HotReadCheck, Note, Lock, Unlock, Store, Load, Reserve, Compare,
            Epoch, Mark, Gens, Code, HotCommit, MarkCodePage, AdvanceDirtyEpoch, Scan, ClearHostObservations, Observe,
            MemoryTypes, ProcessTypes
  <2>3. ASSUME op[c].kind \in Stxrs, op[c].at = 3, NEW g \in op[c].todo PROVE firmVersion'[g] = firmVersion[g]
    <3>1. op[c].want = {} /\ g \in op[c].gs /\ op[c].kind # "idle"
      BY <1>1, <1>2, <1>3, <2>3 DEF TookStripes
    <3> QED
      BY <1>1, <1>6, <3>1, OthersStore
  <2> QED
    BY <1>4, <2>1, <2>2, <2>3
<1>7. ASSUME Step(c) PROVE Good(c)'
  <2> SUFFICES ASSUME op'[c].kind \in Stxrs PROVE Good(c)'
    OBVIOUS
  <2>1. CASE Compare(c)
    <3>1. op'[c].at \in {3, 8}
      BY <1>1, <2>1, CompareMoves DEF Becomes
    <3> QED
      BY <2>1, <3>1, ComparisonIsRight
  <2>2. CASE Store(c)
    <3>1. /\ op'[c].kind = op[c].kind /\ op[c].at = StoreAt(op[c].kind) /\ op'[c].at \in {op[c].at, op[c].at + 1}
          /\ op'[c].todo = op[c].todo \ {Lowest(op[c].todo)}
      BY <1>1, <2>2, StoreMoves
    <3>2. op[c].at = 3 /\ (op'[c].at = 3 \/ op'[c].at = 4) /\ op[c].kind \in Stxrs
      BY <1>1, <1>3, <3>1
    <3>3. \A g \in op'[c].todo : firmVersion'[g] = firmVersion[g]
      BY <1>1, <2>2, <3>1, FirmStores, Processing
    <3>4. rsv' = rsv
      BY <2>2 DEF Store
    <3> QED
      BY <1>1, <3>1, <3>3, <3>4, <3>2
  <2>3. CASE Lock(c)
    <3>1. /\ op'[c].kind = op[c].kind /\ op[c].at = LockAt(op[c].kind) /\ op'[c].at \in {op[c].at, op[c].at + 1}
          /\ op'[c].gs = op[c].gs
      BY <1>1, <2>3, LockMoves
    <3>2. rsv' = rsv
      BY <2>3 DEF Lock
    <3> QED
      BY <1>1, <1>3, <3>1, <3>2
  <2>4. CASE Load(c)
    BY <1>1, <1>3, <2>4, LoadAppends
  <2>5. CASE Goes(c) /\ ~Store(c) /\ ~Load(c) /\ ~Compare(c)
    <3>1. op'[c].kind = op[c].kind /\ (op'[c].at = op[c].at + 1 \/ (op[c].at = 2 /\ op'[c].at = 8))
      <4>1. NextStep(op'[c], op[c]) \/ Checked(op'[c], op[c]) \/ Lost(op'[c], op[c]) \/ Inlined(op'[c], op[c])
        BY <1>0, <2>5, Onward
      <4> QED
        BY <4>1 DEF NextStep, Checked, Lost, Inlined, Stxrs, Writes, Loads
    <3>2. ~At(c, "lock") /\ ~At(c, "compare") /\ ~At(c, "store")
      BY <2>5 DEF Goes, At, Check, HotCheck, ReadCheck, HotReadCheck, Note, Store, Load, Observe, Reserve, Compare, Epoch, Mark,
         Gens, Code, HotCommit
    <3> QED
      BY <1>1, <1>3, <3>1, <3>2
  <2>6. CASE Ends(c)
    BY <1>1, <1>2, <2>6, EndMoves DEF Ends
  <2>7. CASE AdvanceDirtyEpoch(c)
    BY <1>1, <1>3, <2>7, AdvanceDirtyMoves DEF Stxrs
  <2>8. CASE Spans(c)
    BY <1>1, <2>8, SpanMoves DEF Stxrs, PageByPage
  <2> QED
    BY <1>1, <1>7, <2>1, <2>2, <2>3, <2>4, <2>5, <2>6, <2>7, <2>8, StepCases
<1>8. CASE UNCHANGED vars
  BY <1>4, <1>8 DEF vars, memVars
<1> HIDE DEF Good
<1> QED
  BY <1>1, <1>5, <1>6, <1>7, <1>8 DEF Next, Done

\* Together: what the monitor and the observed loads rest on is kept.
LEMMA StepMonitor == MemoryTypes /\ LockInvariant /\ MonitorInvariant /\ [Next]_vars => MonitorInvariant'
  BY StepDevices, StepTook, StepFresh, StepExclusiveLoads, StepObservedLoads, StepReserved, StepStoreExclusives
     DEF MonitorInvariant

\* A store-exclusive that wins stores over what its load read, and a load of
\* observed pages has the host's writes whole.
LEMMA AtomicNow == MemoryTypes /\ MonitorInvariant => ObservedAccessesAtomic
<1> SUFFICES ASSUME MemoryTypes, MonitorInvariant PROVE ObservedAccessesAtomic
  OBVIOUS
<1>1. ASSUME NEW c \in CPUs PROVE c \in Processes /\ op[c].kind \in Kinds \cup {"idle"}
  BY Processing DEF Processes
<1>2. ASSUME NEW c \in CPUs, Winning(c), NEW g \in op[c].todo PROVE firmVersion[g] = rsv[c].firm[g]
  <2>1. op[c].kind \in Stxrs /\ op[c].at = StoreAt(op[c].kind)
    BY <1>1, <1>2, Places DEF Winning, Layout, Stxrs
  <2>2. op[c].at = 3
    BY <2>1 DEF StoreAt, Stxrs, Writes, Noted
  <2> QED
    BY <1>2, <2>1, <2>2 DEF MonitorInvariant, StoreExclusives
<1>3. ASSUME NEW c \in CPUs, op[c].kind \in Loads, At(c, "unlock"), op[c].observed
      PROVE  \A i \in 1 .. Len(op[c].loaded) :
                 op[c].loaded[i][1] \in op[c].gs => op[c].loaded[i][3] = hostVersion[op[c].loaded[i][1]]
  <2>1. op[c].at = Size(op[c].kind) /\ Size(op[c].kind) = 4
    BY <1>1, <1>3, Places DEF Layout, Loads, Size, Writes, Noted, Stxrs, Ldxrs
  <2> QED
    BY <1>1, <1>3, <2>1 DEF MonitorInvariant, ObservedLoads, StillThere
<1> QED
  BY <1>2, <1>3 DEF ObservedAccessesAtomic, ObservedMonitorSound, ObservedReadsWhole

\* The exclusive monitor loses no store that took the stripe lock or decided on
\* it after an exclusive load had observed the granule.  A scalar or pair load
\* that finds a page host-observed sees no host write to its range in part, nor a
\* byte read any host write to the spans it found observed.  So it is for any
\* number of processors, devices, stripes and slots, any ranges and any workloads.
THEOREM ObservedAccessesAreAtomic == Spec => []ObservedAccessesAtomic
<1>1. Init => MemoryTypes /\ LockInvariant /\ MonitorInvariant
  BY InitTypes, InitLocks, InitMonitor
<1>2. MemoryTypes /\ LockInvariant /\ MonitorInvariant /\ [Next]_vars => (MemoryTypes /\ LockInvariant /\ MonitorInvariant)'
  BY StepTypes, StepLocks, StepMonitor
<1>3. MemoryTypes /\ MonitorInvariant => ObservedAccessesAtomic
  BY AtomicNow
<1> QED
  BY <1>1, <1>2, <1>3, PTL DEF Spec

\* The types of the guest's memory hold in every state.
THEOREM MemoryIsTyped == Spec => []MemoryTypes
<1> QED
  BY InitTypes, StepTypes, PTL DEF Spec
===============================================================================
