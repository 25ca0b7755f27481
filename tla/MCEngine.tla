------------------------------- MODULE MCEngine -------------------------------
(* What executes guest code, one part in focus at a time: the cache of       *)
(* decoded blocks with what is made from them, the loops that are recognised *)
(* and run at once, the two forms of each instruction, and the virtual CPUs  *)
(* among which the interrupt controller routes a device's line.              *)
EXTENDS BlockCache, InstructionForms, InstructionCases, VCPUCluster

CONSTANTS A, B, C, D, E, v1, v2, p1, p2, p3, Starts

VARIABLES focus, loop, fast, slow, left, debt

-----------------------------------------------------------------------------
(* Five blocks on two virtual pages and three physical ones, one of them    *)
(* outside the configured range.  A and B lie on the first page and fall    *)
(* through, C crosses into the second, D ends a chain.  Each set has one    *)
(* way, so A and C evict each other, and so do B and E, which an accelerator *)
(* recognises.  The workloads take every engine through hits, evictions,    *)
(* own stores and both kinds of change by a peer.                           *)

MCSpanOf == (A :> <<v1>>) @@ (B :> <<v1>>) @@ (C :> <<v1, v2>>) @@ (D :> <<v2>>) @@ (E :> <<v2>>)
MCSetOf == (A :> 1) @@ (B :> 2) @@ (C :> 1) @@ (D :> 3) @@ (E :> 2)
MCFallthrough == (A :> B) @@ (B :> C) @@ (C :> NoBlock) @@ (D :> NoBlock) @@ (E :> NoBlock)
MCBytesOf == (A :> 2) @@ (B :> 2) @@ (C :> 3) @@ (D :> 5) @@ (E :> 2)

R(b, e) == [op |-> "run", block |-> b, engine |-> e, store |-> NoPage, fails |-> FALSE]
S(b, e, p) == [R(b, e) EXCEPT !.store = p]
Fails(b) == [R(b, "threaded") EXCEPT !.fails = TRUE]
Wipe == [op |-> "clear"]
To(p, q) == [op |-> "remap", to |-> (v1 :> p) @@ (v2 :> q)]
Writes(p) == [op |-> "store", page |-> p]

Programs == {
    <<R(A, "c"), R(B, "c"), R(A, "c"), R(B, "c"), R(A, "c"), R(B, "c")>>,
    <<R(A, "c"), R(B, "c"), S(A, "c", p1), R(B, "c"), S(A, "c", p1), R(B, "c")>>,
    <<R(C, "c"), R(B, "c"), R(C, "c"), S(B, "c", p2), R(C, "c"), R(A, "c")>>,
    <<R(A, "assembly"), R(B, "assembly"), R(A, "assembly"), R(C, "assembly"), R(D, "assembly"), S(B, "assembly", p1), R(B, "assembly")>>,
    <<R(B, "assembly"), R(B, "assembly"), R(B, "assembly"), R(A, "assembly"), R(A, "assembly"), R(E, "assembly"), R(C, "assembly")>>,
    <<R(A, "threaded"), S(B, "threaded", p1), R(A, "threaded"), Fails(B), R(B, "threaded"), R(D, "threaded")>>,
    <<R(A, "graph"), R(B, "graph"), R(A, "graph"), R(B, "graph"), R(A, "graph"), S(B, "graph", p1), R(A, "graph")>>,
    <<R(B, "graph"), R(B, "graph"), R(B, "graph"), R(C, "graph"), R(B, "graph"), R(E, "graph")>>,
    <<R(A, "c"), R(C, "c"), To(p2, p1), R(A, "c"), Wipe, R(A, "c"), R(D, "c")>>,
    <<R(A, "threaded"), R(A, "threaded"), R(B, "threaded"), R(A, "threaded"), R(D, "c"), R(A, "threaded"),
      S(E, "threaded", p2), R(A, "c"), R(B, "c")>>,
    <<R(A, "threaded"), R(A, "threaded"), R(B, "threaded"), R(A, "threaded"), R(D, "c"), R(A, "threaded"), R(A, "c")>>}
Low == (v1 :> p1) @@ (v2 :> p2)
High == (v1 :> p3) @@ (v2 :> p1)
CodeWorkloads ==
    [cpu : Programs, mapping : {Low}, peer : {<<Writes(p1)>>}]
    \cup [cpu : {p \in Programs : Len(p) = 6}, mapping : {Low}, peer : {<<Writes(p2), To(p2, p1)>>}]
    \cup [cpu : {p \in Programs : Len(p) = 7}, mapping : {High}, peer : {<<To(p2, p1), Writes(p3)>>}]

-----------------------------------------------------------------------------
(* Every recognised loop, entered with the operands that make it stop at    *)
(* each of its exits, at a page boundary, at a page without access and at   *)
(* the end of the slice's budget.                                           *)

AllPages == {0, 1, 2}

LoopRegisters == (0..17) \cup {24, 26}
Vectors == (0..11) \cup (14..17) \cup {22} \cup (28..31)

\* A machine at an instruction with the given registers; lane is the value
\* its vector registers start from.
Machine(at, x, bytes, lane) ==
    [x |-> x @@ [r \in LoopRegisters |-> 0],
     v |-> [r \in Vectors |->
              IF r \in (8..11) \cup (14..17) THEN [l \in 1..2 |-> (r + lane * l) % 10]
              ELSE [l \in 1..2 |-> (r + lane * l) % 4]],
     nzcv |-> [n |-> FALSE, z |-> FALSE, c |-> FALSE, v |-> FALSE],
     pc |-> at, mem |-> bytes, monitor |-> TRUE, saturated |-> FALSE, fault |-> FALSE]

Entry(name, machine, read, write, budget) ==
    [name |-> name, machine |-> machine, read |-> read, write |-> write, budget |-> budget]

\* The bytes 1, 2 and 3 in turn, the same in every page, and one changed cell.
Text(cell, byte) ==
    [i \in 0..47 |-> IF i = cell THEN byte ELSE 1 + ((i % 16) % 3)]

FillStarts ==
    {Entry(name, Machine(1, 0 :> a @@ 1 :> 3 @@ 2 :> n, Text(0, 0), lane), {}, write, budget) :
        name \in {"fill", "memset", "solid"}, a \in {0, 13}, n \in {0, 1, 64, 65},
        lane \in {0, 1}, write \in {AllPages, {}}, budget \in {2, 3, 13}}

\* Vector registers 0 and 1 of a solid fill that hold the same pattern.
SolidStarts ==
    {[s EXCEPT !.machine.v[1] = s.machine.v[0]] :
        s \in {t \in FillStarts : t.name = "solid" /\ t.machine.v[0][1] # t.machine.v[0][2]}}

MemcmpStarts ==
    {Entry("memcmp", Machine(pc, 0 :> 13 @@ 1 :> 29 @@ 2 :> n, Text(c, 0), 0), read, {}, budget) :
        pc \in {1, 2}, n \in {1, 6}, c \in {0, 29, 30, 32, 34},
        read \in {AllPages, {0, 1}, {0}}, budget \in {6, 15, 40}}

ChainStarts ==
    {Entry("chain", Machine(4, 5 :> 12 @@ 10 :> 9 @@ 8 :> 255,
                            [i \in 0..47 |-> IF i = c THEN e ELSE 4], 0), read, {}, budget) :
        c \in 12..17, e \in {7, 8, 9}, read \in {AllPages, {0}, {}},
        budget \in {5, 7, 21, 40}}

SymbolStarts ==
    {Entry(name, Machine(1, (IF name = "gnu" THEN 3 ELSE 0) :> 12
                            @@ (IF name = "gnu" THEN 9 ELSE 6) :> 28 @@ 1 :> 1,
                         [Text(c, e) EXCEPT ![18] = 0, ![34] = 0], 0), read, {}, budget) :
        name \in {"gnu", "sysv"}, c \in {13, 29, 31, 32}, e \in {0, 3},
        read \in {AllPages, {0, 1}}, budget \in {5, 6, 12, 17, 40}}

StringStarts ==
    {Entry(name, Machine(1, 1 :> (IF name = "scan" THEN a ELSE 8) @@ 24 :> 2 @@ 26 :> 200
                            @@ 2 :> 3, Text(c, 0), 0), read, {}, budget) :
        name \in {"scan", "hash"}, a \in {11, 1023}, c \in {0, 12, 14, 17},
        read \in {AllPages, {0}, {}}, budget \in {2, 5, 9, 15, 40}}

MemcpyStarts ==
    {Entry("memcpy", Machine(1, 1 :> a @@ 3 :> b @@ 2 :> n
                                @@ [r \in 6..13 |-> r], [i \in 0..47 |-> i], 0),
           AllPages, write, budget) :
        a \in {3, 14}, b \in {14, 16, 30}, n \in {64, 65, 130},
        write \in {AllPages, {1}}, budget \in {9, 10, 25, 34}}

CopyStarts ==
    {Entry("copy", Machine(1, 4 :> a @@ 2 :> b @@ 0 :> n @@ 9 :> r @@ 10 :> 0 @@ 14 :> w
                              @@ 11 :> 4 @@ 5 :> 1, Text(8, 2), 1), read, write, budget) :
        a \in {0, 13}, b \in {16, 31}, n \in {0, 8}, r \in {16, 33}, w \in {8, 64},
        read \in {AllPages, {0, 2}}, write \in {AllPages, {1}}, budget \in {10, 36}}

OverStarts(writable) ==
    {Entry("over", Machine(pc, 4 :> a @@ 8 :> b @@ 2 :> b - 8 @@ 0 :> n @@ 9 :> r @@ 14 :> w
                               @@ 11 :> 4 @@ 12 :> 5 @@ 5 :> 1 @@ 3 :> 1, Text(8, 3), lane),
           AllPages, writable, budget) :
        pc \in {1, 27}, a \in {0, 13}, b \in {24, 37}, n \in {0, 8}, r \in {16, 33},
        w \in {8, 64}, lane \in {3}, budget \in {9, 35, 76}}

ThunkStarts ==
    {Entry("thunk", Machine(1, << >>, [i \in 0..47 |-> target], 0), read, {}, budget) :
        target \in {0, 1, 9}, read \in {AllPages, {}}, budget \in {1, 3, 4, 9}}

\* Loops that meet none of the divergences the fast paths are known to have.
EveryStart ==
    FillStarts \cup SolidStarts \cup MemcmpStarts \cup ChainStarts \cup SymbolStarts
    \cup StringStarts \cup MemcpyStarts \cup CopyStarts \cup OverStarts(AllPages)
    \cup ThunkStarts

\* The blend loop over a picture whose page has still to be made writable.
UnwritableStarts == OverStarts({})

Loops == INSTANCE SemanticLoops WITH
    Byte <- 4, Half <- 256, Word <- 1024, Lanes <- 2, PageSize <- 16, Cells <- 48,
    MaxBytes <- 3, MaxIterations <- 2

ASSUME LoopsAssumption == Loops!ConstantsFit
-----------------------------------------------------------------------------
(* Registers of eight bits, whose bytes are single bits: every operand width, *)
(* shift and field of the instructions exists, in proportion.  Memory is two *)
(* pages of eight bytes.                                                     *)

MCOffsets == {-1, 2}

ASSUME InstructionsAssumption == OperandsFit
-----------------------------------------------------------------------------
loopVars == <<loop, fast, slow, left, debt>>

\* A part out of focus has not begun.
Nothing == [env |-> {}, program |-> << >>, machine |-> {}]

MCInit ==
    /\ focus \in {"code", "loops", "instructions", "cluster"}
    /\ Init /\ (focus # "code" => work = CHOOSE w \in Workloads : TRUE)
    /\ ClusterInit
    /\ IF focus = "loops" THEN Loops!Init
       ELSE /\ loop = Nothing /\ fast = {} /\ slow = {} /\ left = 0 /\ debt = 0
    /\ IF focus = "instructions" THEN FormsInit ELSE Begins(Nothing)

MCNext ==
    \/ focus = "code" /\ Next /\ UNCHANGED <<focus, loopVars, formVars, clusterVars>>
    \/ focus = "loops" /\ Loops!Next /\ UNCHANGED <<focus, vars, formVars, clusterVars>>
    \/ focus = "instructions" /\ FormsNext /\ UNCHANGED <<focus, vars, loopVars, clusterVars>>
    \/ focus = "cluster" /\ ClusterNext /\ UNCHANGED <<focus, vars, loopVars, formVars>>

MCSpec == MCInit /\ [][MCNext]_<<focus, vars, loopVars, formVars, clusterVars>>

(* A recognised loop that is run at once leaves the machine as its          *)
(* instructions would, however the run is split, and keeps to the steps the *)
(* slice has left.                                                          *)
LoopsAreExact == focus = "loops" => Loops!AcceleratedIsExact /\ Loops!BudgetKept

(* What both forms compute is right: the condition after a comparison is    *)
(* the relation of the numbers, a bit field arrives where it belongs, and a *)
(* narrow result leaves nothing in the upper half.                          *)
ResultsAreRight ==
    focus = "instructions" => ConditionsCompare /\ FieldsAreMoved /\ NarrowResultsAreZeroExtended

(* The same of a run that is declined after it has begun: "Page and         *)
(* execution-budget bounds can split one semantic loop into several exact   *)
(* chunks" (ARM64VizNative.c).                                              *)
AcceleratedIsExact == Loops!AcceleratedIsExact
===============================================================================
