--------------------------- MODULE SemanticLoops ---------------------------
(***************************************************************************)
(* The semantic fast paths of the native interpreter.  The dispatcher      *)
(* recognises a dozen guest loops by their instructions (musl's memcmp,    *)
(* memcpy and symbol lookup, glib's string hash, pixman's copy and blend   *)
(* loops, memset-like fills, an ELF PLT entry) and executes many           *)
(* iterations of one at once, in C.  Each promises to leave the            *)
(* architectural state, and the count of instructions, exactly as the      *)
(* ordinary handlers would.                                                *)
(*                                                                         *)
(* The module runs one loop on two machines: fast, which the dispatcher    *)
(* accelerates where the code does, and slow, which executes the same      *)
(* number of instructions one at a time.  debt counts the accelerated      *)
(* instructions slow has still to execute.                                 *)
(*                                                                         *)
(* The memory of a loop is counted in cells of the width its accesses      *)
(* have; a 64-bit vector register has Lanes bytes and a 128-bit one as     *)
(* many lanes of twice the width.  Byte, Half and Word are the moduli of a *)
(* byte and of a 32- and a 64-bit register.                                *)
(***************************************************************************)
EXTENDS Integers, Sequences, FiniteSetsExt, TLC

CONSTANTS
    Byte, Half, Word,  \* how many values a byte, a w and an x register have
    Lanes,             \* the bytes of a 64-bit vector register
    PageSize, Cells,   \* the cells of a page, and of the guest's memory
    MaxBytes,          \* the bytes (or hash entries) one chunk reads
    MaxIterations,     \* the iterations one chunk copies
    Starts             \* the loops and the machines that enter them

\* What the instances must give.
ConstantsFit ==
    /\ {Byte, Half, Word, Lanes, PageSize, Cells} \subseteq Nat \ {0}
    /\ MaxBytes \in Nat \ {0} /\ MaxIterations \in Nat \ {0}
    /\ Byte <= Half /\ Half <= Word /\ Cells <= Word

VARIABLES
    loop,    \* the loop in execution, and the pages it may read and write
    fast,    \* the machine of the accelerated interpreter
    slow,    \* the machine that executes every instruction
    left,    \* the instructions the slice has left
    debt     \* the accelerated instructions slow has not executed yet

vars == <<loop, fast, slow, left, debt>>

-----------------------------------------------------------------------------
(* A machine: registers x, vectors v (tuples of lanes), the flags, the index *)
(* of the next instruction, memory, the exclusive monitor's and the sticky   *)
(* saturation bit, and whether an access of its last instruction faulted.    *)

\* read_register: register 31 reads as zero.
X(m, r) == IF r = 31 THEN 0 ELSE m.x[r]

\* write_register: a write of register 31 is dropped.
Written(f, g) == [r \in DOMAIN f |-> IF r \in DOMAIN g THEN g[r] ELSE f[r]]

\* add_with_carry_nzcv.
NZCV(a, b, carry, w) ==
    LET sum == a + b + carry
        negative(y) == y % w >= w \div 2
    IN [n |-> negative(sum), z |-> sum % w = 0, c |-> sum >= w,
        v |-> negative(a) = negative(b) /\ negative(a) # negative(sum)]

SubFlags(a, b, w) == NZCV(a, w - 1 - b, 1, w)

\* condition_holds.
Holds(c, f) ==
    CASE c = "eq" -> f.z
      [] c = "ne" -> ~f.z
      [] c = "hi" -> f.c /\ ~f.z
      [] c = "ge" -> f.n = f.v
      [] c = "le" -> f.z \/ f.n # f.v

SignExtend(b, w) == IF b >= Byte \div 2 THEN (b + w - Byte) % w ELSE b

PageOf(a) == a \div PageSize
PageLeft(a) == PageSize - (a % PageSize)

\* avz_fast_translate finds every page of [a, a + n) in RAM with the access.
Access(pages, a, n) == a + n <= Cells /\ \A i \in a..(a + n - 1) : PageOf(i) \in pages

\* The leading cells of [a, a + n), in groups, that have the access: what a
\* transfer done group by group moves before it faults.
Reached(pages, a, n, group) ==
    Max({k \in 0..n : k % group = 0 /\ Access(pages, a, k)})

ReadCells(m, a, n) == [i \in 1..n |-> m.mem[a + i - 1]]

WriteCells(m, a, s) ==
    [m EXCEPT !.mem = [i \in DOMAIN @ |->
        IF i - a \in 0..(Len(s) - 1) THEN s[i - a + 1] ELSE @[i]]]

\* A store also clears the exclusive monitor.
StoreCells(m, a, s) == [WriteCells(m, a, s) EXCEPT !.monitor = FALSE]

-----------------------------------------------------------------------------
(* The ordinary handlers, one instruction at a time.                         *)

Retire(m) == [m EXCEPT !.pc = @ + 1]
Faults(m) == [m EXCEPT !.fault = TRUE]

\* LDR and LDRB with an immediate or a register offset, LDRSB.
LoadStep(m, i, read) ==
    LET a == (X(m, i.n) + X(m, i.m) + i.imm) % Word
    IN IF ~Access(read, a, 1)
         THEN Faults(m)
         ELSE Retire([m EXCEPT !.x = Written(@, i.t :>
                 IF i.signed THEN SignExtend(m.mem[a], Word) ELSE m.mem[a])])

\* LDP and STP: both registers or neither, then the base is written back.
PairStep(m, i, read, write) ==
    LET a == (X(m, i.n) + i.imm) % Word
        done == IF i.op = "ldp"
                  THEN [m EXCEPT !.x = Written(@, i.t :> m.mem[a] @@ i.d :> m.mem[a + 1])]
                  ELSE StoreCells(m, a, <<X(m, i.t), X(m, i.d)>>)
    IN IF ~Access(IF i.op = "ldp" THEN read ELSE write, a, 2)
         THEN Faults(m)
         ELSE Retire([done EXCEPT !.x = Written(@, IF i.back = 0 THEN << >>
                                     ELSE i.n :> ((X(m, i.n) + i.back) % Word))])

\* The cell of lane l of the k-th register (from 0) of an LDn or STn: LD1 and
\* ST1 keep the registers one after the other, the others interleave them.
CellOf(i, k, l) == IF i.interleaved THEN (l - 1) * i.count + k ELSE k * Lanes + l - 1

Packed(m, i) ==
    [c \in 1..(i.count * Lanes) |->
        LET k == CHOOSE k \in 0..(i.count - 1) :
                    \E l \in 1..Lanes : CellOf(i, k, l) = c - 1
        IN m.v[i.t + k][CHOOSE l \in 1..Lanes : CellOf(i, k, l) = c - 1]]

Unpacked(m, i, a, registers) ==
    [m EXCEPT !.v = Written(@, [r \in {i.t + k : k \in registers} |->
        [l \in 1..Lanes |-> m.mem[a + CellOf(i, r - i.t, l)]]])]

\* LD1, ST1, LD4 and ST4 with post-index.  What a faulting one has moved
\* stays moved: whole registers, or the cells of an interleaved store.
StructureStep(m, i, read, write) ==
    LET a == X(m, i.n)
        n == i.count * Lanes
        loads == i.op = "ldn"
        group == IF i.interleaved THEN IF loads THEN n ELSE 1 ELSE Lanes
        k == Reached(IF loads THEN read ELSE write, a, n, group)
        moved == CASE ~loads -> WriteCells(m, a, SubSeq(Packed(m, i), 1, k))
                   [] loads /\ k = 0 -> m
                   [] loads /\ k > 0 -> Unpacked(m, i, a,
                        IF i.interleaved THEN 0..(i.count - 1) ELSE 0..(k \div Lanes - 1))
    IN IF k < n
         THEN Faults(moved)
         ELSE Retire([moved EXCEPT !.x = Written(@, i.n :> ((a + n) % Word)),
                                   !.monitor = loads /\ @])

\* ADD, ADDS, SUB, SUBS and CMP with an immediate, a shifted or an extended
\* register, in either width.
ArithmeticStep(m, i) ==
    LET lhs == X(m, i.n) % i.w
        second == IF i.sxtb THEN SignExtend(X(m, i.m) % Byte, i.w) ELSE X(m, i.m)
        rhs == (second * 2 ^ i.lsl + i.imm) % i.w
    IN Retire([m EXCEPT
          !.x = Written(@, i.d :> (IF i.sub THEN lhs + i.w - rhs ELSE lhs + rhs) % i.w),
          !.nzcv = IF ~i.flags THEN @
                   ELSE IF i.sub THEN SubFlags(lhs, rhs, i.w) ELSE NZCV(lhs, rhs, 0, i.w)])

\* ORR with 1, TST with a mask of low bits, LSL.
LogicalStep(m, i) ==
    LET y == X(m, i.n)
    IN Retire(CASE i.op = "orr" ->
                     [m EXCEPT !.x = Written(@, i.d :> (IF y % 2 = 0 THEN (y + 1) % Half
                                                        ELSE y % Half))]
                [] i.op = "tst" ->
                     [m EXCEPT !.nzcv = [n |-> FALSE, z |-> y % (i.imm + 1) = 0,
                                         c |-> FALSE, v |-> FALSE]]
                [] i.op = "lsl" ->
                     [m EXCEPT !.x = Written(@, i.d :> ((y * 2 ^ i.imm) % Word))])

\* B.cond, CBZ, CBNZ, TBNZ of bit 0, BR.
BranchStep(m, i) ==
    LET taken == CASE i.op = "bcond" -> Holds(i.c, m.nzcv)
                   [] i.op = "cbz" -> X(m, i.t) = 0
                   [] i.op = "cbnz" -> X(m, i.t) % Half # 0
                   [] i.op = "tbnz" -> X(m, i.t) % 2 = 1
                   [] i.op = "br" -> TRUE
    IN [m EXCEPT !.pc = IF i.op = "br" THEN X(m, i.t)
                        ELSE IF taken THEN i.to ELSE @ + 1]

Saturates(a, b) == a + b > Byte - 1
RoundedShift(y) == (y + Byte \div 2) \div Byte
NarrowedSum(a, b) == ((a + b + Byte \div 2) % (Byte * Byte)) \div Byte
SaturatedSum(a, b) == IF Saturates(a, b) THEN Byte - 1 ELSE a + b

\* URSHR by the width of a byte, RADDHN, UQADD, MVN and UMULL, lane by lane.
VectorStep(m, i) ==
    LET lane(l) ==
          CASE i.op = "urshr" -> RoundedShift(m.v[i.n][l])
            [] i.op = "raddhn" -> NarrowedSum(m.v[i.n][l], m.v[i.m][l])
            [] i.op = "uqadd" -> SaturatedSum(m.v[i.n][l], m.v[i.m][l])
            [] i.op = "mvn" -> Byte - 1 - m.v[i.n][l]
            [] i.op = "umull" -> m.v[i.n][l] * m.v[i.m][l]
        saturated == i.op = "uqadd" /\ \E l \in 1..Lanes : Saturates(m.v[i.n][l], m.v[i.m][l])
    IN Retire([m EXCEPT !.v = Written(@, i.d :> [l \in 1..Lanes |-> lane(l)]),
                        !.saturated = @ \/ saturated])

\* ordinary_instruction_dispatch.
Step(m, i, read, write) ==
    CASE i.op = "load" -> LoadStep(m, i, read)
      [] i.op \in {"ldp", "stp"} -> PairStep(m, i, read, write)
      [] i.op \in {"ldn", "stn"} -> StructureStep(m, i, read, write)
      [] i.op = "arith" -> ArithmeticStep(m, i)
      [] i.op \in {"orr", "tst", "lsl"} -> LogicalStep(m, i)
      [] i.op \in {"bcond", "cbz", "cbnz", "tbnz", "br"} -> BranchStep(m, i)
      [] i.op \in {"urshr", "raddhn", "uqadd", "mvn", "umull"} -> VectorStep(m, i)
      [] i.op = "adrp" -> Retire([m EXCEPT !.x = Written(@, i.d :> i.imm)])
      [] i.op = "prfm" -> Retire(m)

-----------------------------------------------------------------------------
(* The loops, instruction by instruction.  A branch out of the loop names an *)
(* index outside the sequence, where the machine stops.                      *)

Load(t, n, m, imm, signed) ==
    [op |-> "load", t |-> t, n |-> n, m |-> m, imm |-> imm, signed |-> signed]
Pair(op, t, d, n, imm, back) ==
    [op |-> op, t |-> t, d |-> d, n |-> n, imm |-> imm, back |-> back]
Structure(op, t, n, count, interleaved) ==
    [op |-> op, t |-> t, n |-> n, count |-> count, interleaved |-> interleaved]
Arithmetic(sub, flags, w, d, n, m, lsl, imm) ==
    [op |-> "arith", sub |-> sub, flags |-> flags, w |-> w, d |-> d, n |-> n,
     m |-> m, lsl |-> lsl, imm |-> imm, sxtb |-> FALSE]
Add(d, n, imm) == Arithmetic(FALSE, FALSE, Word, d, n, 31, 0, imm)
AddW(d, n, imm) == Arithmetic(FALSE, FALSE, Half, d, n, 31, 0, imm)
AddShifted(d, n, m, lsl) == Arithmetic(FALSE, FALSE, Word, d, n, m, lsl, 0)
Sub(d, n, imm) == Arithmetic(TRUE, FALSE, Word, d, n, 31, 0, imm)
Subs(d, n, imm) == Arithmetic(TRUE, TRUE, Word, d, n, 31, 0, imm)
Compare(w, n, m) == Arithmetic(TRUE, TRUE, w, 31, n, m, 0, 0)
Logical(op, d, n, imm) == [op |-> op, d |-> d, n |-> n, imm |-> imm]
BranchIf(c, to) == [op |-> "bcond", c |-> c, to |-> to]
Branch(op, t, to) == [op |-> op, t |-> t, to |-> to]
Vector(op, d, n, m) == [op |-> op, d |-> d, n |-> n, m |-> m]
Prefetch == [op |-> "prfm"]

\* stp x1, x1, [x0], #16; subs x2, x2, #1; b.ne
FillCode == <<Pair("stp", 1, 1, 0, 0, 2), Subs(2, 2, 1), BranchIf("ne", 1)>>

\* stp x1, x1, [x0, #16]; stp x1, x1, [x0, #32]!; subs x2, x2, #32; b.hi
MemsetCode == <<Pair("stp", 1, 1, 0, 2, 0), Pair("stp", 1, 1, 0, 4, 4),
                Subs(2, 2, 32), BranchIf("hi", 1)>>

\* st1 {v0, v1}, [x0], #16; subs x2, x2, #1; b.ne
SolidCode == <<Structure("stn", 0, 0, 2, FALSE), Subs(2, 2, 1), BranchIf("ne", 1)>>

MemcmpCode ==
    <<Branch("cbz", 2, 11), Load(3, 0, 31, 0, FALSE), Sub(2, 2, 1), Load(4, 1, 31, 0, FALSE),
      Add(0, 0, 1), Add(1, 1, 1), Compare(Half, 3, 4), BranchIf("eq", 1)>>

HashChainCode ==
    <<Branch("tbnz", 6, 27), Add(5, 5, 1), AddW(8, 8, 1), Load(6, 5, 31, 0, FALSE),
      Logical("orr", 0, 6, 1), Compare(Half, 10, 0), BranchIf("ne", 1)>>

SymbolCode(l, r, lt, rt, miss) ==
    <<Load(lt, l, 1, 0, FALSE), Load(rt, r, 1, 0, FALSE), Compare(Half, lt, rt),
      BranchIf("ne", miss), Add(1, 1, 1), Branch("cbnz", lt, 1)>>

HashCode ==
    <<AddW(24, 24, 1), Arithmetic(FALSE, FALSE, Half, 26, 26, 26, 5, 0),
      [Arithmetic(FALSE, FALSE, Half, 26, 26, 2, 0, 0) EXCEPT !.sxtb = TRUE],
      Load(2, 1, 24, 0, FALSE), Branch("cbnz", 2, 1)>>

ScanCode == <<Add(1, 1, 1), Load(2, 1, 31, 0, FALSE), Branch("cbnz", 2, 1)>>

MemcpyCode ==
    <<Pair("stp", 6, 7, 3, 2, 0), Pair("ldp", 6, 7, 1, 2, 0),
      Pair("stp", 8, 9, 3, 4, 0), Pair("ldp", 8, 9, 1, 4, 0),
      Pair("stp", 10, 11, 3, 6, 0), Pair("ldp", 10, 11, 1, 6, 0),
      Pair("stp", 12, 13, 3, 8, 8), Pair("ldp", 12, 13, 1, 8, 8),
      Subs(2, 2, 64), BranchIf("hi", 1)>>

CopyCode ==
    <<Structure("stn", 0, 2, 4, FALSE), Structure("ldn", 0, 4, 4, FALSE),
      Add(10, 10, 8), Logical("tst", 31, 9, 15), BranchIf("eq", 8),
      Add(10, 10, 8), Sub(9, 9, 1), Compare(Word, 10, 14), Logical("lsl", 15, 10, 2),
      Prefetch, BranchIf("le", 17), Arithmetic(TRUE, FALSE, Word, 10, 10, 14, 0, 0),
      Subs(9, 9, 16), BranchIf("le", 17), AddShifted(11, 11, 5, 2),
      Load(15, 11, 31, 0, TRUE), Subs(0, 0, 8), BranchIf("ge", 1)>>

OverPrefixCode ==
    <<Structure("ldn", 4, 8, 4, TRUE), Vector("urshr", 14, 8, 8), Add(10, 10, 8),
      Logical("tst", 31, 9, 15), Vector("urshr", 15, 9, 9), Vector("urshr", 16, 10, 10),
      Vector("urshr", 17, 11, 11), BranchIf("eq", 11), Add(10, 10, 8), Sub(9, 9, 1),
      Vector("raddhn", 28, 14, 8), Vector("raddhn", 29, 15, 9), Compare(Word, 10, 14),
      Vector("raddhn", 30, 16, 10), Vector("raddhn", 31, 17, 11),
      Vector("uqadd", 28, 0, 28), Vector("uqadd", 29, 1, 29), Vector("uqadd", 30, 2, 30),
      Vector("uqadd", 31, 3, 31), Structure("ldn", 0, 4, 4, TRUE),
      Logical("lsl", 15, 10, 2), Prefetch, Vector("mvn", 22, 3, 3),
      Logical("lsl", 15, 10, 2), Prefetch, Structure("stn", 28, 2, 4, TRUE)>>

OverTailCode ==
    <<BranchIf("le", 29), Arithmetic(TRUE, FALSE, Word, 10, 10, 14, 0, 0),
      Vector("umull", 8, 22, 4), BranchIf("le", 32), Subs(9, 9, 16),
      Vector("umull", 9, 22, 5), BranchIf("le", 36), AddShifted(11, 11, 5, 2),
      Load(15, 11, 31, 0, TRUE), Vector("umull", 10, 22, 6), BranchIf("le", 40),
      AddShifted(12, 12, 3, 2), Load(15, 12, 31, 0, TRUE), Vector("umull", 11, 22, 7),
      Subs(0, 0, 8), BranchIf("ge", 1)>>

\* adrp x16; ldr x17, [x16, #8]; add x16, x16, #8; br x17
ThunkCode == <<[op |-> "adrp", d |-> 16, imm |-> PageSize], Load(17, 16, 31, 1, FALSE),
               Add(16, 16, 1), Branch("br", 17, 0)>>

Programs ==
    [fill |-> FillCode, memset |-> MemsetCode, solid |-> SolidCode,
     memcmp |-> MemcmpCode, chain |-> HashChainCode,
     gnu |-> SymbolCode(3, 9, 4, 7, -18), sysv |-> SymbolCode(0, 6, 3, 4, -11),
     hash |-> HashCode, scan |-> ScanCode, memcpy |-> MemcpyCode, copy |-> CopyCode,
     over |-> OverPrefixCode \o OverTailCode, thunk |-> ThunkCode]

-----------------------------------------------------------------------------
(* The fast paths.  One yields whether it was used, how many instructions it *)
(* stands for, and the machine it leaves, which a declined one may have      *)
(* changed already.                                                          *)

Used(steps, m) == [used |-> TRUE, steps |-> steps, m |-> m]
Declined(m) == [used |-> FALSE, steps |-> 0, m |-> m]

\* Mutant of CountAfter: the counter stops at zero.
CountDownToZero(count, by, k) == Max({0, count - k * by})

\* The passes of a loop that ends with SUBS and B.cond, at most limit of them.
CountAfter(count, by, k) == (count - k * by) % Word
CountFlags(count, by, k) == SubFlags(CountAfter(count, by, k - 1), by, Word)
CountExits(count, by, c, limit) ==
    {k \in 1..limit : ~Holds(c, CountFlags(count, by, k))}
Passes(count, by, c, limit) ==
    IF CountExits(count, by, c, limit) = {} THEN limit
    ELSE Min(CountExits(count, by, c, limit))

\* How far the base has moved before the k-th store of a fill.
Moved(p, k) == MapThenSumSet(LAMBDA j : p[j].back, 1..(k - 1))

\* The stores of one pass write consecutive pairs of one register and leave
\* the base where the next pass goes on.
FillShape(p) ==
    LET n == Len(p)
        first(k) == Moved(p, k) + p[k].imm
    IN /\ n >= 3 /\ p[n].op = "bcond" /\ p[n].to = 1
       /\ p[n - 1].op = "arith" /\ p[n - 1].sub /\ p[n - 1].flags
       /\ p[n - 1].d = p[n - 1].n /\ p[n - 1].w = Word /\ p[n - 1].imm > 0
       /\ \A k \in 1..(n - 2) :
            /\ p[k].op = "stp" /\ p[k].n = p[1].n /\ p[k].t = p[1].t /\ p[k].d = p[1].t
            /\ k > 1 => first(k) = first(k - 1) + 2
       /\ p[1].t # p[1].n /\ p[n - 1].d # p[1].n
       /\ Moved(p, n - 1) > 0 /\ Moved(p, n - 1) = 2 * (n - 2)

\* try_execute_store_pair_fill_loop.
StorePairFill(p, m, budget, write) ==
    LET n == Len(p)
        subtract == p[n - 1]
        count == X(m, subtract.n)
        passes == Passes(count, subtract.imm, p[n].c, budget \div n)
        start == X(m, p[1].n) + p[1].imm
        cells == passes * 2 * (n - 2)
        base == (X(m, p[1].n) + passes * Moved(p, n - 1)) % Word
    IN IF ~FillShape(p) \/ budget \div n = 0 \/ ~Access(write, start, cells)
         THEN Declined(m)
         ELSE Used(passes * n,
                [StoreCells(m, start, [i \in 1..cells |-> X(m, p[1].t)]) EXCEPT
                   !.x = Written(@, p[1].n :> base
                                 @@ subtract.d :> CountAfter(count, subtract.imm, passes)),
                   !.nzcv = CountFlags(count, subtract.imm, passes),
                   !.pc = IF Holds(p[n].c, CountFlags(count, subtract.imm, passes))
                          THEN 1 ELSE n + 1])

\* try_execute_simd_solid_fill_loop.
SolidFill(p, m, budget, write) ==
    LET count == X(m, p[2].n)
        passes == Passes(count, p[2].imm, p[3].c, budget \div 3)
        pattern == m.v[p[1].t]
        start == X(m, p[1].n)
        cells == passes * p[1].count * Lanes
    IN IF \/ budget < 3 \/ p[1].interleaved \/ p[2].d = p[1].n
          \/ \E k \in 0..(p[1].count - 1) : m.v[p[1].t + k] # pattern
          \/ ~Access(write, start, cells)
         THEN Declined(m)
         ELSE Used(passes * 3,
                [StoreCells(m, start, [i \in 1..cells |-> pattern[((i - 1) % Lanes) + 1]]) EXCEPT
                   !.x = Written(@, p[1].n :> ((start + cells) % Word)
                                 @@ p[2].d :> CountAfter(count, p[2].imm, passes)),
                   !.nzcv = CountFlags(count, p[2].imm, passes),
                   !.pc = IF Holds(p[3].c, CountFlags(count, p[2].imm, passes)) THEN 1 ELSE 4])

\* Mutant of MemcmpBytes: the CBZ is not counted.
MemcmpBytesOfSeven(budget) == budget \div 7

\* The bytes a budget allows: the CBZ ahead of the body runs again after every
\* equal byte but the last of the chunk, so a byte takes eight instructions.
MemcmpBytes(budget) == (budget + 1) \div 8

\* try_execute_musl_memcmp_loop.
Memcmp(m, budget, read) ==
    LET a == X(m, 0)
        b == X(m, 1)
        n == Min({MemcmpBytes(budget), X(m, 2), MaxBytes, PageLeft(a), PageLeft(b)})
        differ == {k \in 1..n : m.mem[a + k - 1] # m.mem[b + k - 1]}
        done == IF differ = {} THEN n ELSE Min(differ)
        l == m.mem[a + done - 1]
        r == m.mem[b + done - 1]
    IN IF budget < 7 \/ n = 0 \/ ~Access(read, a, n) \/ ~Access(read, b, n)
         THEN Declined(m)
         ELSE Used(done * 7 + (done - 1),
                [m EXCEPT !.x = Written(@, 0 :> a + done @@ 1 :> b + done
                                        @@ 2 :> X(m, 2) - done @@ 3 :> l @@ 4 :> r),
                          !.nzcv = SubFlags(l, r, Half),
                          !.pc = IF differ = {} THEN @ - 1 ELSE @ + 7])

\* try_execute_musl_gnu_hash_chain_loop.
HashChain(m, budget, read) ==
    LET a == X(m, 5)
        target == X(m, 10) % Half
        n == Min({budget \div 7, MaxBytes, PageLeft(a)})
        entry(k) == m.mem[a + k - 1]
        candidate(k) == IF entry(k) % 2 = 0 THEN entry(k) + 1 ELSE entry(k)
        stops == {k \in 1..n : candidate(k) = target \/ entry(k) % 2 = 1}
        last == IF stops = {} THEN n ELSE Min(stops)
        passed == IF stops = {} THEN n ELSE last - 1
        matched == candidate(last) = target
    IN IF budget < 7 \/ n = 0 \/ ~Access(read, a, n)
         THEN Declined(m)
         ELSE Used(7 * passed + (IF stops = {} THEN 0 ELSE IF matched THEN 4 ELSE 5),
                [m EXCEPT !.x = Written(@, 0 :> candidate(last) @@ 5 :> a + passed
                                        @@ 6 :> entry(last) @@ 8 :> (X(m, 8) + passed) % Half),
                          !.nzcv = SubFlags(target, candidate(last), Half),
                          !.pc = IF stops = {} THEN @ ELSE IF matched THEN @ + 4 ELSE @ + 23])

\* try_execute_musl_symbol_name_compare_loop, for both of its variants.
SymbolCompare(p, m, budget, read) ==
    LET a == X(m, p[1].n) + X(m, 1)
        b == X(m, p[2].n) + X(m, 1)
        n == Min({budget \div 6, MaxBytes, PageLeft(a), PageLeft(b)})
        stops == {k \in 1..n : m.mem[a + k - 1] # m.mem[b + k - 1] \/ m.mem[a + k - 1] = 0}
        done == IF stops = {} THEN n ELSE Min(stops)
        l == m.mem[a + done - 1]
        r == m.mem[b + done - 1]
    IN IF budget < 6 \/ n = 0 \/ ~Access(read, a, n) \/ ~Access(read, b, n)
         THEN Declined(m)
         ELSE Used(IF l # r THEN (done - 1) * 6 + 4 ELSE done * 6,
                [m EXCEPT !.x = Written(@, 1 :> X(m, 1) + (IF l # r THEN done - 1 ELSE done)
                                        @@ p[1].t :> l @@ p[2].t :> r),
                          !.nzcv = SubFlags(l, r, Half),
                          !.pc = IF l # r THEN p[4].to ELSE IF l = 0 THEN @ + 6 ELSE @])

\* try_execute_glib_djb2_string_hash_loop: the byte hashed is the one read
\* the pass before.
StringHash(m, budget, read) ==
    LET a == X(m, 1) + (X(m, 24) % Half) + 1
        n == Min({budget \div 5, MaxBytes, PageLeft(a)})
        ends == {k \in 1..n : m.mem[a + k - 1] = 0}
        done == IF ends = {} THEN n ELSE Min(ends)
        hashed(k) == IF k = 1 THEN X(m, 2) % Byte ELSE m.mem[a + k - 2]
        hash[k \in 0..done] ==
          IF k = 0 THEN X(m, 26) % Half
          ELSE (hash[k - 1] * 33 + SignExtend(hashed(k), Half)) % Half
    IN IF budget < 5 \/ a >= Word \/ n = 0 \/ ~Access(read, a, n)
         THEN Declined(m)
         ELSE Used(done * 5,
                [m EXCEPT !.x = Written(@, 24 :> (X(m, 24) + done) % Half @@ 26 :> hash[done]
                                        @@ 2 :> m.mem[a + done - 1]),
                          !.pc = IF ends = {} THEN @ ELSE @ + 5])

\* try_execute_byte_string_scan_loop.
StringScan(m, budget, read) ==
    LET a == X(m, 1) + 1
        n == Min({budget \div 3, MaxBytes, PageLeft(a)})
        ends == {k \in 1..n : m.mem[a + k - 1] = 0}
        done == IF ends = {} THEN n ELSE Min(ends)
    IN IF budget < 3 \/ a >= Word \/ n = 0 \/ ~Access(read, a, n)
         THEN Declined(m)
         ELSE Used(done * 3,
                [m EXCEPT !.x = Written(@, 1 :> X(m, 1) + done @@ 2 :> m.mem[a + done - 1]),
                          !.pc = IF ends = {} THEN @ ELSE @ + 3])

\* The pipelined copies: each pass writes what the pass before has read.
\* A pass that cannot be done leaves what was written before it.
CopyThrough(m, first, source, target, passes, read, write) ==
    LET n == Len(first)
        copy[k \in 0..passes] ==
          IF k = 0 THEN [m |-> m, next |-> first, ok |-> TRUE]
          ELSE LET c == copy[k - 1]
                   from == source + (k - 1) * n
                   to == target + (k - 1) * n
                   written == WriteCells(c.m, to, c.next)
               IN IF ~c.ok \/ ~Access(write, to, n) THEN [c EXCEPT !.ok = FALSE]
                  ELSE IF ~Access(read, from, n) THEN [c EXCEPT !.ok = FALSE, !.m = written]
                  ELSE [m |-> written, next |-> ReadCells(written, from, n), ok |-> TRUE]
    IN copy[passes]

\* try_execute_musl_memcpy_64_loop.
Memcpy64(m, budget, read, write) ==
    LET source == X(m, 1) + 2
        target == X(m, 3) + 2
        limit == Min({budget \div 10, MaxIterations,
                      PageLeft(source) \div 8, PageLeft(target) \div 8})
        passes == Passes(X(m, 2), 64, "hi", limit)
        flags == CountFlags(X(m, 2), 64, passes)
        copied == CopyThrough(m, [i \in 1..8 |-> X(m, 5 + i)], source, target, passes,
                              read, write)
    IN IF budget < 10 \/ limit = 0 \/ source >= Word \/ target >= Word THEN Declined(m)
       ELSE IF ~copied.ok THEN Declined(copied.m)
       ELSE Used(passes * 10,
              [copied.m EXCEPT
                 !.x = Written(@, 1 :> X(m, 1) + passes * 8 @@ 3 :> X(m, 3) + passes * 8
                               @@ 2 :> CountAfter(X(m, 2), 64, passes)
                               @@ [r \in 6..13 |-> copied.next[r - 5]]),
                 !.monitor = FALSE, !.nzcv = flags,
                 !.pc = IF Holds("hi", flags) THEN @ ELSE @ + 10])

\* The scalar part of one pass of pixman's copy, which probes the next row's
\* first byte when a row ends.
CopyPass(r, m, budget, read) ==
    LET odd == r.x9 % 16 # 0
        x9 == IF odd THEN r.x9 - 1 ELSE r.x9
        x10 == (r.x10 + (IF odd THEN 16 ELSE 8)) % Word
        rowEnds == ~Holds("le", SubFlags(x10, X(m, 14), Word))
        probes == rowEnds /\ ~Holds("le", SubFlags(x9, 16, Word))
        x11 == IF probes THEN (r.x11 + X(m, 5) * 4) % Word ELSE r.x11
        steps == r.steps + 11 + (IF odd THEN 2 ELSE 0) + (IF rowEnds THEN 3 ELSE 0)
                 + (IF probes THEN 2 ELSE 0)
    IN IF r.status # "run" THEN r
       ELSE IF probes /\ ~Access(read, x11, 1) THEN [r EXCEPT !.status = "fault"]
       ELSE IF steps > budget THEN [r EXCEPT !.status = "spent"]
       ELSE [x0 |-> (r.x0 - 8) % Word,
             x9 |-> IF rowEnds THEN (x9 - 16) % Word ELSE x9,
             x10 |-> IF rowEnds THEN (x10 - X(m, 14)) % Word ELSE x10,
             x11 |-> x11,
             x15 |-> IF probes THEN SignExtend(m.mem[x11], Word) ELSE (x10 * 4) % Word,
             flags |-> SubFlags(r.x0, 8, Word),
             steps |-> steps, passes |-> r.passes + 1,
             status |-> IF Holds("ge", SubFlags(r.x0, 8, Word)) THEN "run" ELSE "exit"]

\* try_execute_pixman_neon_copy_loop.
NeonCopy(m, budget, read, write) ==
    LET n == 4 * Lanes
        source == X(m, 4)
        target == X(m, 2)
        limit == Min({budget \div 11, MaxIterations,
                      PageLeft(source) \div n, PageLeft(target) \div n})
        row[k \in 0..limit] ==
          IF k = 0 THEN [x0 |-> X(m, 0), x9 |-> X(m, 9), x10 |-> X(m, 10), x11 |-> X(m, 11),
                         x15 |-> X(m, 15), flags |-> m.nzcv, steps |-> 0, passes |-> 0,
                         status |-> "run"]
          ELSE CopyPass(row[k - 1], m, budget, read)
        r == row[limit]
        copied == CopyThrough(m, Packed(m, CopyCode[1]), source, target, r.passes, read, write)
    IN IF budget < 11 \/ r.status = "fault" \/ r.passes = 0 THEN Declined(m)
       ELSE IF ~copied.ok THEN Declined(copied.m)
       ELSE Used(r.steps,
              [copied.m EXCEPT
                 !.x = Written(@, 2 :> target + r.passes * n @@ 4 :> source + r.passes * n
                               @@ 0 :> r.x0 @@ 9 :> r.x9 @@ 10 :> r.x10 @@ 11 :> r.x11
                               @@ 15 :> r.x15),
                 !.v = Written(@, [k \in 0..3 |-> SubSeq(copied.next, k * Lanes + 1,
                                                         (k + 1) * Lanes)]),
                 !.monitor = FALSE, !.nzcv = r.flags,
                 !.pc = IF r.status = "exit" THEN @ + 18 ELSE @])

\* try_execute_pixman_source_over_prefix: the blend of the block read one
\* pass before, the loads of the next one, and the store.  The vectors and
\* the saturation bit are set before the store is tried.
OverPrefix(m, budget, read, write) ==
    LET n == 4 * Lanes
        odd == X(m, 9) % 16 # 0
        steps == IF odd THEN 26 ELSE 24
        x10 == (X(m, 10) + (IF odd THEN 16 ELSE 8)) % Word
        rounded(k) == [l \in 1..Lanes |-> RoundedShift(m.v[8 + k][l])]
        scaled(k) == [l \in 1..Lanes |-> NarrowedSum(rounded(k)[l], m.v[8 + k][l])]
        blended(k) == [l \in 1..Lanes |-> SaturatedSum(m.v[k][l], scaled(k)[l])]
        loaded(a, k) == [l \in 1..Lanes |-> m.mem[a + 4 * (l - 1) + k]]
        computed ==
          [m EXCEPT !.v = Written(@,
                      [r \in 4..7 |-> loaded(X(m, 8), r - 4)]
                      @@ [r \in 14..17 |-> rounded(r - 14)]
                      @@ [r \in 28..31 |-> blended(r - 28)]
                      @@ [r \in 0..3 |-> loaded(X(m, 4), r)]
                      @@ 22 :> [l \in 1..Lanes |-> Byte - 1 - loaded(X(m, 4), 3)[l]]),
                    !.saturated = @ \/ \E k \in 0..3, l \in 1..Lanes :
                                        Saturates(m.v[k][l], scaled(k)[l])]
        output == Packed(computed, OverPrefixCode[26])
    IN IF \/ budget < steps \/ ~Access(read, X(m, 8), n) \/ ~Access(read, X(m, 4), n)
         THEN Declined(m)
       ELSE IF ~Access(write, X(m, 2), n) THEN Declined(computed)
       ELSE Used(steps,
              [StoreCells(computed, X(m, 2), output) EXCEPT
                 !.x = Written(@, 4 :> X(m, 4) + n @@ 8 :> X(m, 8) + n @@ 2 :> X(m, 2) + n
                               @@ 9 :> X(m, 9) - (IF odd THEN 1 ELSE 0)
                               @@ 10 :> x10 @@ 15 :> (x10 * 4) % Word),
                 !.nzcv = SubFlags(x10, X(m, 14), Word),
                 !.pc = @ + 26])

\* try_execute_pixman_source_over_tail: the products of the block just read,
\* and the row arithmetic.
OverTail(m, budget, read) ==
    LET rowEnds == ~Holds("le", m.nzcv)
        probes == rowEnds /\ ~Holds("le", SubFlags(X(m, 9), 16, Word))
        steps == IF ~rowEnds THEN 10 ELSE IF probes THEN 16 ELSE 12
        x11 == (X(m, 11) + X(m, 5) * 4) % Word
        x12 == (X(m, 12) + X(m, 3) * 4) % Word
        flags == SubFlags(X(m, 0), 8, Word)
    IN IF \/ budget < steps
          \/ probes /\ (~Access(read, x11, 1) \/ ~Access(read, x12, 1))
         THEN Declined(m)
         ELSE Used(steps,
                [m EXCEPT
                   !.v = Written(@, [r \in 8..11 |->
                            [l \in 1..Lanes |-> m.v[22][l] * m.v[r - 4][l]]]),
                   !.x = Written(@, 0 :> (X(m, 0) - 8) % Word
                           @@ (IF rowEnds THEN 9 :> (X(m, 9) - 16) % Word
                                               @@ 10 :> (X(m, 10) - X(m, 14)) % Word
                               ELSE << >>)
                           @@ (IF probes THEN 11 :> x11 @@ 12 :> x12
                                              @@ 15 :> SignExtend(m.mem[x12], Word)
                               ELSE << >>)),
                   !.nzcv = flags,
                   !.pc = IF Holds("ge", flags) THEN @ - 26 ELSE @ + 16])

\* try_execute_pixman_source_over_loop: prefix and tail in turn while the
\* budget lasts and the loop goes on.
OverLoop(m, budget, read, write) ==
    LET pass[k \in 0..MaxIterations] ==
          IF k = 0 THEN [m |-> m, steps |-> 0, more |-> TRUE]
          ELSE LET q == pass[k - 1]
                   a == OverPrefix(q.m, budget - q.steps, read, write)
                   b == OverTail(a.m, budget - q.steps - a.steps, read)
               IN IF ~q.more THEN q
                  ELSE IF ~a.used THEN [q EXCEPT !.m = a.m, !.more = FALSE]
                  ELSE [m |-> b.m, steps |-> q.steps + a.steps + b.steps,
                        more |-> b.used /\ b.m.pc = m.pc]
        last == pass[MaxIterations]
    IN IF last.steps = 0 THEN Declined(last.m) ELSE Used(last.steps, last.m)

\* try_execute_elf_plt_thunk: a load that faults leaves the machine at the
\* load, with the page in the base register.
Thunk(p, m, budget, read) ==
    LET a == p[1].imm + p[2].imm
        target == m.mem[a]
    IN IF budget < 4 THEN Declined(m)
       ELSE IF ~Access(read, a, 1)
         THEN Used(1, [m EXCEPT !.x = Written(@, p[1].d :> p[1].imm), !.pc = @ + 1])
         ELSE Used(4, [m EXCEPT !.x = Written(@, p[2].t :> target
                                              @@ p[1].d :> p[1].imm + p[3].imm),
                                !.pc = target])

\* avz_native_classify_semantic_candidate: the instruction a fast path of
\* the loop is tried at.
Candidates(name) ==
    CASE name = "memcmp" -> {2}
      [] name = "chain" -> {4}
      [] name = "over" -> {1, 27}
      [] name \notin {"memcmp", "chain", "over"} -> {1}

\* The dispatcher's switch over the candidates.
Accelerated(name, m, budget, read, write) ==
    LET p == Programs[name]
    IN CASE name \in {"fill", "memset"} -> StorePairFill(p, m, budget, write)
         [] name = "solid" -> SolidFill(p, m, budget, write)
         [] name = "memcmp" -> Memcmp(m, budget, read)
         [] name = "chain" -> HashChain(m, budget, read)
         [] name \in {"gnu", "sysv"} -> SymbolCompare(p, m, budget, read)
         [] name = "hash" -> StringHash(m, budget, read)
         [] name = "scan" -> StringScan(m, budget, read)
         [] name = "memcpy" -> Memcpy64(m, budget, read, write)
         [] name = "copy" -> NeonCopy(m, budget, read, write)
         [] name = "over" /\ m.pc = 1 -> OverLoop(m, budget, read, write)
         [] name = "over" /\ m.pc # 1 -> OverTail(m, budget, read)
         [] name = "thunk" -> Thunk(p, m, budget, read)

-----------------------------------------------------------------------------

Code == Programs[loop.name]
Runs(m) == ~m.fault /\ m.pc \in 1..Len(Code)
StepOf(m) == Step(m, Code[m.pc], loop.read, loop.write)

Init ==
    \E s \in Starts :
        /\ loop = [name |-> s.name, read |-> s.read, write |-> s.write]
        /\ fast = s.machine
        /\ slow = s.machine
        /\ left = s.budget
        /\ debt = 0

\* One turn of the dispatcher at an instruction it has no fast path for, or
\* that is not the start of a decoded block.
Ordinary ==
    /\ debt = 0 /\ left > 0 /\ Runs(fast)
    /\ fast' = StepOf(fast)
    /\ slow' = StepOf(slow)
    /\ left' = left - 1
    /\ UNCHANGED <<loop, debt>>

\* One turn at a candidate.  A declined fast path leaves the instruction to
\* its ordinary handler, on the machine as the fast path has left it.
Accelerate ==
    /\ debt = 0 /\ left > 0 /\ Runs(fast) /\ fast.pc \in Candidates(loop.name)
    /\ LET a == Accelerated(loop.name, fast, left, loop.read, loop.write)
       IN IF a.used
            THEN fast' = a.m /\ left' = left - a.steps /\ debt' = a.steps /\ slow' = slow
            ELSE fast' = StepOf(a.m) /\ left' = left - 1 /\ debt' = 0 /\ slow' = StepOf(slow)
    /\ UNCHANGED loop

\* The reference executes one of the accelerated instructions.
CatchUp ==
    /\ debt > 0 /\ Runs(slow)
    /\ slow' = StepOf(slow)
    /\ debt' = debt - 1
    /\ UNCHANGED <<loop, fast, left>>

Next == Ordinary \/ Accelerate \/ CatchUp

Spec == Init /\ [][Next]_vars

-----------------------------------------------------------------------------

\* An accelerated loop is the loop: when the reference has executed as many
\* instructions as a fast path claims to stand for, both machines agree in
\* every register, flag, vector, memory cell, monitor and fault, and the
\* reference never stops (by a fault or by leaving the loop) before that.
AcceleratedIsExact ==
    /\ debt = 0 => fast = slow
    /\ debt > 0 => Runs(slow)

\* A fast path never runs past the instructions the slice has left, after
\* which timers and interrupts are looked at.
BudgetKept == left >= 0

==================================================
