------------------------ MODULE TranslationCacheProofs ------------------------
(***************************************************************************)
(* Proofs about TranslationCache for any virtual CPUs, any size of journal, *)
(* tables and epoch, and any programs.                                     *)
(***************************************************************************)
EXTENDS TranslationCache, WellFoundedInduction, TLAPS

-----------------------------------------------------------------------------
(* Registers.  Every argument about a CPU's registers is about three       *)
(* values: the native state a, Swift's copy w and the architecture's       *)
(* stack pointers b.  What values registers hold does not matter: they are *)
(* members of some set V.                                                  *)

ArchIn(V) ==
    [reg : [Registers -> V], dirty : SUBSET Registers, sp : V, pc : V, counter : V,
     clocked : BOOLEAN, unpolled : V, pendingIRQ : BOOLEAN, pstate : PStates]

Live(a) == IF a.pstate.spsel = 0 THEN "sp_el0" ELSE "sp_el1"
RegistersTyped(a, w, b) ==
    /\ \E V : a \in ArchIn(V) /\ w \in [Registers -> V] /\ b \in [{0, 1} -> V]
    /\ a.reg["spsr"] \in PStates
\* The registers that have left native code, apart from some, agree with Swift.
SwiftAgrees(a, w, but) == \A r \in Registers \ but : r \notin a.dirty => w[r] = a.reg[r]
Banked(a, b) ==
    /\ a.sp = b[a.pstate.spsel]
    /\ a.reg[IF a.pstate.spsel = 0 THEN "sp_el1" ELSE "sp_el0"] = b[1 - a.pstate.spsel]

RegisterInvariant(a, w, b) == RegistersTyped(a, w, b) /\ Banked(a, b) /\ SwiftAgrees(a, w, {Live(a)})

\* Types do not depend on the set of values chosen.
LEMMA WiderValues ==
    ASSUME NEW V, NEW W, V \subseteq W, NEW a \in ArchIn(V)
    PROVE  a \in ArchIn(W)
  BY DEF ArchIn

\* A register that is assigned is dirty, and nothing else changes.
LEMMA AssignFacts ==
    ASSUME NEW V, NEW a \in ArchIn(V), NEW r \in Registers, NEW v \in V
    PROVE  LET x == Assign(a, r, v)
           IN  /\ x \in ArchIn(V) /\ x.reg[r] = v /\ x.dirty = a.dirty \cup {r}
               /\ \A q \in Registers \ {r} : x.reg[q] = a.reg[q]
               /\ x.sp = a.sp /\ x.pc = a.pc /\ x.pstate = a.pstate
  <1> DEFINE reg == [a.reg EXCEPT ![r] = v]
             dirty == a.dirty \cup {r}
  <1>1. reg \in [Registers -> V] /\ reg[r] = v /\ \A q \in Registers \ {r} : reg[q] = a.reg[q]
    BY DEF ArchIn
  <1>2. dirty \in SUBSET Registers
    BY DEF ArchIn
  <1>3. Assign(a, r, v) = [a EXCEPT !.reg = reg, !.dirty = dirty]
    BY DEF Assign, ArchIn
  <1> HIDE DEF reg
  <1>4. LET x == [a EXCEPT !.reg = reg, !.dirty = dirty]
        IN  x \in ArchIn(V) /\ x.reg = reg /\ x.dirty = dirty /\ x.sp = a.sp /\ x.pc = a.pc /\ x.pstate = a.pstate
    BY <1>1, <1>2 DEF ArchIn
  <1> QED
    BY <1>1, <1>3, <1>4

\* A register that is assigned keeps what Swift agrees on.
LEMMA AssignAgrees ==
    ASSUME NEW V, NEW a \in ArchIn(V), NEW r \in Registers, NEW v \in V, NEW w, NEW but, SwiftAgrees(a, w, but)
    PROVE  SwiftAgrees(Assign(a, r, v), w, but \ {r})
  BY AssignFacts DEF SwiftAgrees

\* Banking the live stack pointer makes all registers those of the architecture.
LEMMA BankFacts ==
    ASSUME NEW V, NEW a \in ArchIn(V), NEW w, NEW b \in [{0, 1} -> V], Banked(a, b), SwiftAgrees(a, w, {Live(a)}),
           a.reg["spsr"] \in PStates
    PROVE  LET x == BankStackPointer(a)
           IN  /\ x \in ArchIn(V) /\ x.reg["sp_el0"] = b[0] /\ x.reg["sp_el1"] = b[1]
               /\ SwiftAgrees(x, w, {}) /\ x.reg["spsr"] = a.reg["spsr"]
               /\ x.pc = a.pc /\ x.pstate = a.pstate
  <1>1. Live(a) \in Registers /\ a.sp \in V /\ Live(a) # "spsr"
    BY DEF Live, Registers, ArchIn
  <1>2. BankStackPointer(a) = Assign(a, Live(a), a.sp)
    BY DEF BankStackPointer, Live
  <1>3. a.pstate.spsel \in {0, 1}
    BY DEF ArchIn, PStates
  <1>4. LET x == Assign(a, Live(a), a.sp)
        IN  /\ x \in ArchIn(V) /\ x.reg[Live(a)] = a.sp
            /\ \A q \in Registers \ {Live(a)} : x.reg[q] = a.reg[q]
            /\ x.pc = a.pc /\ x.pstate = a.pstate
    BY <1>1, AssignFacts
  <1>5. SwiftAgrees(Assign(a, Live(a), a.sp), w, {})
    <2>1. SwiftAgrees(Assign(a, Live(a), a.sp), w, {Live(a)} \ {Live(a)})
      BY <1>1, AssignAgrees
    <2> QED
      BY <2>1 DEF SwiftAgrees
  <1> DEFINE x == Assign(a, Live(a), a.sp)
  <1> HIDE DEF x
  <1>6. x.reg["sp_el0"] = b[0] /\ x.reg["sp_el1"] = b[1]
    <2>1. CASE a.pstate.spsel = 0
      BY <2>1, <1>4 DEF Live, Banked, Registers, x
    <2>2. CASE a.pstate.spsel = 1
      BY <2>2, <1>4 DEF Live, Banked, Registers, x
    <2> QED
      BY <2>1, <2>2, <1>3
  <1>7. x.reg["spsr"] = a.reg["spsr"]
    BY <1>1, <1>4 DEF Registers, x
  <1> QED
    BY <1>2, <1>4, <1>5, <1>6, <1>7 DEF x

\* The stack pointer of a processor state is taken from its bank.
LEMMA UnbankFacts ==
    ASSUME NEW V, NEW x \in ArchIn(V), NEW w \in [Registers -> V], NEW b \in [{0, 1} -> V],
           x.reg["sp_el0"] = b[0], x.reg["sp_el1"] = b[1],
           SwiftAgrees(x, w, {}), x.reg["spsr"] \in PStates, NEW p \in PStates, NEW pc
    PROVE  RegisterInvariant([x EXCEPT !.pstate = p, !.pc = pc,
                                       !.sp = x.reg[IF p.spsel = 0 THEN "sp_el0" ELSE "sp_el1"]], w, b)
  <1> DEFINE sp == x.reg[IF p.spsel = 0 THEN "sp_el0" ELSE "sp_el1"]
             y == [x EXCEPT !.pstate = p, !.pc = pc, !.sp = sp]
             W == V \cup {pc}
  <1>1. sp \in V /\ p.spsel \in {0, 1}
    BY DEF ArchIn, PStates, Registers
  <1>2. x \in ArchIn(W) /\ w \in [Registers -> W] /\ b \in [{0, 1} -> W] /\ sp \in W /\ pc \in W
    BY <1>1, WiderValues
  <1>3. (p.spsel = 0 => sp = b[0]) /\ (p.spsel = 1 => sp = b[1])
    OBVIOUS
  <1> HIDE DEF sp, W
  <1>4. y \in ArchIn(W) /\ y.pstate = p /\ y.sp = sp /\ y.reg = x.reg /\ y.dirty = x.dirty
    BY <1>2 DEF ArchIn
  <1> HIDE DEF y
  <1>5. RegistersTyped(y, w, b)
    BY <1>2, <1>4 DEF RegistersTyped
  <1>6. Banked(y, b)
    <2>1. CASE p.spsel = 0
      BY <1>3, <1>4, <2>1 DEF Banked
    <2>2. CASE p.spsel = 1
      BY <1>3, <1>4, <2>2 DEF Banked
    <2> QED
      BY <1>1, <2>1, <2>2
  <1>7. SwiftAgrees(y, w, {Live(y)})
    BY <1>4 DEF SwiftAgrees
  <1>8. RegisterInvariant(y, w, b)
    BY <1>5, <1>6, <1>7 DEF RegisterInvariant
  <1> QED
    BY <1>8 DEF y, sp

\* ERET.
LEMMA ReturnKeeps ==
    ASSUME NEW a, NEW w, NEW b, RegisterInvariant(a, w, b)
    PROVE  RegisterInvariant(ExceptionReturn(a), w, b)
  <1>1. PICK V : a \in ArchIn(V) /\ w \in [Registers -> V] /\ b \in [{0, 1} -> V]
    BY DEF RegisterInvariant, RegistersTyped
  <1> DEFINE x == BankStackPointer(a)
  <1>2. /\ x \in ArchIn(V) /\ x.reg["sp_el0"] = b[0] /\ x.reg["sp_el1"] = b[1]
        /\ SwiftAgrees(x, w, {}) /\ x.reg["spsr"] \in PStates
    BY <1>1, BankFacts DEF RegisterInvariant, RegistersTyped
  <1> DEFINE q == x.reg["spsr"]
             pc == x.reg["elr"]
  <1>3. ExceptionReturn(a) = [x EXCEPT !.pstate = q, !.pc = pc,
                                !.sp = x.reg[IF q.spsel = 0 THEN "sp_el0" ELSE "sp_el1"]]
    BY DEF ExceptionReturn
  <1>5. q \in PStates
    BY <1>2
  <1> HIDE DEF x, q, pc
  <1>4. RegisterInvariant([x EXCEPT !.pstate = q, !.pc = pc,
                                    !.sp = x.reg[IF q.spsel = 0 THEN "sp_el0" ELSE "sp_el1"]], w, b)
    BY <1>1, <1>2, <1>5, UnbankFacts
  <1> QED
    BY <1>3, <1>4

\* With both stack pointers banked, an exception register can be assigned.
Settled(x, w, b) == x.reg["sp_el0"] = b[0] /\ x.reg["sp_el1"] = b[1] /\ SwiftAgrees(x, w, {})

\* With both stack pointers banked, assigning a register of the exception keeps them so.
LEMMA AssignSettled ==
    ASSUME NEW V, NEW x \in ArchIn(V), NEW r \in {"spsr", "elr", "esr"}, NEW v \in V, NEW w, NEW b, Settled(x, w, b)
    PROVE  LET y == Assign(x, r, v)
           IN  /\ y \in ArchIn(V) /\ Settled(y, w, b) /\ y.reg[r] = v
               /\ r # "spsr" => y.reg["spsr"] = x.reg["spsr"]
  <1> DEFINE y == Assign(x, r, v)
  <1>1. r \in Registers
    BY DEF Registers
  <1>2. y \in ArchIn(V) /\ y.reg[r] = v /\ \A q \in Registers \ {r} : y.reg[q] = x.reg[q]
    BY <1>1, AssignFacts
  <1>3. SwiftAgrees(y, w, {} \ {r})
    BY <1>1, AssignAgrees DEF Settled
  <1> HIDE DEF y
  <1>4. SwiftAgrees(y, w, {})
    BY <1>3 DEF SwiftAgrees
  <1>5. y.reg["sp_el0"] = b[0] /\ y.reg["sp_el1"] = b[1] /\ (r # "spsr" => y.reg["spsr"] = x.reg["spsr"])
    BY <1>2 DEF Settled, Registers
  <1> QED
    BY <1>2, <1>4, <1>5 DEF Settled, y

\* Assigning another register leaves the saved processor state alone.
LEMMA AssignKeepsState ==
    ASSUME NEW V, NEW x \in ArchIn(V), NEW r \in {"elr", "esr"}, NEW v \in V
    PROVE  Assign(x, r, v).reg["spsr"] = x.reg["spsr"]
  <1>1. r \in Registers /\ "spsr" \in Registers \ {r}
    BY DEF Registers
  <1> QED
    BY <1>1, AssignFacts

\* SVC.
LEMMA SynchronousExceptionKeeps ==
    ASSUME NEW a, NEW w, NEW b, RegisterInvariant(a, w, b)
    PROVE  RegisterInvariant(SynchronousException(a), w, b)
  <1>1. PICK V0 : a \in ArchIn(V0) /\ w \in [Registers -> V0] /\ b \in [{0, 1} -> V0]
    BY DEF RegisterInvariant, RegistersTyped
  <1> DEFINE return == a.pc + 1
             V == V0 \cup {a.pstate, return, 1}
             old == a.pstate
             x == BankStackPointer(a)
             y == Assign(x, "spsr", old)
             z == Assign(y, "elr", return)
             u == Assign(z, "esr", 1)
             pc == u.reg["vbar"] + VectorOffset(old)
  <1>2. a \in ArchIn(V) /\ w \in [Registers -> V] /\ b \in [{0, 1} -> V]
    BY <1>1, WiderValues
  <1>3. old \in V /\ return \in V /\ 1 \in V /\ old \in PStates
    BY <1>1 DEF ArchIn
  <1> HIDE DEF V, old, return
  <1>4. x \in ArchIn(V) /\ Settled(x, w, b)
    BY <1>2, BankFacts DEF RegisterInvariant, RegistersTyped, Settled
  <1> HIDE DEF x
  <1>5. y \in ArchIn(V) /\ Settled(y, w, b) /\ y.reg["spsr"] = old
    BY <1>3, <1>4, AssignSettled
  <1> HIDE DEF y
  <1>6. z \in ArchIn(V) /\ Settled(z, w, b) /\ z.reg["spsr"] = old
    <2>1. "elr" \in {"spsr", "elr", "esr"} /\ return \in V
      BY <1>3
    <2>2. z \in ArchIn(V) /\ Settled(z, w, b)
      BY <1>3, <2>1, <1>5, AssignSettled
    <2>3. z.reg["spsr"] = y.reg["spsr"]
      BY <1>3, <2>1, <1>5, AssignKeepsState
    <2> HIDE DEF z
    <2> QED
      BY <2>2, <2>3, <1>5
  <1> HIDE DEF z
  <1>7. u \in ArchIn(V) /\ Settled(u, w, b) /\ u.reg["spsr"] = old
    <2>1. "esr" \in {"spsr", "elr", "esr"} /\ 1 \in V
      BY <1>3
    <2>2. u \in ArchIn(V) /\ Settled(u, w, b)
      BY <1>3, <2>1, <1>6, AssignSettled
    <2>3. u.reg["spsr"] = z.reg["spsr"]
      BY <1>3, <2>1, <1>6, AssignKeepsState
    <2> HIDE DEF u
    <2> QED
      BY <2>2, <2>3, <1>6
  <1>8. EntryPState \in PStates /\ EntryPState.spsel = 1
    BY DEF EntryPState, PStates
  <1>9. SynchronousException(a) = [u EXCEPT !.pstate = EntryPState, !.sp = u.reg["sp_el1"], !.pc = pc]
    BY DEF SynchronousException, x, y, z, old, return
  <1> HIDE DEF u, pc
  <1>10. [u EXCEPT !.pstate = EntryPState, !.sp = u.reg["sp_el1"], !.pc = pc]
         = [u EXCEPT !.pstate = EntryPState, !.pc = pc, !.sp = u.reg["sp_el1"]]
    OBVIOUS
  <1>11. \A p \in PStates :
           RegisterInvariant([u EXCEPT !.pstate = p, !.pc = pc,
                                       !.sp = u.reg[IF p.spsel = 0 THEN "sp_el0" ELSE "sp_el1"]], w, b)
    BY <1>2, <1>3, <1>7, UnbankFacts DEF Settled
  <1>12. u.reg["sp_el1"] = u.reg[IF EntryPState.spsel = 0 THEN "sp_el0" ELSE "sp_el1"]
    BY <1>8
  <1> QED
    BY <1>8, <1>9, <1>10, <1>11, <1>12

\* A write of the live stack pointer.
LEMMA SetStackPointerKeeps ==
    ASSUME NEW a, NEW w, NEW b, RegisterInvariant(a, w, b), NEW v
    PROVE  RegisterInvariant([a EXCEPT !.sp = v], w, [b EXCEPT ![a.pstate.spsel] = v])
  <1>1. PICK V0 : a \in ArchIn(V0) /\ w \in [Registers -> V0] /\ b \in [{0, 1} -> V0]
    BY DEF RegisterInvariant, RegistersTyped
  <1> DEFINE V == V0 \cup {v}
             x == [a EXCEPT !.sp = v]
             s == a.pstate.spsel
             d == [b EXCEPT ![s] = v]
  <1>2. s \in {0, 1}
    BY <1>1 DEF ArchIn, PStates
  <1>3. a \in ArchIn(V) /\ w \in [Registers -> V] /\ b \in [{0, 1} -> V] /\ v \in V
    BY <1>1, WiderValues
  <1> HIDE DEF V
  <1>4. /\ x \in ArchIn(V) /\ x.sp = v
        /\ x.reg = a.reg /\ x.dirty = a.dirty /\ x.pstate = a.pstate
    BY <1>3 DEF ArchIn
  <1>5. d \in [{0, 1} -> V] /\ d[s] = v /\ d[1 - s] = b[1 - s]
    BY <1>2, <1>3
  <1> HIDE DEF x, d
  <1> QED
    BY <1>3, <1>4, <1>5 DEF RegisterInvariant, RegistersTyped, Banked, SwiftAgrees, Live, x, d

\* The counter does not matter.
LEMMA CounterKeeps ==
    ASSUME NEW a, NEW w, NEW b, RegisterInvariant(a, w, b), NEW n, NEW k
    PROVE  /\ RegisterInvariant([a EXCEPT !.counter = n], w, b)
           /\ RegisterInvariant([a EXCEPT !.unpolled = k], w, b)
           /\ RegisterInvariant([a EXCEPT !.counter = n, !.unpolled = k], w, b)
  <1>1. PICK V0 : a \in ArchIn(V0) /\ w \in [Registers -> V0] /\ b \in [{0, 1} -> V0]
    BY DEF RegisterInvariant, RegistersTyped
  <1> DEFINE V == V0 \cup {n, k}
             Same(x) == x.sp = a.sp /\ x.reg = a.reg /\ x.dirty = a.dirty /\ x.pstate = a.pstate
  <1>2. a \in ArchIn(V) /\ w \in [Registers -> V] /\ b \in [{0, 1} -> V] /\ n \in V /\ k \in V
    BY <1>1, WiderValues
  <1> HIDE DEF V
  <1>3. [a EXCEPT !.counter = n] \in ArchIn(V) /\ Same([a EXCEPT !.counter = n])
    BY <1>2 DEF ArchIn
  <1>4. [a EXCEPT !.unpolled = k] \in ArchIn(V) /\ Same([a EXCEPT !.unpolled = k])
    BY <1>2 DEF ArchIn
  <1>5. [a EXCEPT !.counter = n, !.unpolled = k] \in ArchIn(V) /\ Same([a EXCEPT !.counter = n, !.unpolled = k])
    BY <1>2 DEF ArchIn
  <1>6. ASSUME NEW x \in ArchIn(V), Same(x)
        PROVE  RegisterInvariant(x, w, b)
    BY <1>2, <1>6 DEF RegisterInvariant, RegistersTyped, Banked, SwiftAgrees, Live
  <1> QED
    BY <1>3, <1>4, <1>5, <1>6

\* Time passes, or the shared counter is read.
LEMMA TimeKeeps ==
    ASSUME NEW a, NEW w, NEW b, RegisterInvariant(a, w, b), NEW now, NEW steps
    PROVE  /\ RegisterInvariant(RefreshSharedCounter(a, now), w, b)
           /\ RegisterInvariant(AdvanceTime(a, steps, now), w, b)
  <1>1. RegisterInvariant(RefreshSharedCounter(a, now), w, b)
    BY CounterKeeps DEF RefreshSharedCounter
  <1>2. AdvanceTime(a, steps, now) \in
          {RefreshSharedCounter(a, now), [a EXCEPT !.counter = (a.counter + steps) % Modulus(CounterBits)],
           [a EXCEPT !.unpolled = a.unpolled + steps]}
    BY DEF AdvanceTime
  <1> DEFINE n == (a.counter + steps) % Modulus(CounterBits)
             k == a.unpolled + steps
  <1> HIDE DEF n, k
  <1>3. RegisterInvariant([a EXCEPT !.counter = n], w, b) /\ RegisterInvariant([a EXCEPT !.unpolled = k], w, b)
    BY CounterKeeps
  <1> QED
    BY <1>1, <1>2, <1>3 DEF n, k

\* MRS.
LEMMA ReadKeeps ==
    ASSUME NEW a, NEW w, NEW b, RegisterInvariant(a, w, b), NEW now, NEW r
    PROVE  RegisterInvariant(ReadSystemRegister(a, r, now).arch, w, b)
  <1>1. ReadSystemRegister(a, r, now).arch \in {a, RefreshSharedCounter(a, now)}
    BY DEF ReadSystemRegister
  <1> QED
    BY <1>1, TimeKeeps

\* MSR to the bank of a live stack pointer.
LEMMA WriteLiveKeeps ==
    ASSUME NEW a, NEW w, NEW b, RegisterInvariant(a, w, b), NEW v, a.pstate.spsel = 0
    PROVE  RegisterInvariant([a EXCEPT !.sp = v, !.dirty = a.dirty \cup {"sp_el0"}], w, [b EXCEPT ![0] = v])
  <1>1. PICK V0 : a \in ArchIn(V0) /\ w \in [Registers -> V0] /\ b \in [{0, 1} -> V0]
    BY DEF RegisterInvariant, RegistersTyped
  <1> DEFINE V == V0 \cup {v}
             set == a.dirty \cup {"sp_el0"}
             x == [a EXCEPT !.sp = v, !.dirty = set]
             d == [b EXCEPT ![0] = v]
  <1>2. a \in ArchIn(V) /\ w \in [Registers -> V] /\ b \in [{0, 1} -> V] /\ v \in V
    BY <1>1, WiderValues
  <1>3. set \in SUBSET Registers /\ a.dirty \subseteq set
    BY <1>1 DEF ArchIn, Registers
  <1> HIDE DEF V, set
  <1>4. /\ x \in ArchIn(V) /\ x.sp = v
        /\ x.reg = a.reg /\ x.dirty = set /\ x.pstate = a.pstate
    BY <1>2, <1>3 DEF ArchIn
  <1>5. d \in [{0, 1} -> V] /\ d[0] = v /\ d[1 - 0] = b[1 - 0]
    BY <1>2
  <1> HIDE DEF x, d
  <1>6. RegisterInvariant(x, w, d)
    BY <1>2, <1>3, <1>4, <1>5 DEF RegisterInvariant, RegistersTyped, Banked, SwiftAgrees, Live
  <1> QED
    BY <1>6 DEF x, d, set

\* MSR to a register other than the stack pointers.
LEMMA AssignKeeps ==
    ASSUME NEW a, NEW w, NEW b, RegisterInvariant(a, w, b),
           NEW r \in Registers \ {"sp_el0", "sp_el1"}, NEW v, r = "spsr" => v \in PStates
    PROVE  RegisterInvariant(Assign(a, r, v), w, b)
  <1>1. PICK V0 : a \in ArchIn(V0) /\ w \in [Registers -> V0] /\ b \in [{0, 1} -> V0]
    BY DEF RegisterInvariant, RegistersTyped
  <1> DEFINE V == V0 \cup {v}
             x == Assign(a, r, v)
  <1>2. a \in ArchIn(V) /\ w \in [Registers -> V] /\ b \in [{0, 1} -> V] /\ v \in V
    BY <1>1, WiderValues
  <1> HIDE DEF V
  <1>3. /\ x \in ArchIn(V) /\ x.reg[r] = v
        /\ \A q \in Registers \ {r} : x.reg[q] = a.reg[q]
        /\ x.sp = a.sp /\ x.pstate = a.pstate
    BY <1>2, AssignFacts
  <1>4. SwiftAgrees(x, w, {Live(a)} \ {r})
    BY <1>2, AssignAgrees DEF RegisterInvariant
  <1> HIDE DEF x
  <1>5. Live(x) = Live(a) /\ Live(a) # r
    BY <1>3 DEF Live
  <1>6. SwiftAgrees(x, w, {Live(x)})
    BY <1>4, <1>5 DEF SwiftAgrees
  <1>7. Banked(x, b)
    BY <1>3 DEF RegisterInvariant, Banked, Registers
  <1>8. x.reg["spsr"] \in PStates
    <2>1. CASE r = "spsr"
      BY <1>3, <2>1
    <2>2. CASE r # "spsr"
      BY <1>3, <2>2 DEF RegisterInvariant, RegistersTyped, Registers
    <2> QED
      BY <2>1, <2>2
  <1>9. RegisterInvariant(x, w, b)
    BY <1>2, <1>3, <1>6, <1>7, <1>8 DEF RegisterInvariant, RegistersTyped
  <1> QED
    BY <1>9 DEF x

\* MSR to SP_EL0 from the other stack.
LEMMA AssignBankKeeps ==
    ASSUME NEW a, NEW w, NEW b, RegisterInvariant(a, w, b), NEW v, a.pstate.spsel # 0
    PROVE  RegisterInvariant(Assign(a, "sp_el0", v), w, [b EXCEPT ![0] = v])
  <1>1. PICK V0 : a \in ArchIn(V0) /\ w \in [Registers -> V0] /\ b \in [{0, 1} -> V0]
    BY DEF RegisterInvariant, RegistersTyped
  <1> DEFINE V == V0 \cup {v}
             x == Assign(a, "sp_el0", v)
             d == [b EXCEPT ![0] = v]
  <1>2. a \in ArchIn(V) /\ w \in [Registers -> V] /\ b \in [{0, 1} -> V] /\ v \in V
    BY <1>1, WiderValues
  <1>0. "sp_el0" \in Registers /\ a.pstate.spsel = 1
    BY <1>1 DEF Registers, ArchIn, PStates
  <1> HIDE DEF V
  <1>3. /\ x \in ArchIn(V) /\ x.reg["sp_el0"] = v
        /\ \A q \in Registers \ {"sp_el0"} : x.reg[q] = a.reg[q]
        /\ x.sp = a.sp /\ x.pstate = a.pstate
    BY <1>0, <1>2, AssignFacts
  <1>4. SwiftAgrees(x, w, {Live(a)} \ {"sp_el0"})
    BY <1>0, <1>2, AssignAgrees DEF RegisterInvariant
  <1>5. d \in [{0, 1} -> V] /\ d[0] = v /\ d[1] = b[1]
    BY <1>2
  <1> HIDE DEF x, d
  <1>6. SwiftAgrees(x, w, {Live(x)})
    BY <1>3, <1>4 DEF SwiftAgrees, Live
  <1>7. Banked(x, d)
    BY <1>0, <1>3, <1>5 DEF RegisterInvariant, Banked, Registers
  <1>8. x.reg["spsr"] \in PStates
    BY <1>3 DEF RegisterInvariant, RegistersTyped, Registers
  <1>9. RegisterInvariant(x, w, d)
    BY <1>2, <1>3, <1>5, <1>6, <1>7, <1>8 DEF RegisterInvariant, RegistersTyped
  <1> QED
    BY <1>9 DEF x, d

\* The registers a guest writes, TVAL among them: a state's value only to SPSR.
Writable == (Registers \ {"sp_el1"}) \cup {"tval"}

\* MSR.
LEMMA WriteKeeps ==
    ASSUME NEW a, NEW w, NEW b, RegisterInvariant(a, w, b), NEW now,
           NEW r \in Writable, NEW v, r = "spsr" => v \in PStates
    PROVE  RegisterInvariant(WriteSystemRegister(a, r, v, now), w, IF r = "sp_el0" THEN [b EXCEPT ![0] = v] ELSE b)
  <1>1. CASE r = "sp_el0" /\ a.pstate.spsel = 0
    BY <1>1, WriteLiveKeeps DEF WriteSystemRegister
  <1>2. CASE r = "sp_el0" /\ a.pstate.spsel # 0
    BY <1>2, AssignBankKeeps DEF WriteSystemRegister
  <1>3. CASE r = "tval"
    <2> DEFINE x == RefreshSharedCounter(a, now)
               n == CompareFromValue(v, x.counter)
    <2>1. RegisterInvariant(x, w, b) /\ "cval" \in Registers \ {"sp_el0", "sp_el1"} /\ "cval" # "spsr"
      BY TimeKeeps DEF Registers
    <2>2. WriteSystemRegister(a, r, v, now) = Assign(x, "cval", n)
      BY <1>3 DEF WriteSystemRegister
    <2> HIDE DEF x, n
    <2> QED
      BY <1>3, <2>1, <2>2, AssignKeeps
  <1>4. CASE r \in Registers \ {"sp_el0", "sp_el1"}
    <2>1. RegisterInvariant(Assign(a, r, v), w, b)
      BY <1>4, AssignKeeps
    <2>2. r # "tval" /\ r # "sp_el0"
      BY <1>4 DEF Registers
    <2> QED
      BY <2>1, <2>2 DEF WriteSystemRegister
  <1> QED
    BY <1>1, <1>2, <1>3, <1>4 DEF Writable

\* The end of a burst and the start of the next.
LEMMA ReloadKeeps ==
    ASSUME NEW a, NEW w, NEW b, RegisterInvariant(a, w, b)
    PROVE  LET kept == GetArchitecturalState(a, w)
           IN  RegisterInvariant(SetArchitecturalState(a, kept), kept, b)
  <1>1. PICK V : a \in ArchIn(V) /\ w \in [Registers -> V] /\ b \in [{0, 1} -> V]
    BY DEF RegisterInvariant, RegistersTyped
  <1> DEFINE kept == GetArchitecturalState(a, w)
             reg == [kept EXCEPT ![Live(a)] = a.sp]
             x == [a EXCEPT !.reg = reg, !.dirty = {}]
  <1>2. kept \in [Registers -> V] /\ \A r \in Registers \ {Live(a)} : kept[r] = a.reg[r]
    BY <1>1 DEF GetArchitecturalState, RegisterInvariant, SwiftAgrees, ArchIn
  <1>3. Live(a) \in Registers /\ a.sp \in V
    BY <1>1 DEF Live, Registers, ArchIn
  <1>4. SetArchitecturalState(a, kept) = x
    BY DEF SetArchitecturalState, Live
  <1> HIDE DEF kept
  <1>5. reg \in [Registers -> V] /\ \A r \in Registers \ {Live(a)} : reg[r] = kept[r]
    BY <1>2, <1>3
  <1> HIDE DEF reg
  <1>6. x \in ArchIn(V) /\ x.reg = reg /\ x.sp = a.sp /\ x.pstate = a.pstate
    BY <1>1, <1>5 DEF ArchIn
  <1> HIDE DEF x
  <1>7. Live(x) = Live(a)
    BY <1>6 DEF Live
  <1>8. SwiftAgrees(x, kept, {Live(x)})
    BY <1>5, <1>6, <1>7 DEF SwiftAgrees
  <1>9. Banked(x, b)
    BY <1>2, <1>5, <1>6 DEF Banked, Registers, Live, RegisterInvariant
  <1>10. x.reg["spsr"] \in PStates
    BY <1>2, <1>5, <1>6 DEF Registers, Live, RegisterInvariant, RegistersTyped
  <1>11. RegisterInvariant(x, kept, b)
    BY <1>1, <1>2, <1>6, <1>8, <1>9, <1>10 DEF RegisterInvariant, RegistersTyped
  <1> QED
    BY <1>4, <1>11 DEF kept

-----------------------------------------------------------------------------
(* The registers of all CPUs.                                               *)

RegistersInvariant ==
    /\ DOMAIN arch = VCPUs /\ arch = [c \in VCPUs |-> arch[c]]
    /\ DOMAIN swift = VCPUs /\ swift = [c \in VCPUs |-> swift[c]]
    /\ DOMAIN banks = VCPUs /\ banks = [c \in VCPUs |-> banks[c]]
    /\ \A c \in VCPUs : RegisterInvariant(arch[c], swift[c], banks[c])

\* The first state.
LEMMA RegistersInit == TranslationInit => RegistersInvariant
  <1> SUFFICES ASSUME TranslationInit PROVE RegistersInvariant
    OBVIOUS
  <1> DEFINE V == {InitialRegisters[r] : r \in Registers} \cup {0}
             b == [i \in {0, 1} |-> 0]
  <1>1. InitialRegisters \in [Registers -> V] /\ b \in [{0, 1} -> V] /\ 0 \in V
    BY DEF InitialRegisters
  <1>2. InitialRegisters["spsr"] \in PStates /\ InitialRegisters["sp_el0"] = 0
    BY DEF InitialRegisters, Registers, PStates
  <1> HIDE DEF V
  <1>3. /\ InitialArch \in ArchIn(V) /\ InitialArch.sp = 0 /\ InitialArch.reg = InitialRegisters
        /\ InitialArch.pstate.spsel = 1
    BY <1>1 DEF InitialArch, ArchIn, PStates
  <1>4. RegisterInvariant(InitialArch, InitialRegisters, b)
    BY <1>1, <1>2, <1>3 DEF RegisterInvariant, RegistersTyped, Banked, SwiftAgrees
  <1>5. /\ arch = [c \in VCPUs |-> InitialArch] /\ swift = [c \in VCPUs |-> InitialRegisters]
        /\ banks = [c \in VCPUs |-> b]
    BY DEF TranslationInit
  <1> QED
    BY <1>4, <1>5 DEF RegistersInvariant

\* Only one CPU's registers change in a step.
LEMMA RegistersOfOne ==
    ASSUME RegistersInvariant, NEW c \in VCPUs, NEW a, NEW w, NEW b, RegisterInvariant(a, w, b),
           arch' = [arch EXCEPT ![c] = a],
           swift' = [swift EXCEPT ![c] = w] \/ (swift' = swift /\ w = swift[c]),
           banks' = [banks EXCEPT ![c] = b] \/ (banks' = banks /\ b = banks[c])
    PROVE  RegistersInvariant'
  <1>1. /\ arch' = [d \in VCPUs |-> IF d = c THEN a ELSE arch[d]]
        /\ swift' = [d \in VCPUs |-> IF d = c THEN w ELSE swift[d]]
        /\ banks' = [d \in VCPUs |-> IF d = c THEN b ELSE banks[d]]
    BY DEF RegistersInvariant
  <1> QED
    BY <1>1 DEF RegistersInvariant

\* A step that leaves the registers alone.
LEMMA RegistersUnchanged ==
    ASSUME RegistersInvariant, UNCHANGED archVars
    PROVE  RegistersInvariant'
  BY DEF RegistersInvariant, archVars

\* The end of a burst on one CPU.
LEMMA ReloadOfOne ==
    ASSUME RegistersInvariant, NEW c \in VCPUs, NEW a, RegisterInvariant(a, swift[c], banks[c]),
           Reload(c, a), UNCHANGED banks
    PROVE  RegistersInvariant'
  <1> DEFINE kept == GetArchitecturalState(a, swift[c])
             x == SetArchitecturalState(a, kept)
  <1>1. RegisterInvariant(x, kept, banks[c])
    BY ReloadKeeps
  <1>2. arch' = [arch EXCEPT ![c] = x] /\ swift' = [swift EXCEPT ![c] = kept]
    BY DEF Reload
  <1> HIDE DEF x, kept
  <1> QED
    BY <1>1, <1>2, RegistersOfOne

\* Every step keeps the registers of every CPU in agreement.
LEMMA RegistersNext ==
    ASSUME RegistersInvariant, [TranslationNext]_translationVars
    PROVE  RegistersInvariant'
  <1> USE DEF RegistersInvariant
  <1> DEFINE Kept(c) == RegisterInvariant(arch[c], swift[c], banks[c])
  <1>1. ASSUME NEW c \in VCPUs, NEW v, SetStackPointer(c, v)
        PROVE  RegistersInvariant'
    <2> DEFINE a == [arch[c] EXCEPT !.sp = v]
               b == [banks[c] EXCEPT ![arch[c].pstate.spsel] = v]
    <2>1. RegisterInvariant(a, swift[c], b)
      BY SetStackPointerKeeps
    <2>2. arch' = [arch EXCEPT ![c] = a] /\ banks' = [banks EXCEPT ![c] = b] /\ swift' = swift
      BY <1>1 DEF SetStackPointer
    <2> HIDE DEF a, b
    <2> QED
      BY <2>1, <2>2, RegistersOfOne
  <1>2. ASSUME NEW c \in VCPUs, NEW r, ReadRegister(c, r)
        PROVE  RegistersInvariant'
    <2> DEFINE a == ReadSystemRegister(arch[c], r, clock).arch
    <2>1. RegisterInvariant(a, swift[c], banks[c])
      BY ReadKeeps
    <2>2. arch' = [arch EXCEPT ![c] = a] /\ banks' = banks /\ swift' = swift
      BY <1>2 DEF ReadRegister
    <2> HIDE DEF a
    <2> QED
      BY <2>1, <2>2, RegistersOfOne
  <1>3. ASSUME NEW c \in VCPUs, NEW r \in Writable, NEW v \in SmallValues(r), WriteRegister(c, r, v)
        PROVE  RegistersInvariant'
    <2> DEFINE a == WriteSystemRegister(arch[c], r, v, clock)
               b == IF r = "sp_el0" THEN [banks[c] EXCEPT ![0] = v] ELSE banks[c]
    <2>1. r = "spsr" => v \in PStates
      <3>1. SmallValues("spsr") \subseteq PStates
        BY DEF SmallValues, PStates
      <3> QED
        BY <3>1
    <2>2. RegisterInvariant(a, swift[c], b)
      BY <2>1, WriteKeeps
    <2>3. arch' = [arch EXCEPT ![c] = a] /\ swift' = swift
      BY <1>3 DEF WriteRegister
    <2>4. banks' = [banks EXCEPT ![c] = b] \/ (banks' = banks /\ b = banks[c])
      BY <1>3 DEF WriteRegister
    <2> HIDE DEF a, b
    <2> QED
      BY <2>2, <2>3, <2>4, RegistersOfOne
  <1>4. ASSUME NEW c \in VCPUs, Exception(c)
        PROVE  RegistersInvariant'
    <2>1. CASE arch' = [arch EXCEPT ![c] = SynchronousException(@)]
      <3> DEFINE a == SynchronousException(arch[c])
      <3>1. RegisterInvariant(a, swift[c], banks[c])
        BY SynchronousExceptionKeeps
      <3>2. arch' = [arch EXCEPT ![c] = a] /\ swift' = swift /\ banks' = banks
        BY <1>4, <2>1 DEF Exception
      <3> HIDE DEF a
      <3> QED
        BY <3>1, <3>2, RegistersOfOne
    <2>2. CASE arch' = [arch EXCEPT ![c] = ExceptionReturn(@)]
      <3> DEFINE a == ExceptionReturn(arch[c])
      <3>1. RegisterInvariant(a, swift[c], banks[c])
        BY ReturnKeeps
      <3>2. arch' = [arch EXCEPT ![c] = a] /\ swift' = swift /\ banks' = banks
        BY <1>4, <2>2 DEF Exception
      <3> HIDE DEF a
      <3> QED
        BY <3>1, <3>2, RegistersOfOne
    <2> QED
      BY <1>4, <2>1, <2>2 DEF Exception
  <1>5. ASSUME NEW c \in VCPUs, NextBurst(c)
        PROVE  RegistersInvariant'
    BY <1>5, ReloadOfOne DEF NextBurst
  <1>6. ASSUME NEW c \in VCPUs, BlockBoundary(c)
        PROVE  RegistersInvariant'
    <2> DEFINE a == AdvanceTime(arch[c], 1, clock)
    <2>1. RegisterInvariant(a, swift[c], banks[c])
      BY TimeKeeps
    <2>2. /\ banks' = banks
          /\ Reload(c, a) \/ (arch' = [arch EXCEPT ![c] = a] /\ swift' = swift)
      BY <1>6 DEF BlockBoundary
    <2> HIDE DEF a
    <2> QED
      BY <2>1, <2>2, ReloadOfOne, RegistersOfOne
  <1>7. ASSUME NEW c \in VCPUs, Tick(c) \/ WalkOff(c) \/ WalkLevel(c)
        PROVE  RegistersInvariant'
    BY <1>7, RegistersUnchanged DEF Tick, WalkOff, WalkLevel
  <1>8. ASSUME NEW c \in VCPUs, NEW kind, NEW page, NEW spec, Translate(c, kind, page, spec)
        PROVE  RegistersInvariant'
    BY <1>8, RegistersUnchanged DEF Translate
  <1>9. ASSUME NEW c \in VCPUs, NEW s, SetStage1Translation(c, s)
        PROVE  RegistersInvariant'
    BY <1>9, RegistersUnchanged DEF SetStage1Translation
  <1>10. ASSUME NEW c \in VCPUs, NEW name, NEW shareable, NEW page, NEW asid, ExecuteTLBI(c, name, shareable, page, asid)
         PROVE  RegistersInvariant'
    BY <1>10, RegistersUnchanged DEF ExecuteTLBI
  <1>11. CASE ProgramsDone \/ UNCHANGED translationVars
    BY <1>11, RegistersUnchanged DEF ProgramsDone, translationVars, archVars
  <1> QED
    BY <1>1, <1>2, <1>3, <1>4, <1>5, <1>6, <1>7, <1>8, <1>9, <1>10, <1>11 DEF TranslationNext, Writable

\* THEOREM: native code and Swift agree on the registers both keep, and the
\* stack pointers are banked as the architecture banks them, for any number of
\* CPUs, any programs and any values: by induction from RegistersInvariant.
THEOREM RegistersStayInAgreement == TranslationSpec => []RegistersAgree
  <1>1. RegistersInvariant => RegistersAgree
    <2> SUFFICES ASSUME RegistersInvariant PROVE RegistersAgree
      OBVIOUS
    <2>1. StackPointersBanked
      BY DEF StackPointersBanked, RegistersInvariant, RegisterInvariant, Banked
    <2>2. ExitLosesNothing
      BY DEF ExitLosesNothing, GetArchitecturalState, RegistersInvariant, RegisterInvariant, SwiftAgrees, Live
    <2> QED
      BY <2>1, <2>2 DEF RegistersAgree
  <1>2. RegistersInvariant /\ [TranslationNext]_translationVars => RegistersInvariant'
    BY RegistersNext
  <1> QED
    BY RegistersInit, <1>1, <1>2, PTL DEF TranslationSpec

-----------------------------------------------------------------------------
(* Entries.  As with registers the arguments are about values: the         *)
(* translation state m of one CPU, and an invalidation o that it owes.     *)

Slots == 0 .. VASlots - 1
Tags == {ContextTag(s, el, page) : s \in Stages, el \in {0, 1}, page \in VirtualPages}
Entries ==
    [page : VirtualPages, tag : Tags, asid : ASIDs, global : BOOLEAN, size : {0} \cup Sizes,
     epoch : Nat, desc : Descriptors, level : {0, 1}, born : Nat]
Caches ==
    [tlb : [Kinds -> SUBSET Entries], hot : [Kinds -> SUBSET Entries], epoch : Nat,
     asid : [ASIDs -> Nat], va : [Slots -> Nat], all : [Slots -> Nat], global : [Slots -> Nat],
     observed : Nat]
Owed == [n : Nat, tlbi : TLBIs]

\* No entry is of an epoch to come.
Fresh(m) == \A k \in Kinds : \A e \in m.tlb[k] : e.epoch <= m.epoch
\* Was the entry read from the page tables before the invalidation?
Predates(o, e) == Covers(o.tlbi, e) /\ e.born < o.n
\* The invalidation has been applied: what it covers is gone or found stale.
Obeyed(m, o) ==
    \A k \in Kinds :
        /\ \A e \in m.hot[k] : ~Predates(o, e)
        /\ \A e \in m.tlb[k] : Predates(o, e) => e.epoch # m.epoch /\ EntryIsStale(m, e)
\* Entries grant what their descriptor grants at their level, and the hot
\* ones belong to the ASID in use.
Grants(k, e) == e.tag.mmu => Permits(e.desc, k, e.tag.level)
Rightful(m, asid) ==
    \A k \in Kinds :
        /\ \A e \in m.hot[k] : Grants(k, e) /\ (e.global \/ e.asid = asid)
        /\ \A e \in m.tlb[k] : Grants(k, e)
\* A state derived from another by removing entries.
Shrinks(r, m) == \A k \in Kinds : r.tlb[k] \subseteq m.tlb[k] /\ r.hot[k] \subseteq m.hot[k]

\* Where an address is hashed to.
LEMMA SlotFacts ==
    ASSUME ConstantsFit, NEW page \in VirtualPages, NEW size \in Sizes, NEW asid \in ASIDs \cup {0}
    PROVE  Extent(page, size) \in Nat /\ VASlot(page, size, asid) \in Slots
  <1>1. /\ page \in Nat /\ asid \in Nat /\ size \in Nat
        /\ GroupPages \in Nat /\ GroupPages > 0 /\ BlockPages \in Nat /\ BlockPages > 0
        /\ VASlots \in Nat /\ VASlots > 0
    BY DEF ConstantsFit, Sizes
  <1>2. Extent(page, size) \in Nat
    <2>1. CASE size = 1
      BY <1>1, <2>1 DEF Extent
    <2>2. CASE size = 2
      BY <1>1, <2>2 DEF Extent
    <2>3. CASE size = 3
      BY <1>1, <2>3 DEF Extent
    <2> QED
      BY <2>1, <2>2, <2>3 DEF Sizes
  <1> DEFINE n == Extent(page, size) + 2 * asid + size
  <1>3. n \in Nat
    BY <1>1, <1>2
  <1> HIDE DEF n
  <1>4. n % VASlots \in 0 .. VASlots - 1
    BY <1>1, <1>3
  <1> QED
    BY <1>2, <1>4 DEF VASlot, Slots, n

\* Nothing hot, or nothing at all, is left.
LEMMA ClearFacts ==
    ASSUME NEW m \in Caches
    PROVE  /\ LET h == ClearHotTLBs(m)
              IN  /\ h \in Caches /\ h.tlb = m.tlb /\ h.hot = [k \in Kinds |-> {}] /\ h.epoch = m.epoch
                  /\ h.asid = m.asid /\ h.va = m.va /\ h.all = m.all /\ h.global = m.global
                  /\ h.observed = m.observed
           /\ LET t == ClearTLBs(m)
              IN  /\ t \in Caches /\ t.tlb = [k \in Kinds |-> {}] /\ t.hot = [k \in Kinds |-> {}]
                  /\ t.epoch = m.epoch /\ t.observed = m.observed
                  /\ t.asid = m.asid /\ t.va = m.va /\ t.all = m.all /\ t.global = m.global
  <1> DEFINE none == [k \in Kinds |-> {}]
             h == [m EXCEPT !.hot = none]
             t == [h EXCEPT !.tlb = none]
  <1>1. none \in [Kinds -> SUBSET Entries]
    OBVIOUS
  <1> HIDE DEF none
  <1>2. /\ h \in Caches /\ h.tlb = m.tlb /\ h.hot = none /\ h.epoch = m.epoch
        /\ h.asid = m.asid /\ h.va = m.va /\ h.all = m.all /\ h.global = m.global
        /\ h.observed = m.observed
    BY <1>1 DEF Caches
  <1> HIDE DEF h
  <1>3. /\ t \in Caches /\ t.tlb = none /\ t.hot = none /\ t.epoch = m.epoch /\ t.observed = m.observed
        /\ t.asid = m.asid /\ t.va = m.va /\ t.all = m.all /\ t.global = m.global
    BY <1>1, <1>2 DEF Caches
  <1>4. ClearHotTLBs(m) = h /\ ClearTLBs(m) = t
    BY DEF ClearHotTLBs, ClearTLBs, h, none
  <1> HIDE DEF t
  <1> QED
    BY <1>2, <1>3, <1>4 DEF none

\* The epoch is advanced past every entry, or every entry goes.
LEMMA AdvanceFacts ==
    ASSUME ConstantsFit, NEW m \in Caches, Fresh(m)
    PROVE  LET n == AdvanceEpoch(m)
           IN  /\ n \in Caches /\ n.hot = [k \in Kinds |-> {}] /\ n.observed = m.observed
               /\ \/ n.tlb = [k \in Kinds |-> {}]
                  \/ /\ n.tlb = m.tlb /\ n.epoch = m.epoch + 1
                     /\ n.asid = m.asid /\ n.va = m.va /\ n.all = m.all /\ n.global = m.global
  <1> DEFINE h == ClearHotTLBs(m)
             t == ClearTLBs(h)
  <1>1. /\ h \in Caches /\ h.tlb = m.tlb /\ h.hot = [k \in Kinds |-> {}] /\ h.epoch = m.epoch
        /\ h.asid = m.asid /\ h.va = m.va /\ h.all = m.all /\ h.global = m.global
        /\ h.observed = m.observed
    BY ClearFacts
  <1> HIDE DEF h
  <1>2. t \in Caches /\ t.tlb = [k \in Kinds |-> {}] /\ t.hot = [k \in Kinds |-> {}] /\ t.observed = m.observed
    BY <1>1, ClearFacts
  <1> HIDE DEF t
  <1>3. CASE m.epoch + 1 = EpochLimit
    <2> DEFINE asid == [s \in DOMAIN t.asid |-> 0]
               va == [s \in DOMAIN t.va |-> 0]
               all == [s \in DOMAIN t.all |-> 0]
               global == [s \in DOMAIN t.global |-> 0]
               n == [t EXCEPT !.epoch = 1, !.asid = asid, !.va = va, !.all = all, !.global = global]
    <2>1. asid \in [ASIDs -> Nat] /\ va \in [Slots -> Nat] /\ all \in [Slots -> Nat] /\ global \in [Slots -> Nat]
      BY <1>2 DEF Caches
    <2>2. AdvanceEpoch(m) = n
      BY <1>3, Zenon DEF AdvanceEpoch, h, t
    <2> HIDE DEF asid, va, all, global
    <2>3. n \in Caches /\ n.tlb = t.tlb /\ n.hot = t.hot /\ n.observed = t.observed
      BY <1>2, <2>1 DEF Caches
    <2> HIDE DEF n
    <2> QED
      BY <1>2, <2>2, <2>3
  <1>4. CASE m.epoch + 1 # EpochLimit
    <2> DEFINE k == h.epoch + 1
               n == [h EXCEPT !.epoch = k]
    <2>1. k \in Nat /\ k = m.epoch + 1
      BY <1>1 DEF Caches
    <2>2. AdvanceEpoch(m) = n
      BY <1>4, Zenon DEF AdvanceEpoch, h
    <2> HIDE DEF k
    <2>3. /\ n \in Caches /\ n.tlb = h.tlb /\ n.hot = h.hot /\ n.observed = h.observed /\ n.epoch = k
          /\ n.asid = h.asid /\ n.va = h.va /\ n.all = h.all /\ n.global = h.global
      BY <1>1, <2>1 DEF Caches
    <2> HIDE DEF n
    <2> QED
      BY <1>1, <2>1, <2>2, <2>3
  <1> QED
    BY <1>3, <1>4

\* A generation table is only raised.
Raised(new, old, n) == \A s \in DOMAIN old : new[s] = old[s] \/ new[s] > n

\* Raising tables past the epoch makes no stale entry current again.
LEMMA RaisedKeeps ==
    ASSUME ConstantsFit, NEW m \in Caches, Fresh(m), NEW r \in Caches,
           r.hot = [k \in Kinds |-> {}], r.tlb = m.tlb, r.epoch = m.epoch + 1,
           Raised(r.asid, m.asid, m.epoch), Raised(r.va, m.va, m.epoch),
           Raised(r.all, m.all, m.epoch), Raised(r.global, m.global, m.epoch)
    PROVE  Fresh(r) /\ \A o \in Owed : Obeyed(m, o) => Obeyed(r, o)
  <1>1. m.epoch \in Nat /\ \A k \in Kinds : \A e \in m.tlb[k] : e \in Entries /\ e.epoch \in Nat /\ e.epoch <= m.epoch
    BY DEF Caches, Entries, Fresh
  <1>2. Fresh(r)
    BY <1>1 DEF Fresh
  <1>3. ASSUME NEW e \in Entries, e.epoch <= m.epoch, EntryIsStale(m, e)
        PROVE  EntryIsStale(r, e)
    <2>1. CASE e.size = 0
      BY <2>1 DEF EntryIsStale
    <2>2. CASE e.size # 0
      <3> DEFINE any == VASlot(e.page, e.size, 0)
                 own == VASlot(e.page, e.size, e.asid)
      <3>1. e.size \in Sizes /\ e.page \in VirtualPages /\ e.asid \in ASIDs /\ e.epoch \in Nat
        BY <2>2 DEF Entries
      <3>2. any \in Slots /\ own \in Slots
        BY <3>1, SlotFacts
      <3> HIDE DEF any, own
      <3>3. /\ m.all[any] \in Nat /\ m.global[any] \in Nat /\ m.va[own] \in Nat /\ m.asid[e.asid] \in Nat
            /\ r.all[any] \in Nat /\ r.global[any] \in Nat /\ r.va[own] \in Nat /\ r.asid[e.asid] \in Nat
        BY <3>1, <3>2 DEF Caches
      <3>4. /\ r.all[any] = m.all[any] \/ r.all[any] > m.epoch
            /\ r.global[any] = m.global[any] \/ r.global[any] > m.epoch
            /\ r.va[own] = m.va[own] \/ r.va[own] > m.epoch
            /\ r.asid[e.asid] = m.asid[e.asid] \/ r.asid[e.asid] > m.epoch
        BY <3>1, <3>2 DEF Caches, Raised
      <3>5. \/ m.all[any] > e.epoch
            \/ e.global /\ m.global[any] > e.epoch
            \/ ~e.global /\ (m.asid[e.asid] > e.epoch \/ m.va[own] > e.epoch)
        BY <1>3, <2>2 DEF EntryIsStale, any, own
      <3>6. \/ r.all[any] > e.epoch
            \/ e.global /\ r.global[any] > e.epoch
            \/ ~e.global /\ (r.asid[e.asid] > e.epoch \/ r.va[own] > e.epoch)
        BY <1>1, <1>3, <3>1, <3>3, <3>4, <3>5
      <3> QED
        BY <3>6 DEF EntryIsStale, any, own
    <2> QED
      BY <2>1, <2>2
  <1>4. ASSUME NEW o \in Owed, Obeyed(m, o)
        PROVE  Obeyed(r, o)
    BY <1>1, <1>3, <1>4 DEF Obeyed
  <1> QED
    BY <1>2, <1>4

SlotsOf(page, asid) == {VASlot(page, s, asid) : s \in Sizes}

\* What an invalidation stamps: every slot an entry it covers may be hashed to.
LEMMA StampFacts ==
    ASSUME ConstantsFit, NEW table \in [Slots -> Nat], NEW page \in VirtualPages, NEW asid \in ASIDs \cup {0}, NEW n \in Nat,
           NEW old \in Nat, n > old
    PROVE  LET new == Stamp(table, SlotsOf(page, asid), n)
           IN  /\ new \in [Slots -> Nat] /\ Raised(new, table, old)
               /\ \A e \in Entries : e.size # 0 /\ Extent(page, e.size) = Extent(e.page, e.size)
                                        => new[VASlot(e.page, e.size, asid)] = n
  <1> DEFINE slots == SlotsOf(page, asid)
             new == Stamp(table, slots, n)
  <1>1. new \in [Slots -> Nat] /\ \A s \in Slots : new[s] = IF s \in slots THEN n ELSE table[s]
    BY DEF Stamp
  <1>2. Raised(new, table, old)
    BY <1>1 DEF Raised
  <1>3. ASSUME NEW e \in Entries, e.size # 0, Extent(page, e.size) = Extent(e.page, e.size)
        PROVE  new[VASlot(e.page, e.size, asid)] = n
    <2>1. e.size \in Sizes /\ e.page \in VirtualPages
      BY <1>3 DEF Entries
    <2>2. VASlot(e.page, e.size, asid) = VASlot(page, e.size, asid)
      BY <1>3 DEF VASlot
    <2>3. VASlot(page, e.size, asid) \in slots /\ VASlot(page, e.size, asid) \in Slots
      BY <2>1, SlotFacts DEF SlotsOf
    <2> QED
      BY <1>1, <2>2, <2>3
  <1> QED
    BY <1>1, <1>2, <1>3

Empty(r) == r.tlb = [k \in Kinds |-> {}] /\ r.hot = [k \in Kinds |-> {}]

\* With no entries left every invalidation has been obeyed.
LEMMA EmptyFacts ==
    ASSUME NEW r, Empty(r)
    PROVE  /\ Fresh(r) /\ \A m : Shrinks(r, m)
           /\ \A o : Obeyed(r, o)
  BY DEF Empty, Fresh, Shrinks, Obeyed

\* After the epoch of n has begun, a state r made from it by stamping: it is as
\* n, but what the invalidation covers is stale.
Stamped(r, n, inv) ==
    /\ r \in Caches /\ r.tlb = n.tlb /\ r.hot = n.hot /\ r.epoch = n.epoch /\ r.observed = n.observed
    /\ \A old \in Nat : n.epoch > old =>
           Raised(r.asid, n.asid, old) /\ Raised(r.va, n.va, old) /\ Raised(r.all, n.all, old) /\ Raised(r.global, n.global, old)
    /\ \A e \in Entries : Covers(inv, e) /\ e.epoch < n.epoch => EntryIsStale(r, e)

\* The tables that are left alone count as raised.
LEMMA RaisedItself == \A t, old : Raised(t, t, old)
  BY DEF Raised

\* TLBI ASIDE1.
LEMMA StampASID ==
    ASSUME ConstantsFit, NEW n \in Caches, NEW inv \in TLBIs, inv.kind = "asid"
    PROVE  Stamped([n EXCEPT !.asid[inv.asid] = n.epoch], n, inv)
  <1> DEFINE asid == [n.asid EXCEPT ![inv.asid] = n.epoch]
             r == [n EXCEPT !.asid = asid]
  <1>1. n.epoch \in Nat /\ inv.asid \in ASIDs
    BY DEF Caches, TLBIs
  <1>2. asid \in [ASIDs -> Nat] /\ asid[inv.asid] = n.epoch /\ \A s \in ASIDs : s # inv.asid => asid[s] = n.asid[s]
    BY <1>1 DEF Caches
  <1>3. \A old \in Nat : n.epoch > old => Raised(asid, n.asid, old)
    BY <1>2 DEF Raised, Caches
  <1> HIDE DEF asid
  <1>4. /\ r \in Caches /\ r.tlb = n.tlb /\ r.hot = n.hot /\ r.epoch = n.epoch /\ r.observed = n.observed
        /\ r.asid = asid /\ r.va = n.va /\ r.all = n.all /\ r.global = n.global
    BY <1>2 DEF Caches
  <1> HIDE DEF r
  <1>5. ASSUME NEW e \in Entries, Covers(inv, e), e.epoch < n.epoch
        PROVE  EntryIsStale(r, e)
    <2>1. ~e.global /\ e.asid = inv.asid
      BY <1>5 DEF Covers
    <2> QED
      BY <1>2, <1>4, <1>5, <2>1 DEF EntryIsStale
  <1>6. Stamped(r, n, inv)
    BY <1>3, <1>4, <1>5, RaisedItself DEF Stamped
  <1> QED
    BY <1>6 DEF r, asid

\* TLBI VAAE1.
LEMMA StampVAAllASIDs ==
    ASSUME ConstantsFit, NEW n \in Caches, NEW inv \in TLBIs, inv.kind = "vaAllAsids"
    PROVE  Stamped([n EXCEPT !.all = Stamp(@, {VASlot(inv.page, s, 0) : s \in Sizes}, n.epoch)], n, inv)
  <1> DEFINE all == Stamp(n.all, {VASlot(inv.page, s, 0) : s \in Sizes}, n.epoch)
             r == [n EXCEPT !.all = all]
  <1>1. n.epoch \in Nat /\ inv.page \in VirtualPages /\ n.all \in [Slots -> Nat]
    BY DEF Caches, TLBIs
  <1>2. \A old \in Nat : n.epoch > old =>
          /\ Raised(all, n.all, old)
          /\ \A e \in Entries : e.size # 0 /\ Extent(inv.page, e.size) = Extent(e.page, e.size)
                                 => all[VASlot(e.page, e.size, 0)] = n.epoch
    <2> SUFFICES ASSUME NEW old \in Nat, n.epoch > old
                 PROVE  /\ Raised(all, n.all, old)
                        /\ \A e \in Entries : e.size # 0 /\ Extent(inv.page, e.size) = Extent(e.page, e.size)
                              => all[VASlot(e.page, e.size, 0)] = n.epoch
      OBVIOUS
    <2> DEFINE table == n.all
               page == inv.page
               asid == 0
               k == n.epoch
    <2>1. table \in [Slots -> Nat] /\ page \in VirtualPages /\ asid \in ASIDs \cup {0} /\ k \in Nat /\ k > old
      BY <1>1
    <2>2. all = Stamp(table, SlotsOf(page, asid), k)
      BY DEF SlotsOf
    <2> HIDE DEF table, page, asid, k, all
    <2>3. /\ Raised(Stamp(table, SlotsOf(page, asid), k), table, old)
          /\ \A e \in Entries : e.size # 0 /\ Extent(page, e.size) = Extent(e.page, e.size)
                => Stamp(table, SlotsOf(page, asid), k)[VASlot(e.page, e.size, asid)] = k
      BY <2>1, StampFacts
    <2> QED
      BY <2>2, <2>3 DEF table, page, asid, k
  <1>3. all \in [Slots -> Nat]
    BY <1>1 DEF Stamp
  <1> HIDE DEF all
  <1>4. /\ r \in Caches /\ r.tlb = n.tlb /\ r.hot = n.hot /\ r.epoch = n.epoch /\ r.observed = n.observed
        /\ r.asid = n.asid /\ r.va = n.va /\ r.all = all /\ r.global = n.global
    BY <1>3 DEF Caches
  <1> HIDE DEF r
  <1>5. ASSUME NEW e \in Entries, Covers(inv, e), e.epoch < n.epoch
        PROVE  EntryIsStale(r, e)
    <2>1. e.size # 0 /\ Extent(inv.page, e.size) = Extent(e.page, e.size) /\ e.epoch \in Nat
      BY <1>5 DEF Covers, Entries
    <2>2. all[VASlot(e.page, e.size, 0)] = n.epoch
      BY <1>2, <1>5, <2>1
    <2> QED
      BY <1>4, <1>5, <2>2 DEF EntryIsStale
  <1>6. Stamped(r, n, inv)
    BY <1>2, <1>4, <1>5, RaisedItself DEF Stamped
  <1> QED
    BY <1>6 DEF r, all

\* TLBI VAE1.
LEMMA StampVA ==
    ASSUME ConstantsFit, NEW n \in Caches, NEW inv \in TLBIs, inv.kind = "va"
    PROVE  Stamped([n EXCEPT !.global = Stamp(@, {VASlot(inv.page, s, 0) : s \in Sizes}, n.epoch),
                             !.va = Stamp(@, {VASlot(inv.page, s, inv.asid) : s \in Sizes}, n.epoch)], n, inv)
  <1> DEFINE global == Stamp(n.global, {VASlot(inv.page, s, 0) : s \in Sizes}, n.epoch)
             va == Stamp(n.va, {VASlot(inv.page, s, inv.asid) : s \in Sizes}, n.epoch)
             r == [n EXCEPT !.global = global, !.va = va]
  <1>1. n.epoch \in Nat /\ inv.page \in VirtualPages /\ inv.asid \in ASIDs /\ n.global \in [Slots -> Nat] /\ n.va \in [Slots -> Nat]
    BY DEF Caches, TLBIs
  <1>2. \A old \in Nat : n.epoch > old =>
          /\ Raised(global, n.global, old)
          /\ \A e \in Entries : e.size # 0 /\ Extent(inv.page, e.size) = Extent(e.page, e.size)
                                 => global[VASlot(e.page, e.size, 0)] = n.epoch
    <2> SUFFICES ASSUME NEW old \in Nat, n.epoch > old
                 PROVE  /\ Raised(global, n.global, old)
                        /\ \A e \in Entries : e.size # 0 /\ Extent(inv.page, e.size) = Extent(e.page, e.size)
                              => global[VASlot(e.page, e.size, 0)] = n.epoch
      OBVIOUS
    <2> DEFINE table == n.global
               page == inv.page
               asid == 0
               k == n.epoch
    <2>1. table \in [Slots -> Nat] /\ page \in VirtualPages /\ asid \in ASIDs \cup {0} /\ k \in Nat /\ k > old
      BY <1>1
    <2>2. global = Stamp(table, SlotsOf(page, asid), k)
      BY DEF SlotsOf
    <2> HIDE DEF table, page, asid, k, global, va, r
    <2>3. /\ Raised(Stamp(table, SlotsOf(page, asid), k), table, old)
          /\ \A e \in Entries : e.size # 0 /\ Extent(page, e.size) = Extent(e.page, e.size)
                => Stamp(table, SlotsOf(page, asid), k)[VASlot(e.page, e.size, asid)] = k
      BY <2>1, StampFacts
    <2> QED
      BY <2>2, <2>3 DEF table, page, asid, k
  <1>3. \A old \in Nat : n.epoch > old =>
          /\ Raised(va, n.va, old)
          /\ \A e \in Entries : e.size # 0 /\ Extent(inv.page, e.size) = Extent(e.page, e.size)
                                 => va[VASlot(e.page, e.size, inv.asid)] = n.epoch
    <2> SUFFICES ASSUME NEW old \in Nat, n.epoch > old
                 PROVE  /\ Raised(va, n.va, old)
                        /\ \A e \in Entries : e.size # 0 /\ Extent(inv.page, e.size) = Extent(e.page, e.size)
                              => va[VASlot(e.page, e.size, inv.asid)] = n.epoch
      OBVIOUS
    <2> DEFINE table == n.va
               page == inv.page
               asid == inv.asid
               k == n.epoch
    <2>1. table \in [Slots -> Nat] /\ page \in VirtualPages /\ asid \in ASIDs \cup {0} /\ k \in Nat /\ k > old
      BY <1>1
    <2>2. va = Stamp(table, SlotsOf(page, asid), k)
      BY DEF SlotsOf
    <2> HIDE DEF table, page, asid, k, global, va, r
    <2>3. /\ Raised(Stamp(table, SlotsOf(page, asid), k), table, old)
          /\ \A e \in Entries : e.size # 0 /\ Extent(page, e.size) = Extent(e.page, e.size)
                => Stamp(table, SlotsOf(page, asid), k)[VASlot(e.page, e.size, asid)] = k
      BY <2>1, StampFacts
    <2> QED
      BY <2>2, <2>3 DEF table, page, asid, k
  <1>4. global \in [Slots -> Nat] /\ va \in [Slots -> Nat]
    BY <1>1 DEF Stamp
  <1> HIDE DEF global, va
  <1>5. /\ r \in Caches /\ r.tlb = n.tlb /\ r.hot = n.hot /\ r.epoch = n.epoch /\ r.observed = n.observed
        /\ r.asid = n.asid /\ r.va = va /\ r.all = n.all /\ r.global = global
    BY <1>4 DEF Caches
  <1> HIDE DEF r
  <1>6. ASSUME NEW e \in Entries, Covers(inv, e), e.epoch < n.epoch
        PROVE  EntryIsStale(r, e)
    <2>1. e.size # 0 /\ Extent(inv.page, e.size) = Extent(e.page, e.size) /\ e.epoch \in Nat /\ e.global \in BOOLEAN
      BY <1>6 DEF Covers, Entries
    <2>2. CASE e.global
      <3>1. global[VASlot(e.page, e.size, 0)] = n.epoch
        BY <1>2, <1>6, <2>1
      <3> QED
        BY <1>5, <1>6, <2>2, <3>1 DEF EntryIsStale
    <2>3. CASE ~e.global
      <3>1. e.asid = inv.asid
        BY <1>6, <2>3 DEF Covers
      <3>2. va[VASlot(e.page, e.size, e.asid)] = n.epoch
        BY <1>3, <1>6, <2>1, <3>1
      <3> QED
        BY <1>5, <1>6, <2>3, <3>2 DEF EntryIsStale
    <2> QED
      BY <2>1, <2>2, <2>3
  <1>7. Stamped(r, n, inv)
    BY <1>2, <1>3, <1>5, <1>6, RaisedItself DEF Stamped
  <1> QED
    BY <1>7 DEF r, global, va

\* What a state m becomes when invalidations, inv among them, are applied.
Obeying(r, m, inv) ==
    /\ r \in Caches /\ Fresh(r) /\ r.observed = m.observed /\ Shrinks(r, m)
    /\ \A o \in Owed : Obeyed(m, o) \/ o.tlbi = inv => Obeyed(r, o)

\* Stamping in a new epoch makes a CPU obey.
LEMMA StampedObeys ==
    ASSUME ConstantsFit, NEW m \in Caches, Fresh(m), NEW inv \in TLBIs, NEW n, n = AdvanceEpoch(m),
           NEW r, Stamped(r, n, inv)
    PROVE  Obeying(r, m, inv)
  <1>1. /\ n \in Caches /\ n.hot = [k \in Kinds |-> {}] /\ n.observed = m.observed
        /\ \/ n.tlb = [k \in Kinds |-> {}]
           \/ /\ n.tlb = m.tlb /\ n.epoch = m.epoch + 1
              /\ n.asid = m.asid /\ n.va = m.va /\ n.all = m.all /\ n.global = m.global
    BY AdvanceFacts
  <1>2. /\ r \in Caches /\ r.tlb = n.tlb /\ r.hot = n.hot /\ r.epoch = n.epoch /\ r.observed = n.observed
    BY DEF Stamped
  <1>3. CASE n.tlb = [k \in Kinds |-> {}]
    <2>1. Empty(r)
      BY <1>1, <1>2, <1>3 DEF Empty
    <2> QED
      BY <1>1, <1>2, <2>1, EmptyFacts DEF Obeying
  <1>4. CASE n.tlb # [k \in Kinds |-> {}]
    <2>1. /\ n.tlb = m.tlb /\ n.epoch = m.epoch + 1
          /\ n.asid = m.asid /\ n.va = m.va /\ n.all = m.all /\ n.global = m.global
      BY <1>1, <1>4
    <2>2. m.epoch \in Nat /\ n.epoch > m.epoch
      BY <2>1 DEF Caches
    <2>3. /\ Raised(r.asid, m.asid, m.epoch) /\ Raised(r.va, m.va, m.epoch)
          /\ Raised(r.all, m.all, m.epoch) /\ Raised(r.global, m.global, m.epoch)
      BY <2>1, <2>2 DEF Stamped
    <2>4. Fresh(r) /\ \A o \in Owed : Obeyed(m, o) => Obeyed(r, o)
      BY <1>1, <1>2, <2>1, <2>3, RaisedKeeps
    <2>5. ASSUME NEW o \in Owed, o.tlbi = inv
          PROVE  Obeyed(r, o)
      <3>1. ASSUME NEW k \in Kinds, NEW e \in r.tlb[k], Predates(o, e)
            PROVE  e.epoch # r.epoch /\ EntryIsStale(r, e)
        <4>1. e \in Entries /\ e.epoch \in Nat /\ e.epoch <= m.epoch
          BY <1>2, <2>1, <3>1 DEF Caches, Entries, Fresh
        <4>2. e.epoch < n.epoch
          BY <2>2, <4>1, <2>1
        <4>3. Covers(inv, e)
          BY <2>5, <3>1 DEF Predates
        <4> QED
          BY <1>2, <4>1, <4>2, <4>3 DEF Stamped
      <3>2. \A k \in Kinds : r.hot[k] = {}
        BY <1>1, <1>2
      <3> QED
        BY <3>1, <3>2 DEF Obeyed
    <2>6. Shrinks(r, m)
      BY <1>1, <1>2, <2>1 DEF Shrinks
    <2> QED
      BY <1>1, <1>2, <2>4, <2>5, <2>6 DEF Obeying
  <1> QED
    BY <1>3, <1>4

\* An invalidation that is applied is obeyed, and those before it still are.
LEMMA ApplyFacts ==
    ASSUME ConstantsFit, NEW m \in Caches, Fresh(m), NEW inv \in TLBIs
    PROVE  /\ Obeying(ApplyTLBIEntries(m, inv), m, inv)
           /\ inv.kind = "all" => Empty(ApplyTLBIEntries(m, inv))
  <1> DEFINE n == AdvanceEpoch(m)
             r == ApplyTLBIEntries(m, inv)
  <1>1. n \in Caches
    BY AdvanceFacts
  <1>2. inv.kind \in TLBIKinds
    BY DEF TLBIs
  <1>3. CASE inv.kind = "all"
    <2>1. r = ClearTLBs(m)
      BY <1>3 DEF ApplyTLBIEntries
    <2> HIDE DEF r
    <2>2. r \in Caches /\ Empty(r) /\ r.observed = m.observed
      BY <2>1, ClearFacts DEF Empty
    <2>3. Obeying(r, m, inv)
      BY <2>2, EmptyFacts DEF Obeying
    <2> QED
      BY <2>2, <2>3 DEF r
  <1>4. CASE inv.kind = "asid"
    <2>1. r = [n EXCEPT !.asid[inv.asid] = n.epoch]
      BY <1>4, Zenon DEF ApplyTLBIEntries
    <2> HIDE DEF n, r
    <2>2. Stamped(r, n, inv)
      BY <1>1, <1>4, <2>1, StampASID
    <2>3. Obeying(r, m, inv)
      BY <2>2, StampedObeys DEF n
    <2> QED
      BY <1>4, <2>3 DEF r
  <1>5. CASE inv.kind = "vaAllAsids"
    <2>1. r = [n EXCEPT !.all = Stamp(@, {VASlot(inv.page, s, 0) : s \in Sizes}, n.epoch)]
      BY <1>5, Zenon DEF ApplyTLBIEntries
    <2> HIDE DEF n, r
    <2>2. Stamped(r, n, inv)
      BY <1>1, <1>5, <2>1, StampVAAllASIDs
    <2>3. Obeying(r, m, inv)
      BY <2>2, StampedObeys DEF n
    <2> QED
      BY <1>5, <2>3 DEF r
  <1>6. CASE inv.kind = "va"
    <2>1. r = [n EXCEPT !.global = Stamp(@, {VASlot(inv.page, s, 0) : s \in Sizes}, n.epoch),
                        !.va = Stamp(@, {VASlot(inv.page, s, inv.asid) : s \in Sizes}, n.epoch)]
      BY <1>6, Zenon DEF ApplyTLBIEntries
    <2> HIDE DEF n, r
    <2>2. Stamped(r, n, inv)
      BY <1>1, <1>6, <2>1, StampVA
    <2>3. Obeying(r, m, inv)
      BY <2>2, StampedObeys DEF n
    <2> QED
      BY <1>6, <2>3 DEF r
  <1> QED
    BY <1>2, <1>3, <1>4, <1>5, <1>6 DEF TLBIKinds

-----------------------------------------------------------------------------
(* Catching up with the journal, one invalidation after another.           *)

\* A set of naturals that is not empty has a lowest member.
LEMMA LeastExists ==
    ASSUME NEW S \in SUBSET Nat, S # {}
    PROVE  \E s \in S : \A t \in S : s <= t
  <1> DEFINE less == {ss \in Nat \X Nat : ss[1] < ss[2]}
  <1>1. PICK s \in S : \A t \in S : ~ (<<t, s>> \in less)
    <2>1. IsWellFoundedOn(less, Nat)
      BY NatLessThanWellFounded, Zenon DEF OpToRel
    <2> HIDE DEF less
    <2> QED
      BY <2>1, WFMin
  <1>2. ASSUME NEW t \in S PROVE s <= t
    <2>1. <<t, s>> \in Nat \X Nat /\ <<t, s>>[1] = t /\ <<t, s>>[2] = s
      OBVIOUS
    <2>2. t < s => <<t, s>> \in less
      BY <2>1, Zenon
    <2> QED
      BY <1>1, <2>2
  <1> QED
    BY <1>2

\* The states a CPU goes through, g[i] after i of the invalidations p.
StepOf(g, p, i) ==
    IF \E j \in 1 .. i - 1 : p[j].kind = "all" THEN g[i - 1] ELSE ApplyTLBIEntries(g[i - 1], p[i])
Follows(g, m, p, n) == g = [i \in 0 .. n |-> IF i = 0 THEN m ELSE StepOf(g, p, i)]

\* They exist, however many invalidations there are.
LEMMA FollowsExists ==
    ASSUME NEW m, NEW p, NEW n \in Nat
    PROVE  \E g : Follows(g, m, p, n)
  <1> DEFINE Bad == {k \in Nat : ~ \E g : Follows(g, m, p, k)}
  <1>1. ASSUME Bad # {} PROVE FALSE
    <2>1. PICK k \in Bad : \A t \in Bad : k <= t
      BY <1>1, LeastExists
    <2>2. k \in Nat /\ ~ \E g : Follows(g, m, p, k)
      BY <2>1
    <2>3. CASE k = 0
      <3> DEFINE g == [i \in 0 .. 0 |-> m]
      <3>1. g = [i \in 0 .. 0 |-> IF i = 0 THEN m ELSE StepOf(g, p, i)]
        OBVIOUS
      <3> QED
        BY <2>2, <2>3, <3>1 DEF Follows
    <2>4. CASE k # 0
      <3>1. k - 1 \in Nat /\ ~ (k - 1 \in Bad)
        BY <2>1, <2>2, <2>4
      <3>2. PICK f : Follows(f, m, p, k - 1)
        BY <3>1
      <3> DEFINE g == [i \in 0 .. k |-> IF i = k THEN StepOf(f, p, k) ELSE f[i]]
      <3>3. ASSUME NEW i \in 0 .. k
            PROVE  g[i] = IF i = 0 THEN m ELSE StepOf(g, p, i)
        <4>1. \A q \in 0 .. k - 1 : f[q] = IF q = 0 THEN m ELSE StepOf(f, p, q)
          BY <3>2 DEF Follows
        <4>2. CASE i = 0
          BY <2>2, <2>4, <4>1, <4>2
        <4>3. CASE i # 0
          <5>1. i - 1 \in 0 .. k - 1 /\ g[i - 1] = f[i - 1]
            BY <2>2, <4>3
          <5>2. StepOf(g, p, i) = StepOf(f, p, i)
            BY <5>1 DEF StepOf
          <5>3. i # k => i \in 0 .. k - 1
            BY <2>2
          <5>4. g[i] = StepOf(f, p, i)
            BY <4>1, <4>3, <5>3
          <5> QED
            BY <4>3, <5>2, <5>4
        <4> QED
          BY <4>2, <4>3
      <3>4. g = [i \in 0 .. k |-> IF i = 0 THEN m ELSE StepOf(g, p, i)]
        <4>1. g = [i \in 0 .. k |-> g[i]]
          OBVIOUS
        <4> HIDE DEF g
        <4> QED
          BY <3>3, <4>1
      <3> QED
        BY <2>2, <3>4 DEF Follows
    <2> QED
      BY <2>3, <2>4
  <1> QED
    BY <1>1

\* What has been reached after i invalidations.
Reached(g, m, p, i) ==
    /\ g[i] \in Caches /\ Fresh(g[i]) /\ g[i].observed = m.observed /\ Shrinks(g[i], m)
    /\ \A o \in Owed : Obeyed(m, o) \/ (\E j \in 1 .. i : o.tlbi = p[j]) => Obeyed(g[i], o)
    /\ (\E j \in 1 .. i : p[j].kind = "all") => Empty(g[i])

\* One more is obeyed; nothing is left to obey once all entries are gone.
LEMMA ReachedNext ==
    ASSUME ConstantsFit, NEW m, NEW p \in Seq(TLBIs), NEW g, Follows(g, m, p, Len(p)),
           NEW i \in 1 .. Len(p), Reached(g, m, p, i - 1)
    PROVE  Reached(g, m, p, i)
  <1> DEFINE u == g[i - 1]
             r == g[i]
             inv == p[i]
  <1>1. /\ u \in Caches /\ Fresh(u) /\ u.observed = m.observed /\ Shrinks(u, m)
        /\ \A o \in Owed : Obeyed(m, o) \/ (\E j \in 1 .. i - 1 : o.tlbi = p[j]) => Obeyed(u, o)
        /\ (\E j \in 1 .. i - 1 : p[j].kind = "all") => Empty(u)
    BY DEF Reached
  <1>2. inv \in TLBIs /\ Len(p) \in Nat /\ i \in Nat /\ i # 0
    OBVIOUS
  <1>3. r = IF \E j \in 1 .. i - 1 : p[j].kind = "all" THEN u ELSE ApplyTLBIEntries(u, inv)
    <2>1. \A q \in 0 .. Len(p) : g[q] = IF q = 0 THEN m ELSE StepOf(g, p, q)
      BY DEF Follows
    <2>2. i \in 0 .. Len(p)
      BY <1>2
    <2>3. g[i] = StepOf(g, p, i)
      BY <1>2, <2>1, <2>2
    <2> QED
      BY <2>3 DEF StepOf
  <1>4. \A j \in 1 .. i : j \in 1 .. i - 1 \/ j = i
    BY <1>2
  <1> HIDE DEF u, r, inv
  <1>5. CASE \E j \in 1 .. i - 1 : p[j].kind = "all"
    <2>1. r = u /\ Empty(r)
      BY <1>1, <1>3, <1>5
    <2>2. /\ r \in Caches /\ Fresh(r) /\ r.observed = m.observed /\ Shrinks(r, m)
          /\ \A o : Obeyed(r, o)
      BY <1>1, <2>1, EmptyFacts
    <2> QED
      BY <2>1, <2>2 DEF Reached, r
  <1>6. CASE ~ \E j \in 1 .. i - 1 : p[j].kind = "all"
    <2>1. Obeying(r, u, inv) /\ (inv.kind = "all" => Empty(r))
      BY <1>1, <1>2, <1>3, <1>6, ApplyFacts
    <2>2. /\ r \in Caches /\ Fresh(r) /\ r.observed = m.observed /\ Shrinks(r, m)
      BY <1>1, <2>1 DEF Obeying, Shrinks
    <2>3. ASSUME NEW o \in Owed, Obeyed(m, o) \/ (\E j \in 1 .. i : o.tlbi = p[j])
          PROVE  Obeyed(r, o)
      <3>1. Obeyed(u, o) \/ o.tlbi = inv
        BY <1>1, <1>4, <2>3 DEF inv
      <3> QED
        BY <2>1, <3>1 DEF Obeying
    <2>4. (\E j \in 1 .. i : p[j].kind = "all") => Empty(r)
      BY <1>4, <1>6, <2>1 DEF inv
    <2> QED
      BY <2>2, <2>3, <2>4 DEF Reached, r
  <1> QED
    BY <1>5, <1>6

\* All of them are obeyed in the end.
LEMMA ReachedEnd ==
    ASSUME ConstantsFit, NEW m \in Caches, Fresh(m), NEW p \in Seq(TLBIs), NEW g, Follows(g, m, p, Len(p))
    PROVE  Reached(g, m, p, Len(p))
  <1> DEFINE Bad == {k \in 0 .. Len(p) : ~Reached(g, m, p, k)}
  <1>1. Len(p) \in Nat /\ Bad \in SUBSET Nat
    OBVIOUS
  <1>2. ASSUME Bad # {} PROVE FALSE
    <2>1. PICK k \in Bad : \A t \in Bad : k <= t
      BY <1>1, <1>2, LeastExists
    <2>2. k \in 0 .. Len(p) /\ ~Reached(g, m, p, k)
      BY <2>1
    <2>3. CASE k = 0
      <3>1. g[0] = m
        BY <1>1 DEF Follows
      <3>2. Shrinks(m, m)
        BY DEF Shrinks
      <3> QED
        BY <2>2, <2>3, <3>1, <3>2 DEF Reached
    <2>4. CASE k # 0
      <3>1. k \in 1 .. Len(p) /\ k - 1 \in 0 .. Len(p) /\ ~ (k <= k - 1)
        BY <1>1, <2>2, <2>4
      <3>2. Reached(g, m, p, k - 1)
        BY <2>1, <3>1
      <3> QED
        BY <2>2, <3>1, <3>2, ReachedNext
    <2> QED
      BY <2>3, <2>4
  <1> QED
    BY <1>1, <1>2

\* The invalidation is in the part of the journal that has not been seen, or
\* was, before others took its place.
Awaits(seen, shared, log, o) ==
    \E i \in seen + 1 .. shared : shared - i < JournalCount => log[i % JournalCount] = o.tlbi
IsJournal(shared, log) == shared \in Nat /\ log \in [0 .. JournalCount - 1 -> TLBIs]

\* The journal before the first publication invalidates everything.
LEMMA EmptyEntryTyped == ConstantsFit => EmptyEntry \in TLBIs /\ EmptyEntry.kind = "all"
  <1> SUFFICES ASSUME ConstantsFit PROVE EmptyEntry \in TLBIs /\ EmptyEntry.kind = "all"
    OBVIOUS
  <1>1. (CHOOSE p \in VirtualPages : TRUE) \in VirtualPages /\ (CHOOSE a \in ASIDs : TRUE) \in ASIDs
    BY DEF ConstantsFit
  <1> QED
    BY <1>1 DEF EmptyEntry, TLBIs, TLBIKinds

\* What is to be applied contains what is awaited, or everything.
LEMMA PendingFacts ==
    ASSUME ConstantsFit, IsJournal(sharedEpoch, journal), NEW from \in Nat, from <= sharedEpoch
    PROVE  /\ Pending(from) \in Seq(TLBIs)
           /\ \A o \in Owed : Awaits(from, sharedEpoch, journal, o) =>
                \E j \in 1 .. Len(Pending(from)) : Pending(from)[j].kind = "all" \/ o.tlbi = Pending(from)[j]
  <1>1. JournalCount \in Nat \ {0} /\ sharedEpoch \in Nat /\ journal \in [0 .. JournalCount - 1 -> TLBIs]
    BY DEF ConstantsFit, IsJournal
  <1>2. CASE sharedEpoch - from > JournalCount
    <2>1. Pending(from) = <<EmptyEntry>>
      BY <1>2 DEF Pending
    <2> QED
      BY <2>1, EmptyEntryTyped
  <1>3. CASE ~(sharedEpoch - from > JournalCount)
    <2> DEFINE p == [i \in 1 .. sharedEpoch - from |-> journal[(from + i) % JournalCount]]
    <2>1. Pending(from) = p
      BY <1>3 DEF Pending
    <2>2. sharedEpoch - from \in Nat
      BY <1>1
    <2>3. ASSUME NEW i \in 1 .. sharedEpoch - from
          PROVE  journal[(from + i) % JournalCount] \in TLBIs
      <3>1. from + i \in Nat
        BY <1>1
      <3>2. (from + i) % JournalCount \in 0 .. JournalCount - 1
        BY <1>1, <3>1
      <3> QED
        BY <1>1, <3>2
    <2>4. p \in Seq(TLBIs) /\ Len(p) = sharedEpoch - from
      BY <2>2, <2>3
    <2>5. ASSUME NEW o \in Owed, Awaits(from, sharedEpoch, journal, o)
          PROVE  \E j \in 1 .. Len(p) : o.tlbi = p[j]
      <3>1. PICK i \in from + 1 .. sharedEpoch : sharedEpoch - i < JournalCount => journal[i % JournalCount] = o.tlbi
        BY <2>5 DEF Awaits
      <3>2. sharedEpoch - i < JournalCount /\ i - from \in 1 .. sharedEpoch - from /\ from + (i - from) = i
        BY <1>1, <1>3, <3>1
      <3>3. p[i - from] = o.tlbi
        BY <3>1, <3>2
      <3> QED
        BY <2>4, <3>2, <3>3
    <2> QED
      BY <2>1, <2>4, <2>5
  <1> QED
    BY <1>2, <1>3

\* Synchronising is applying what is pending.
LEMMA SynchronizeIsRun ==
    ASSUME NEW m
    PROVE  LET p == Pending(m.observed)
           IN  SynchronizeShared(m) = [(CHOOSE g : Follows(g, m, p, Len(p)))[Len(p)] EXCEPT !.observed = sharedEpoch]
  BY Zenon DEF SynchronizeShared, Follows, StepOf

\* A CPU that has caught up has obeyed whatever it was waiting for.
LEMMA SynchronizeFacts ==
    ASSUME ConstantsFit, IsJournal(sharedEpoch, journal), NEW m \in Caches, Fresh(m), m.observed <= sharedEpoch
    PROVE  LET r == SynchronizeShared(m)
           IN  /\ r \in Caches /\ Fresh(r) /\ r.observed = sharedEpoch /\ Shrinks(r, m)
               /\ \A o \in Owed : Obeyed(m, o) \/ Awaits(m.observed, sharedEpoch, journal, o) => Obeyed(r, o)
  <1> DEFINE p == Pending(m.observed)
             g == CHOOSE g : Follows(g, m, p, Len(p))
             u == g[Len(p)]
             r == [u EXCEPT !.observed = sharedEpoch]
  <1>1. m.observed \in Nat
    BY DEF Caches
  <1>2. /\ p \in Seq(TLBIs)
        /\ \A o \in Owed : Awaits(m.observed, sharedEpoch, journal, o) =>
             \E j \in 1 .. Len(p) : p[j].kind = "all" \/ o.tlbi = p[j]
    BY <1>1, PendingFacts
  <1>3. SynchronizeShared(m) = r
    BY SynchronizeIsRun
  <1> HIDE DEF p
  <1>4. Follows(g, m, p, Len(p))
    <2>1. Len(p) \in Nat
      BY <1>2
    <2> QED
      BY <2>1, FollowsExists
  <1> HIDE DEF g
  <1>5. Reached(g, m, p, Len(p))
    BY <1>2, <1>4, ReachedEnd
  <1>6. u \in Caches /\ Fresh(u) /\ Shrinks(u, m)
    BY <1>5 DEF Reached
  <1>7. ASSUME NEW o \in Owed, Obeyed(m, o) \/ Awaits(m.observed, sharedEpoch, journal, o)
        PROVE  Obeyed(u, o)
    <2>1. CASE Obeyed(m, o)
      BY <1>5, <2>1 DEF Reached
    <2>2. CASE Awaits(m.observed, sharedEpoch, journal, o)
      <3>1. PICK j \in 1 .. Len(p) : p[j].kind = "all" \/ o.tlbi = p[j]
        BY <1>2, <2>2
      <3>2. CASE p[j].kind = "all"
        <4>1. Empty(u)
          BY <1>5, <3>2 DEF Reached
        <4> QED
          BY <4>1, EmptyFacts
      <3>3. CASE o.tlbi = p[j]
        BY <1>5, <3>3 DEF Reached
      <3> QED
        BY <3>1, <3>2, <3>3
    <2> QED
      BY <1>7, <2>1, <2>2
  <1> HIDE DEF u
  <1>8. /\ r \in Caches /\ r.observed = sharedEpoch /\ r.tlb = u.tlb /\ r.hot = u.hot /\ r.epoch = u.epoch
        /\ r.asid = u.asid /\ r.va = u.va /\ r.all = u.all /\ r.global = u.global
    BY <1>6 DEF Caches, IsJournal
  <1> HIDE DEF r
  <1>9. Fresh(r) /\ Shrinks(r, m)
    BY <1>6, <1>8 DEF Fresh, Shrinks
  <1>10. \A o \in Owed : Obeyed(u, o) => Obeyed(r, o)
    BY <1>8 DEF Obeyed, EntryIsStale
  <1> QED
    BY <1>3, <1>7, <1>8, <1>9, <1>10

-----------------------------------------------------------------------------
(* One CPU's translation state is right for the ASID it uses, the          *)
(* invalidations os it owes, and the journal: each has been obeyed or is   *)
(* still in the journal ahead of the CPU.                                  *)

CacheRight(m, asid, os, n, shared, log) ==
    /\ m \in Caches /\ Fresh(m) /\ Rightful(m, asid) /\ m.observed <= shared
    /\ \A o \in os : o \in Owed /\ o.n <= n /\ (Obeyed(m, o) \/ Awaits(m.observed, shared, log, o))

\* Same epoch, tables and place in the journal.
SameTables(r, m) ==
    /\ r.epoch = m.epoch /\ r.observed = m.observed
    /\ r.asid = m.asid /\ r.va = m.va /\ r.all = m.all /\ r.global = m.global

\* Removing entries does no harm.
LEMMA ShrinkKeeps ==
    ASSUME NEW asid, NEW os, NEW n, NEW shared, NEW log, NEW m, CacheRight(m, asid, os, n, shared, log),
           NEW r \in Caches, SameTables(r, m), Shrinks(r, m)
    PROVE  CacheRight(r, asid, os, n, shared, log)
  <1>1. Fresh(r) /\ Rightful(r, asid)
    BY DEF CacheRight, Fresh, Rightful, Shrinks, SameTables
  <1>2. \A e : EntryIsStale(m, e) = EntryIsStale(r, e)
    BY DEF EntryIsStale, SameTables
  <1>3. \A o : Obeyed(m, o) => Obeyed(r, o)
    BY <1>2 DEF Obeyed, Shrinks, SameTables
  <1> QED
    BY <1>1, <1>3 DEF CacheRight, SameTables

\* Without hot entries the ASID may change.
LEMMA ASIDKeeps ==
    ASSUME NEW asid, NEW os, NEW n, NEW shared, NEW log, NEW m, CacheRight(m, asid, os, n, shared, log),
           m.hot = [k \in Kinds |-> {}], NEW other
    PROVE  CacheRight(m, other, os, n, shared, log)
  BY DEF CacheRight, Rightful

\* Dropping entries of one cache leaves the tables and only shrinks.
LEMMA DropFacts ==
    ASSUME NEW m \in Caches, NEW k \in Kinds, NEW es
    PROVE  LET r == Drop(m, k, es)
           IN  r \in Caches /\ SameTables(r, m) /\ Shrinks(r, m)
  <1> DEFINE tlbs == [m.tlb EXCEPT ![k] = m.tlb[k] \ es]
             r == [m EXCEPT !.tlb = tlbs]
  <1>1. tlbs \in [Kinds -> SUBSET Entries] /\ \A j \in Kinds : tlbs[j] \subseteq m.tlb[j]
    BY DEF Caches
  <1>2. Drop(m, k, es) = r
    BY DEF Drop
  <1> HIDE DEF tlbs
  <1>3. r \in Caches /\ r.tlb = tlbs /\ r.hot = m.hot /\ SameTables(r, m)
    BY <1>1 DEF Caches, SameTables
  <1> HIDE DEF r
  <1> QED
    BY <1>1, <1>2, <1>3 DEF Shrinks

\* An entry is added, in place of some others, and copied to the hot ones.
LEMMA AddFacts ==
    ASSUME NEW m \in Caches, NEW k \in Kinds, NEW es, NEW e \in Entries
    PROVE  LET r == CopyHot([Drop(m, k, es) EXCEPT !.tlb[k] = @ \cup {e}], k, e)
           IN  /\ r \in Caches /\ SameTables(r, m)
               /\ \A j \in Kinds : r.tlb[j] \subseteq m.tlb[j] \cup (IF j = k THEN {e} ELSE {})
               /\ \A j \in Kinds : r.hot[j] \subseteq m.hot[j] \cup (IF j = k THEN {e} ELSE {})
  <1> DEFINE d == Drop(m, k, es)
             tlbs == [d.tlb EXCEPT ![k] = d.tlb[k] \cup {e}]
             t == [d EXCEPT !.tlb = tlbs]
             hots == [t.hot EXCEPT ![k] = {h \in t.hot[k] : h.page # e.page} \cup {e}]
             r == [t EXCEPT !.hot = hots]
  <1>1. d \in Caches /\ SameTables(d, m) /\ Shrinks(d, m)
    BY DropFacts
  <1>2. CopyHot([d EXCEPT !.tlb[k] = @ \cup {e}], k, e) = r
    BY DEF CopyHot
  <1>3. CopyHot([Drop(m, k, es) EXCEPT !.tlb[k] = @ \cup {e}], k, e) = r
    BY <1>2
  <1> HIDE DEF d
  <1>4. /\ tlbs \in [Kinds -> SUBSET Entries]
        /\ \A j \in Kinds : tlbs[j] \subseteq d.tlb[j] \cup (IF j = k THEN {e} ELSE {})
    BY <1>1 DEF Caches
  <1> HIDE DEF tlbs
  <1>5. t \in Caches /\ t.tlb = tlbs /\ t.hot = d.hot /\ SameTables(t, d)
    BY <1>1, <1>4 DEF Caches, SameTables
  <1> HIDE DEF t
  <1>6. /\ hots \in [Kinds -> SUBSET Entries]
        /\ \A j \in Kinds : hots[j] \subseteq t.hot[j] \cup (IF j = k THEN {e} ELSE {})
    BY <1>5 DEF Caches
  <1> HIDE DEF hots
  <1>7. r \in Caches /\ r.tlb = t.tlb /\ r.hot = hots /\ SameTables(r, t)
    BY <1>5, <1>6 DEF Caches, SameTables
  <1> HIDE DEF r
  <1>8. SameTables(r, m)
    BY <1>1, <1>5, <1>7 DEF SameTables
  <1>9. \A j \in Kinds : r.tlb[j] \subseteq m.tlb[j] \cup (IF j = k THEN {e} ELSE {})
    BY <1>1, <1>4, <1>5, <1>7 DEF Shrinks
  <1>10. \A j \in Kinds : r.hot[j] \subseteq m.hot[j] \cup (IF j = k THEN {e} ELSE {})
    BY <1>1, <1>5, <1>6, <1>7 DEF Shrinks
  <1> QED
    BY <1>3, <1>7, <1>8, <1>9, <1>10

\* An entry of the present epoch that no obeyed invalidation predates.
LEMMA AddKeeps ==
    ASSUME NEW asid, NEW os, NEW n, NEW shared, NEW log, NEW m, CacheRight(m, asid, os, n, shared, log),
           NEW k \in Kinds, NEW es, NEW e \in Entries, e.epoch = m.epoch, Grants(k, e), e.global \/ e.asid = asid,
           \A o \in os : Obeyed(m, o) => ~Predates(o, e)
    PROVE  CacheRight(CopyHot([Drop(m, k, es) EXCEPT !.tlb[k] = @ \cup {e}], k, e), asid, os, n, shared, log)
  <1> DEFINE r == CopyHot([Drop(m, k, es) EXCEPT !.tlb[k] = @ \cup {e}], k, e)
  <1>1. /\ r \in Caches /\ SameTables(r, m)
        /\ \A j \in Kinds : r.tlb[j] \subseteq m.tlb[j] \cup (IF j = k THEN {e} ELSE {})
        /\ \A j \in Kinds : r.hot[j] \subseteq m.hot[j] \cup (IF j = k THEN {e} ELSE {})
    BY AddFacts DEF CacheRight
  <1> HIDE DEF r
  <1>2. \A j \in Kinds : /\ \A f \in r.tlb[j] : f \in m.tlb[j] \/ (f = e /\ j = k)
                         /\ \A f \in r.hot[j] : f \in m.hot[j] \/ (f = e /\ j = k)
    BY <1>1
  <1>3. Fresh(r)
    BY <1>1, <1>2 DEF CacheRight, Fresh, SameTables, Caches
  <1>4. Rightful(r, asid)
    BY <1>2 DEF CacheRight, Rightful
  <1>5. \A f : EntryIsStale(m, f) = EntryIsStale(r, f)
    BY <1>1 DEF EntryIsStale, SameTables
  <1>6. \A o \in os : Obeyed(m, o) => Obeyed(r, o)
    BY <1>1, <1>2, <1>5 DEF Obeyed, SameTables
  <1>7. CacheRight(r, asid, os, n, shared, log)
    BY <1>1, <1>3, <1>4, <1>6 DEF CacheRight, SameTables
  <1> QED
    BY <1>7 DEF r

\* A context switch: the hot entries go with the ASID, all with the MMU's state.
LEMMA SwitchKeeps ==
    ASSUME NEW old, NEW new, NEW os, NEW n, NEW shared, NEW log, NEW m, CacheRight(m, old.asid, os, n, shared, log)
    PROVE  LET r == RefreshContextTags(m, old, new)
           IN  /\ CacheRight(r, new.asid, os, n, shared, log)
               /\ CacheRight(ClearTLBs(r), new.asid, os, n, shared, log)
  <1> DEFINE r == RefreshContextTags(m, old, new)
             h == ClearHotTLBs(m)
             t == ClearTLBs(r)
  <1>1. CacheRight(r, new.asid, os, n, shared, log)
    <2>1. CASE old.asid = new.asid
      BY <2>1 DEF RefreshContextTags
    <2>2. CASE old.asid # new.asid
      <3>1. r = h
        BY <2>2 DEF RefreshContextTags
      <3>2. h \in Caches /\ SameTables(h, m) /\ h.hot = [k \in Kinds |-> {}] /\ Shrinks(h, m)
        BY ClearFacts DEF CacheRight, SameTables, Shrinks
      <3> HIDE DEF h, r
      <3>3. CacheRight(h, old.asid, os, n, shared, log)
        BY <3>2, ShrinkKeeps
      <3> QED
        BY <3>1, <3>2, <3>3, ASIDKeeps
    <2> QED
      BY <2>1, <2>2
  <1> HIDE DEF r
  <1>2. t \in Caches /\ SameTables(t, r) /\ Shrinks(t, r)
    BY <1>1, ClearFacts DEF CacheRight, SameTables, Shrinks
  <1> HIDE DEF t
  <1>3. CacheRight(t, new.asid, os, n, shared, log)
    BY <1>1, <1>2, ShrinkKeeps
  <1> QED
    BY <1>1, <1>3 DEF r, t

\* An exception level is entered or left.
LEMMA LevelKeeps ==
    ASSUME NEW asid, NEW os, NEW n, NEW shared, NEW log, NEW m, CacheRight(m, asid, os, n, shared, log), NEW p, NEW q
    PROVE  CacheRight(SetCurrentEL(m, p, q), asid, os, n, shared, log)
  <1>1. CASE p.el = q.el
    BY <1>1 DEF SetCurrentEL
  <1>2. CASE p.el # q.el
    <2> DEFINE hots == [m.hot EXCEPT !["fetch"] = {}]
               r == [m EXCEPT !.hot = hots]
    <2>1. SetCurrentEL(m, p, q) = r
      BY <1>2 DEF SetCurrentEL
    <2>2. hots \in [Kinds -> SUBSET Entries] /\ \A k \in Kinds : hots[k] \subseteq m.hot[k]
      BY DEF CacheRight, Caches
    <2> HIDE DEF hots
    <2>3. r \in Caches /\ r.tlb = m.tlb /\ r.hot = hots /\ SameTables(r, m)
      BY <2>2 DEF CacheRight, Caches, SameTables
    <2> HIDE DEF r
    <2>4. Shrinks(r, m)
      BY <2>2, <2>3 DEF Shrinks
    <2> QED
      BY <2>1, <2>3, <2>4, ShrinkKeeps
  <1> QED
    BY <1>1, <1>2

\* A CPU catches up.
LEMMA CatchUpKeeps ==
    ASSUME ConstantsFit, IsJournal(sharedEpoch, journal), NEW asid, NEW os, NEW n, NEW m,
           CacheRight(m, asid, os, n, sharedEpoch, journal)
    PROVE  LET r == SynchronizeShared(m)
           IN  CacheRight(r, asid, os, n, sharedEpoch, journal) /\ \A o \in os : Obeyed(r, o)
  <1> DEFINE r == SynchronizeShared(m)
  <1>1. /\ r \in Caches /\ Fresh(r) /\ r.observed = sharedEpoch /\ Shrinks(r, m)
        /\ \A o \in Owed : Obeyed(m, o) \/ Awaits(m.observed, sharedEpoch, journal, o) => Obeyed(r, o)
    BY SynchronizeFacts DEF CacheRight
  <1> HIDE DEF r
  <1>2. Rightful(r, asid)
    BY <1>1 DEF CacheRight, Rightful, Shrinks
  <1>3. \A o \in os : o \in Owed /\ o.n <= n /\ Obeyed(r, o)
    BY <1>1 DEF CacheRight
  <1> QED
    BY <1>1, <1>2, <1>3 DEF CacheRight, IsJournal, r

-----------------------------------------------------------------------------
(* Publishing an invalidation.                                             *)

\* Numbers less than N apart have different remainders.
LEMMA Residues ==
    ASSUME NEW N \in Nat \ {0}, NEW i \in Nat, NEW j \in Nat, i < j, j - i < N
    PROVE  i % N # j % N
  <1> SUFFICES ASSUME i % N = j % N PROVE FALSE
    OBVIOUS
  <1>1. i \div N = j \div N
    BY SMTT(60)
  <1>2. i = N * (i \div N) + (i % N) /\ j = N * (j \div N) + (j % N)
    OBVIOUS
  <1>3. i = j
    BY <1>1, <1>2
  <1> QED
    BY <1>3

Logged(log, shared, inv) == [log EXCEPT ![(shared + 1) % JournalCount] = inv]

\* A publication takes the place of an invalidation only when it has left the
\* journal, so who awaits one still does, and everyone awaits the new one.
LEMMA LoggedFacts ==
    ASSUME ConstantsFit, NEW shared, NEW log, IsJournal(shared, log), NEW inv \in TLBIs
    PROVE  /\ IsJournal(shared + 1, Logged(log, shared, inv))
           /\ \A seen \in Nat, o \in Owed :
                Awaits(seen, shared, log, o) => Awaits(seen, shared + 1, Logged(log, shared, inv), o)
           /\ \A seen \in Nat, o \in Owed :
                seen <= shared /\ o.tlbi = inv => Awaits(seen, shared + 1, Logged(log, shared, inv), o)
  <1> DEFINE new == Logged(log, shared, inv)
             at == (shared + 1) % JournalCount
  <1>1. JournalCount \in Nat \ {0} /\ shared \in Nat /\ log \in [0 .. JournalCount - 1 -> TLBIs]
    BY DEF ConstantsFit, IsJournal
  <1>2. shared + 1 \in Nat
    BY <1>1
  <1>3. at \in 0 .. JournalCount - 1
    BY <1>1, <1>2
  <1>4. new \in [0 .. JournalCount - 1 -> TLBIs] /\ new[at] = inv
        /\ \A s \in 0 .. JournalCount - 1 : s # at => new[s] = log[s]
    BY <1>1, <1>3 DEF Logged
  <1> HIDE DEF new
  <1>5. ASSUME NEW seen \in Nat, NEW o \in Owed, Awaits(seen, shared, log, o)
        PROVE  Awaits(seen, shared + 1, new, o)
    <2>1. PICK i \in seen + 1 .. shared : shared - i < JournalCount => log[i % JournalCount] = o.tlbi
      BY <1>5 DEF Awaits
    <2>2. i \in seen + 1 .. shared + 1 /\ i \in Nat /\ i < shared + 1
      BY <1>1, <2>1
    <2>3. ASSUME (shared + 1) - i < JournalCount
          PROVE  new[i % JournalCount] = o.tlbi
      <3>1. shared - i < JournalCount
        BY <1>1, <2>2, <2>3
      <3>2. i % JournalCount \in 0 .. JournalCount - 1
        BY <1>1, <2>2
      <3>3. i % JournalCount # at
        BY <1>1, <1>2, <2>2, <2>3, Residues
      <3> QED
        BY <1>4, <2>1, <3>1, <3>2, <3>3
    <2> QED
      BY <2>2, <2>3 DEF Awaits
  <1>6. ASSUME NEW seen \in Nat, NEW o \in Owed, seen <= shared, o.tlbi = inv
        PROVE  Awaits(seen, shared + 1, new, o)
    <2>1. shared + 1 \in seen + 1 .. shared + 1
      BY <1>1, <1>6
    <2> QED
      BY <1>4, <1>6, <2>1 DEF Awaits
  <1> QED
    BY <1>2, <1>4, <1>5, <1>6 DEF IsJournal, new

\* The journal grows.
LEMMA LoggedKeeps ==
    ASSUME ConstantsFit, NEW shared, NEW log, IsJournal(shared, log), NEW inv \in TLBIs,
           NEW asid, NEW os, NEW n, NEW m, CacheRight(m, asid, os, n, shared, log)
    PROVE  CacheRight(m, asid, os, n, shared + 1, Logged(log, shared, inv))
  <1> DEFINE new == Logged(log, shared, inv)
             next == shared + 1
  <1>1. m.observed \in Nat /\ shared \in Nat /\ m.observed <= shared
    BY DEF CacheRight, Caches, IsJournal
  <1>2. m.observed <= next
    BY <1>1
  <1>3. \A o \in Owed : Awaits(m.observed, shared, log, o) => Awaits(m.observed, next, new, o)
    BY <1>1, LoggedFacts
  <1> HIDE DEF new, next
  <1>4. CacheRight(m, asid, os, n, next, new)
    BY <1>2, <1>3 DEF CacheRight
  <1> QED
    BY <1>4 DEF new, next

\* An invalidation that is none of this CPU's business is counted.
LEMMA CountKeeps ==
    ASSUME NEW shared, NEW log, NEW asid, NEW os, NEW n \in Nat, NEW m, CacheRight(m, asid, os, n, shared, log)
    PROVE  CacheRight(m, asid, os, n + 1, shared, log)
  <1>1. ASSUME NEW q \in os
        PROVE  q \in Owed /\ q.n <= n + 1 /\ (Obeyed(m, q) \/ Awaits(m.observed, shared, log, q))
    <2>1. q \in Owed /\ q.n <= n /\ (Obeyed(m, q) \/ Awaits(m.observed, shared, log, q))
      BY DEF CacheRight
    <2>2. q.n \in Nat
      BY <2>1 DEF Owed
    <2> QED
      BY <2>1, <2>2
  <1> QED
    BY <1>1 DEF CacheRight

\* An invalidation is executed: who owes it has obeyed it or awaits it.
LEMMA OwedKeeps ==
    ASSUME NEW shared, NEW log, NEW asid, NEW os, NEW n \in Nat, NEW m, CacheRight(m, asid, os, n, shared, log),
           NEW o \in Owed, o.n = n + 1, Obeyed(m, o) \/ Awaits(m.observed, shared, log, o)
    PROVE  CacheRight(m, asid, os \cup {o}, n + 1, shared, log)
  <1>1. CacheRight(m, asid, os, n + 1, shared, log)
    BY CountKeeps
  <1>2. o.n <= n + 1
    OBVIOUS
  <1> QED
    BY <1>1, <1>2 DEF CacheRight

\* Applying an invalidation that nobody asked for does no harm.
LEMMA ApplyKeeps ==
    ASSUME ConstantsFit, NEW shared, NEW log, NEW asid, NEW os, NEW n, NEW m, CacheRight(m, asid, os, n, shared, log),
           NEW inv \in TLBIs
    PROVE  LET r == ApplyTLBIEntries(m, inv)
           IN  CacheRight(r, asid, os, n, shared, log) /\ \A o \in Owed : o.tlbi = inv => Obeyed(r, o)
  <1> DEFINE r == ApplyTLBIEntries(m, inv)
  <1>1. Obeying(r, m, inv)
    BY ApplyFacts DEF CacheRight
  <1> HIDE DEF r
  <1>2. Rightful(r, asid)
    BY <1>1 DEF CacheRight, Rightful, Obeying, Shrinks
  <1>3. CacheRight(r, asid, os, n, shared, log)
    BY <1>1, <1>2 DEF CacheRight, Obeying
  <1> QED
    BY <1>1, <1>3 DEF Obeying, r

-----------------------------------------------------------------------------
(* All CPUs.                                                                *)

Walks == [kind : Kinds, page : VirtualPages, level : {0, 1}, spec : BOOLEAN]
CacheTypes ==
    /\ tlb \in [VCPUs -> [Kinds -> SUBSET Entries]] /\ hot \in [VCPUs -> [Kinds -> SUBSET Entries]]
    /\ epoch \in [VCPUs -> Nat] /\ asidEpoch \in [VCPUs -> [ASIDs -> Nat]]
    /\ vaEpoch \in [VCPUs -> [Slots -> Nat]] /\ vaAllEpoch \in [VCPUs -> [Slots -> Nat]]
    /\ vaGlobalEpoch \in [VCPUs -> [Slots -> Nat]] /\ observed \in [VCPUs -> Nat]
SharedTypes ==
    /\ IsJournal(sharedEpoch, journal) /\ issued \in Nat /\ owed \in [VCPUs -> SUBSET Owed]
ContextTypes == stage \in [VCPUs -> Stages] /\ walk \in [VCPUs -> Walks \cup {NoWalk}]

\* The inductive invariant: what holds of the CPUs' registers, and that every
\* CPU's translations are right.
AllRight == \A c \in VCPUs : CacheRight(Cache(c), stage[c].asid, owed[c], issued, sharedEpoch, journal)
TranslationInvariant == RegistersInvariant /\ CacheTypes /\ SharedTypes /\ ContextTypes /\ AllRight

\* One CPU's translation state is replaced.
LEMMA InstallFacts ==
    ASSUME CacheTypes, NEW c \in VCPUs, NEW m \in Caches, Install(c, m)
    PROVE  CacheTypes' /\ Cache(c)' = m /\ \A d \in VCPUs \ {c} : Cache(d)' = Cache(d)
  <1>1. CacheTypes'
    BY DEF CacheTypes, Install, Caches
  <1>2. /\ tlb'[c] = m.tlb /\ hot'[c] = m.hot /\ epoch'[c] = m.epoch /\ asidEpoch'[c] = m.asid
        /\ vaEpoch'[c] = m.va /\ vaAllEpoch'[c] = m.all /\ vaGlobalEpoch'[c] = m.global
        /\ observed'[c] = m.observed
    BY DEF CacheTypes, Install
  <1>3. m = [tlb |-> m.tlb, hot |-> m.hot, epoch |-> m.epoch, asid |-> m.asid, va |-> m.va,
             all |-> m.all, global |-> m.global, observed |-> m.observed]
    BY DEF Caches
  <1>4. Cache(c)' = m
    BY <1>2, <1>3 DEF Cache
  <1>5. ASSUME NEW d \in VCPUs \ {c}
        PROVE  /\ tlb'[d] = tlb[d] /\ hot'[d] = hot[d] /\ epoch'[d] = epoch[d] /\ asidEpoch'[d] = asidEpoch[d]
               /\ vaEpoch'[d] = vaEpoch[d] /\ vaAllEpoch'[d] = vaAllEpoch[d] /\ vaGlobalEpoch'[d] = vaGlobalEpoch[d]
               /\ observed'[d] = observed[d]
    BY DEF CacheTypes, Install
  <1>6. \A d \in VCPUs \ {c} : Cache(d)' = Cache(d)
    BY <1>5 DEF Cache
  <1> QED
    BY <1>1, <1>4, <1>6

\* A CPU does something to its own translations only.
LEMMA OwnCacheKeeps ==
    ASSUME CacheTypes, SharedTypes, AllRight, NEW c \in VCPUs, NEW m,
           CacheRight(m, stage'[c].asid, owed[c], issued, sharedEpoch, journal), Install(c, m),
           UNCHANGED sharedVars, \A d \in VCPUs \ {c} : stage'[d] = stage[d]
    PROVE  CacheTypes' /\ SharedTypes' /\ AllRight'
  <1>1. m \in Caches
    BY DEF CacheRight
  <1>2. CacheTypes' /\ Cache(c)' = m /\ \A d \in VCPUs \ {c} : Cache(d)' = Cache(d)
    BY <1>1, InstallFacts
  <1>3. owed' = owed /\ issued' = issued /\ sharedEpoch' = sharedEpoch /\ journal' = journal
    BY DEF sharedVars
  <1>4. SharedTypes'
    BY <1>3 DEF SharedTypes
  <1>5. ASSUME NEW d \in VCPUs
        PROVE  CacheRight(Cache(d)', stage'[d].asid, owed'[d], issued', sharedEpoch', journal')
    <2>1. CASE d = c
      BY <1>2, <1>3, <2>1
    <2>2. CASE d # c
      BY <1>2, <1>3, <2>2 DEF AllRight
    <2> QED
      BY <2>1, <2>2
  <1>6. AllRight'
    BY <1>5 DEF AllRight
  <1> QED
    BY <1>2, <1>4, <1>6

\* Nothing happens to the translations.
LEMMA NoCacheKeeps ==
    ASSUME CacheTypes, SharedTypes, AllRight, UNCHANGED <<sharedVars, tlbVars, stage>>
    PROVE  CacheTypes' /\ SharedTypes' /\ AllRight'
  <1>1. /\ owed' = owed /\ issued' = issued /\ sharedEpoch' = sharedEpoch /\ journal' = journal /\ stage' = stage
        /\ tlb' = tlb /\ hot' = hot /\ epoch' = epoch /\ asidEpoch' = asidEpoch /\ vaEpoch' = vaEpoch
        /\ vaAllEpoch' = vaAllEpoch /\ vaGlobalEpoch' = vaGlobalEpoch /\ observed' = observed
    BY DEF sharedVars, tlbVars
  <1>2. \A c \in VCPUs : Cache(c)' = Cache(c)
    BY <1>1 DEF Cache
  <1> QED
    BY <1>1, <1>2 DEF CacheTypes, SharedTypes, AllRight

\* The first state.
LEMMA TranslationStarts == ConstantsFit /\ TranslationInit => TranslationInvariant
  <1> SUFFICES ASSUME ConstantsFit, TranslationInit PROVE TranslationInvariant
    OBVIOUS
  <1>1. JournalCount \in Nat \ {0} /\ EmptyEntry \in TLBIs
    BY EmptyEntryTyped DEF ConstantsFit
  <1>2. CacheTypes
    BY DEF TranslationInit, CacheTypes, Slots
  <1>3. SharedTypes
    BY <1>1 DEF TranslationInit, SharedTypes, IsJournal
  <1>4. ContextTypes
    BY DEF TranslationInit, ContextTypes
  <1>5. ASSUME NEW c \in VCPUs
        PROVE  CacheRight(Cache(c), stage[c].asid, owed[c], issued, sharedEpoch, journal)
    <2> DEFINE m == Cache(c)
    <2>1. /\ m.tlb = [k \in Kinds |-> {}] /\ m.hot = [k \in Kinds |-> {}] /\ m.observed = 0
          /\ owed[c] = {} /\ sharedEpoch = 0
      BY DEF TranslationInit, Cache
    <2>2. m \in Caches
      BY <1>2 DEF Cache, Caches, CacheTypes
    <2> HIDE DEF m
    <2> QED
      BY <2>1, <2>2 DEF CacheRight, Fresh, Rightful, m
  <1> QED
    BY <1>2, <1>3, <1>4, <1>5, RegistersInit DEF TranslationInvariant, AllRight

\* The entry that ends a walk.
LEMMA InstallEntryKeeps ==
    ASSUME TranslationInvariant, NEW c \in VCPUs, NEW kind \in Kinds, NEW e \in Entries,
           e.epoch = epoch[c], e.born = issued, Grants(kind, e), e.asid = stage[c].asid,
           InstallEntry(c, e, kind), UNCHANGED <<sharedVars, stage>>
    PROVE  CacheTypes' /\ SharedTypes' /\ AllRight'
  <1> DEFINE m == Cache(c)
  <1>1. CacheRight(m, stage[c].asid, owed[c], issued, sharedEpoch, journal) /\ m.epoch = epoch[c]
    BY DEF TranslationInvariant, AllRight, Cache
  <1>2. PICK victim : Install(c, CopyHot([Drop(m, kind, victim) EXCEPT !.tlb[kind] = @ \cup {e}], kind, e))
    BY DEF InstallEntry
  <1> DEFINE r == CopyHot([Drop(m, kind, victim) EXCEPT !.tlb[kind] = @ \cup {e}], kind, e)
  <1>3. \A o \in owed[c] : ~Predates(o, e)
    <2>1. ASSUME NEW o \in owed[c] PROVE ~(e.born < o.n)
      <3>1. o \in Owed /\ o.n <= issued
        BY <1>1 DEF CacheRight
      <3>2. o.n \in Nat /\ issued \in Nat
        BY <3>1 DEF Owed, TranslationInvariant, SharedTypes
      <3> QED
        BY <3>1, <3>2
    <2> QED
      BY <2>1 DEF Predates
  <1> HIDE DEF m
  <1>4. CacheRight(r, stage[c].asid, owed[c], issued, sharedEpoch, journal)
    BY <1>1, <1>3, AddKeeps
  <1>5. Install(c, r)
    BY <1>2
  <1> HIDE DEF r
  <1> QED
    BY <1>4, <1>5, OwnCacheKeeps DEF TranslationInvariant

\* What a walk leaves behind is an entry for the registers in use.
LEMMA TagFacts ==
    ASSUME TranslationInvariant, NEW c \in VCPUs, walk[c] # NoWalk
    PROVE  LET el == arch[c].pstate.el
               tag == ContextTag(stage[c], el, walk[c].page)
           IN  /\ walk[c] \in Walks /\ walk[c].kind \in Kinds /\ walk[c].page \in VirtualPages
               /\ tag \in Tags /\ tag.mmu = stage[c].mmu /\ tag.level = el /\ el \in {0, 1}
               /\ epoch[c] \in Nat /\ issued \in Nat /\ stage[c] \in Stages
  <1>1. arch[c].pstate.el \in {0, 1}
    BY DEF TranslationInvariant, RegistersInvariant, RegisterInvariant, RegistersTyped, ArchIn, PStates
  <1>2. walk[c] \in Walks /\ stage[c] \in Stages /\ epoch[c] \in Nat /\ issued \in Nat
    BY DEF TranslationInvariant, ContextTypes, CacheTypes, SharedTypes
  <1>3. walk[c].kind \in Kinds /\ walk[c].page \in VirtualPages
    BY <1>2 DEF Walks
  <1>4. \A s, el, page : ContextTag(s, el, page).mmu = s.mmu /\ ContextTag(s, el, page).level = el
    BY DEF ContextTag
  <1>5. ContextTag(stage[c], arch[c].pstate.el, walk[c].page) \in Tags
    BY <1>1, <1>2, <1>3 DEF Tags
  <1> QED
    BY <1>1, <1>2, <1>3, <1>4, <1>5

\* A walk ends.
LEMMA EndWalkKeeps ==
    ASSUME ContextTypes, NEW c \in VCPUs, EndWalk(c), UNCHANGED stage
    PROVE  ContextTypes'
  BY DEF ContextTypes, EndWalk

\* A walk with translation off.
LEMMA WalkOffKeeps ==
    ASSUME ConstantsFit, TranslationInvariant, NEW c \in VCPUs, WalkOff(c)
    PROVE  CacheTypes' /\ SharedTypes' /\ ContextTypes' /\ AllRight'
  <1> DEFINE w == walk[c]
             tag == ContextTag(stage[c], arch[c].pstate.el, w.page)
             desc == CHOOSE d \in Descriptors : TRUE
             e == [page |-> w.page, tag |-> tag, asid |-> stage[c].asid, global |-> FALSE, size |-> 0,
                   epoch |-> epoch[c], desc |-> desc, level |-> 1, born |-> issued]
  <1>1. /\ w.kind \in Kinds /\ w.page \in VirtualPages /\ tag \in Tags /\ tag.mmu = stage[c].mmu
        /\ epoch[c] \in Nat /\ issued \in Nat /\ stage[c] \in Stages
    BY TagFacts DEF WalkOff
  <1>2. desc \in Descriptors /\ stage[c].asid \in ASIDs
    BY <1>1 DEF ConstantsFit
  <1>3. InstallEntry(c, e, w.kind) /\ ~stage[c].mmu /\ UNCHANGED <<sharedVars, stage>>
    BY DEF WalkOff
  <1> HIDE DEF tag, desc
  <1>4. /\ e \in Entries /\ e.epoch = epoch[c] /\ e.born = issued /\ e.asid = stage[c].asid
        /\ e.tag = tag
    BY <1>1, <1>2 DEF Entries
  <1> HIDE DEF e
  <1>5. Grants(w.kind, e)
    BY <1>1, <1>3, <1>4 DEF Grants
  <1>6. CacheTypes' /\ SharedTypes' /\ AllRight'
    BY <1>1, <1>3, <1>4, <1>5, InstallEntryKeeps
  <1>7. ContextTypes'
    BY EndWalkKeeps DEF WalkOff, TranslationInvariant
  <1> QED
    BY <1>6, <1>7

\* A fault leaves the translations alone.
LEMMA FaultKeeps ==
    ASSUME TranslationInvariant, NEW c \in VCPUs, Stage1Fault(c), UNCHANGED <<sharedVars, stage>>
    PROVE  CacheTypes' /\ SharedTypes' /\ ContextTypes' /\ AllRight'
  BY NoCacheKeeps, EndWalkKeeps DEF Stage1Fault, TranslationInvariant

\* A leaf descriptor.
LEMMA LeafKeeps ==
    ASSUME ConstantsFit, TranslationInvariant, NEW c \in VCPUs, walk[c] # NoWalk, NEW d \in Descriptors,
           NEW size \in Sizes, Leaf(c, d, size), UNCHANGED <<sharedVars, stage>>
    PROVE  CacheTypes' /\ SharedTypes' /\ ContextTypes' /\ AllRight'
  <1> DEFINE w == walk[c]
             el == arch[c].pstate.el
             tag == ContextTag(stage[c], el, w.page)
             e == [page |-> w.page, tag |-> tag, asid |-> stage[c].asid,
                   global |-> d.global, size |-> size, epoch |-> epoch[c], desc |-> d, level |-> el,
                   born |-> issued]
  <1>1. CASE ~Permits(d, w.kind, el)
    <2>1. Stage1Fault(c)
      BY <1>1 DEF Leaf
    <2> QED
      BY <2>1, FaultKeeps
  <1>2. CASE Permits(d, w.kind, el)
    <2>1. /\ w.kind \in Kinds /\ w.page \in VirtualPages /\ tag \in Tags /\ tag.level = el /\ el \in {0, 1}
          /\ epoch[c] \in Nat /\ issued \in Nat /\ stage[c] \in Stages
      BY TagFacts
    <2>2. d.global \in BOOLEAN /\ stage[c].asid \in ASIDs
      BY <2>1 DEF ConstantsFit
    <2>3. InstallEntry(c, e, w.kind) /\ EndWalk(c)
      BY <1>2 DEF Leaf
    <2> HIDE DEF tag, el
    <2>4. /\ e \in Entries /\ e.epoch = epoch[c] /\ e.born = issued /\ e.asid = stage[c].asid
          /\ e.tag = tag /\ e.desc = d
      BY <2>1, <2>2 DEF Entries
    <2> HIDE DEF e
    <2>5. Grants(w.kind, e)
      BY <1>2, <2>1, <2>4 DEF Grants
    <2>6. CacheTypes' /\ SharedTypes' /\ AllRight'
      BY <2>1, <2>3, <2>4, <2>5, InstallEntryKeeps
    <2>7. ContextTypes'
      BY <2>3, EndWalkKeeps DEF TranslationInvariant
    <2> QED
      BY <2>6, <2>7
  <1> QED
    BY <1>1, <1>2

\* One level of a walk.
LEMMA WalkLevelKeeps ==
    ASSUME ConstantsFit, TranslationInvariant, NEW c \in VCPUs, WalkLevel(c)
    PROVE  CacheTypes' /\ SharedTypes' /\ ContextTypes' /\ AllRight'
  <1>1. walk[c] # NoWalk /\ UNCHANGED <<sharedVars, stage>>
    BY DEF WalkLevel
  <1>2. walk[c] \in Walks
    BY <1>1, TagFacts
  <1>3. PICK d \in Descriptors :
          \/ Stage1Fault(c)
          \/ Leaf(c, d, 3)
          \/ walk' = [walk EXCEPT ![c].level = 1] /\ UNCHANGED <<tlbVars, fault, program>>
          \/ Leaf(c, d, IF d.contiguous THEN 2 ELSE 1)
    <2>1. PICK d \in Descriptors :
            CASE d.type = "invalid" \/ (walk[c].level = 1 /\ d.type = "block") -> Stage1Fault(c)
              [] d.type = "block" /\ walk[c].level = 0 -> Leaf(c, d, 3)
              [] d.type = "table" /\ walk[c].level = 0 ->
                    /\ walk' = [walk EXCEPT ![c].level = 1]
                    /\ UNCHANGED <<tlbVars, fault, program>>
              [] d.type = "table" /\ walk[c].level = 1 -> Leaf(c, d, IF d.contiguous THEN 2 ELSE 1)
      BY Zenon DEF WalkLevel
    <2>2. d.type \in {"invalid", "table", "block"} /\ walk[c].level \in {0, 1}
      BY <1>2 DEF ConstantsFit, Walks
    <2>3. CASE d.type = "invalid"
      BY <2>1, <2>3
    <2>4. CASE d.type = "block"
      BY <2>1, <2>2, <2>4
    <2>5. CASE d.type = "table"
      BY <2>1, <2>2, <2>5
    <2> QED
      BY <2>2, <2>3, <2>4, <2>5
  <1>4. CASE Stage1Fault(c)
    BY <1>1, <1>4, FaultKeeps
  <1>5. CASE Leaf(c, d, 3)
    BY <1>1, <1>5, LeafKeeps DEF Sizes
  <1>6. CASE Leaf(c, d, IF d.contiguous THEN 2 ELSE 1)
    <2>1. (IF d.contiguous THEN 2 ELSE 1) \in Sizes
      BY DEF Sizes
    <2> QED
      BY <1>1, <1>6, <2>1, LeafKeeps
  <1>7. CASE walk' = [walk EXCEPT ![c].level = 1] /\ UNCHANGED <<tlbVars, fault, program>>
    <2>1. [walk[c] EXCEPT !.level = 1] \in Walks
      BY <1>2 DEF Walks
    <2>2. walk' = [walk EXCEPT ![c] = [walk[c] EXCEPT !.level = 1]]
      BY <1>7
    <2>3. ContextTypes'
      BY <1>1, <2>1, <2>2 DEF ContextTypes, TranslationInvariant
    <2> QED
      BY <1>1, <1>7, <2>3, NoCacheKeeps DEF TranslationInvariant
  <1> QED
    BY <1>3, <1>4, <1>5, <1>6, <1>7

\* A hit is brought up to the epoch: it may be used, because it is current.
LEMMA RefreshedKeeps ==
    ASSUME NEW asid, NEW os, NEW n, NEW shared, NEW log, NEW m, CacheRight(m, asid, os, n, shared, log),
           NEW kind \in Kinds, NEW e \in m.tlb[kind], e.global \/ e.asid = asid, IsCurrent(m, asid, e)
    PROVE  LET fresh == [e EXCEPT !.epoch = m.epoch]
           IN  CacheRight(CopyHot([Drop(m, kind, {e}) EXCEPT !.tlb[kind] = @ \cup {fresh}], kind, fresh),
                          asid, os, n, shared, log)
  <1> DEFINE k == m.epoch
             fresh == [e EXCEPT !.epoch = k]
             r == CopyHot([Drop(m, kind, {e}) EXCEPT !.tlb[kind] = @ \cup {fresh}], kind, fresh)
  <1>1. e \in Entries /\ k \in Nat
    BY DEF CacheRight, Caches
  <1> HIDE DEF k
  <1>2. /\ fresh \in Entries /\ fresh.epoch = k /\ fresh.tag = e.tag /\ fresh.desc = e.desc /\ fresh.global = e.global
        /\ fresh.asid = e.asid /\ fresh.page = e.page /\ fresh.size = e.size /\ fresh.born = e.born
    BY <1>1 DEF Entries
  <1> HIDE DEF fresh
  <1>3. Grants(kind, fresh)
    BY <1>2 DEF CacheRight, Rightful, Grants
  <1>4. ASSUME NEW o, Obeyed(m, o), Predates(o, fresh) PROVE FALSE
    <2>1. Predates(o, e)
      BY <1>2, <1>4 DEF Predates, Covers
    <2>2. e.epoch # m.epoch /\ EntryIsStale(m, e)
      BY <1>4, <2>1 DEF Obeyed
    <2> QED
      BY <2>2 DEF IsCurrent
  <1>5. CacheRight(r, asid, os, n, shared, log)
    BY <1>2, <1>3, <1>4, AddKeeps DEF k
  <1> QED
    BY <1>5 DEF r, fresh, k

\* An access.
LEMMA TranslateKeeps ==
    ASSUME ConstantsFit, TranslationInvariant, NEW c \in VCPUs, NEW kind \in Kinds, NEW page \in VirtualPages, NEW spec \in BOOLEAN,
           Translate(c, kind, page, spec)
    PROVE  CacheTypes' /\ SharedTypes' /\ ContextTypes' /\ AllRight'
  <1> DEFINE m == SynchronizeShared(Cache(c))
             asid == stage[c].asid
             Right(r) == CacheRight(r, asid, owed[c], issued, sharedEpoch, journal)
             found == {e \in Candidates(c, m, kind, page) : IsCurrent(m, asid, e)}
             stale == Candidates(c, m, kind, page) \ found
             Fresh2(e) == [e EXCEPT !.epoch = m.epoch]
             Used(e) == CopyHot([Drop(m, kind, {e}) EXCEPT !.tlb[kind] = @ \cup {Fresh2(e)}], kind, Fresh2(e))
             start == [kind |-> kind, page |-> page, level |-> 0, spec |-> spec]
  <1>1. Right(m)
    <2>1. CacheRight(Cache(c), stage[c].asid, owed[c], issued, sharedEpoch, journal) /\ IsJournal(sharedEpoch, journal)
      BY DEF TranslationInvariant, AllRight, SharedTypes
    <2> QED
      BY <2>1, CatchUpKeeps
  <1>2. UNCHANGED <<sharedVars, stage>>
    BY DEF Translate
  <1>3. \/ Install(c, m) /\ UNCHANGED walk
        \/ \E e \in found : Install(c, Used(e)) /\ UNCHANGED walk
        \/ Install(c, Drop(m, kind, stale)) /\ walk' = [walk EXCEPT ![c] = start]
    BY Zenon DEF Translate
  <1> HIDE DEF m
  <1>4. ASSUME NEW r, Right(r), Install(c, r)
        PROVE  CacheTypes' /\ SharedTypes' /\ AllRight'
    BY <1>2, <1>4, OwnCacheKeeps DEF TranslationInvariant
  <1>5. UNCHANGED walk => ContextTypes'
    BY <1>2 DEF TranslationInvariant, ContextTypes
  <1>6. CASE Install(c, m) /\ UNCHANGED walk
    BY <1>1, <1>4, <1>5, <1>6
  <1>7. CASE \E e \in found : Install(c, Used(e)) /\ UNCHANGED walk
    <2>1. PICK e \in found : Install(c, Used(e)) /\ UNCHANGED walk
      BY <1>7
    <2>2. e \in m.tlb[kind] /\ (e.global \/ e.asid = asid) /\ IsCurrent(m, asid, e)
      BY <2>1 DEF Candidates
    <2> HIDE DEF asid
    <2>3. Right(Used(e))
      BY <1>1, <2>2, RefreshedKeeps
    <2> HIDE DEF Used, Right
    <2> QED
      BY <1>4, <1>5, <2>1, <2>3
  <1>8. CASE Install(c, Drop(m, kind, stale)) /\ walk' = [walk EXCEPT ![c] = start]
    <2> DEFINE r == Drop(m, kind, stale)
    <2>1. r \in Caches /\ SameTables(r, m) /\ Shrinks(r, m)
      BY <1>1, DropFacts DEF CacheRight
    <2> HIDE DEF r
    <2>2. Right(r)
      BY <1>1, <2>1, ShrinkKeeps
    <2>3. CacheTypes' /\ SharedTypes' /\ AllRight'
      BY <1>4, <1>8, <2>2 DEF r
    <2>4. start \in Walks
      BY DEF Walks
    <2>5. ContextTypes'
      BY <1>2, <1>8, <2>4 DEF TranslationInvariant, ContextTypes
    <2> QED
      BY <2>3, <2>5
  <1> QED
    BY <1>3, <1>6, <1>7, <1>8

\* TLBI.
LEMMA ExecuteTLBIKeeps ==
    ASSUME ConstantsFit, TranslationInvariant, NEW c \in VCPUs, NEW name \in TLBIKinds \cup {"range"}, NEW shareable \in BOOLEAN,
           NEW page \in VirtualPages, NEW asid \in ASIDs, ExecuteTLBI(c, name, shareable, page, asid)
    PROVE  CacheTypes' /\ SharedTypes' /\ ContextTypes' /\ AllRight'
  <1> DEFINE inv == DecodeTLBI(name, shareable, page, asid)
             n == issued + 1
             o == [n |-> n, tlbi |-> inv]
             r == ApplyTLBIEntries(Cache(c), inv)
             m(d) == IF d = c THEN r ELSE Cache(d)
  <1>1. inv \in TLBIs
    <2>1. EmptyEntry \in TLBIs
      BY EmptyEntryTyped
    <2>2. CASE name \in {"va", "vaAllAsids"}
      BY <2>2 DEF DecodeTLBI, TLBIs, TLBIKinds
    <2>3. CASE name = "asid"
      BY <2>1, <2>3 DEF DecodeTLBI, TLBIs, TLBIKinds
    <2>4. CASE name \in {"all", "range"}
      BY <2>1, <2>4 DEF DecodeTLBI, TLBIs, TLBIKinds
    <2> QED
      BY <2>2, <2>3, <2>4 DEF TLBIKinds
  <1>2. /\ IF inv.broadcast THEN Publish(inv) ELSE UNCHANGED <<journal, sharedEpoch>>
        /\ Install(c, r) /\ issued' = n /\ stage' = stage /\ walk' = walk
        /\ owed' = [d \in VCPUs |-> IF inv.broadcast \/ d = c THEN owed[d] \cup {o} ELSE owed[d]]
    BY DEF ExecuteTLBI
  <1> HIDE DEF inv
  <1>3. issued \in Nat /\ n \in Nat /\ n = issued + 1 /\ IsJournal(sharedEpoch, journal)
    BY DEF TranslationInvariant, SharedTypes
  <1> HIDE DEF n
  <1>4. o \in Owed /\ o.n = n /\ o.tlbi = inv
    BY <1>1, <1>3 DEF Owed
  <1> HIDE DEF o
  <1>5. \A d \in VCPUs : CacheRight(Cache(d), stage[d].asid, owed[d], issued, sharedEpoch, journal)
    BY DEF TranslationInvariant, AllRight
  <1>6. CacheRight(r, stage[c].asid, owed[c], issued, sharedEpoch, journal) /\ Obeyed(r, o)
    BY <1>1, <1>4, <1>5, ApplyKeeps
  <1>7. \A d \in VCPUs : CacheRight(m(d), stage[d].asid, owed[d], issued, sharedEpoch, journal)
    BY <1>5, <1>6
  <1> HIDE DEF r
  <1>8. r \in Caches
    BY <1>6 DEF CacheRight
  <1>9. CacheTypes' /\ \A d \in VCPUs : Cache(d)' = m(d)
    BY <1>2, <1>8, InstallFacts DEF TranslationInvariant
  <1>10. ContextTypes'
    BY <1>2 DEF TranslationInvariant, ContextTypes
  <1> HIDE DEF m
  <1>11. \A d \in VCPUs : CacheRight(m(d), stage[d].asid, owed[d], n, sharedEpoch, journal)
    BY <1>3, <1>7, CountKeeps
  <1>12. ASSUME NEW d \in VCPUs
         PROVE  owed'[d] = IF inv.broadcast \/ d = c THEN owed[d] \cup {o} ELSE owed[d]
    BY <1>2
  <1>13. owed' \in [VCPUs -> SUBSET Owed]
    BY <1>2, <1>4 DEF TranslationInvariant, SharedTypes
  <1>14. Obeyed(m(c), o)
    BY <1>6 DEF m
  <1>15. CASE ~inv.broadcast
    <2>1. sharedEpoch' = sharedEpoch /\ journal' = journal
      BY <1>2, <1>15
    <2>2. ASSUME NEW d \in VCPUs
          PROVE  CacheRight(m(d), stage[d].asid, owed'[d], n, sharedEpoch, journal)
      <3>1. CASE d = c
        <4>1. owed'[d] = owed[d] \cup {o} /\ Obeyed(m(d), o)
          BY <1>12, <1>14, <3>1
        <4>2. CacheRight(m(d), stage[d].asid, owed[d], issued, sharedEpoch, journal)
          BY <1>7
        <4>3. CacheRight(m(d), stage[d].asid, owed[d] \cup {o}, issued + 1, sharedEpoch, journal)
          BY <1>3, <1>4, <4>1, <4>2, OwedKeeps
        <4> QED
          BY <1>3, <4>1, <4>3
      <3>2. CASE d # c
        BY <1>11, <1>12, <1>15, <3>2
      <3> QED
        BY <3>1, <3>2
    <2>3. AllRight'
      BY <1>2, <1>9, <2>1, <2>2 DEF AllRight
    <2>4. SharedTypes'
      BY <1>2, <1>3, <1>13, <2>1 DEF SharedTypes
    <2> QED
      BY <1>9, <1>10, <2>3, <2>4
  <1>16. CASE inv.broadcast
    <2> DEFINE next == sharedEpoch + 1
               log == Logged(journal, sharedEpoch, inv)
    <2>1. sharedEpoch' = next /\ journal' = log
      BY <1>2, <1>16 DEF Publish, Logged
    <2>2. IsJournal(next, log)
      BY <1>1, <1>3, LoggedFacts
    <2>3. ASSUME NEW d \in VCPUs
          PROVE  CacheRight(m(d), stage[d].asid, owed'[d], n, next, log)
      <3>1. CacheRight(m(d), stage[d].asid, owed[d], issued, sharedEpoch, journal)
        BY <1>7
      <3>2. m(d).observed \in Nat /\ m(d).observed <= sharedEpoch
        BY <3>1 DEF CacheRight, Caches
      <3>3. Awaits(m(d).observed, next, log, o)
        BY <1>1, <1>3, <1>4, <3>2, LoggedFacts
      <3>4. CacheRight(m(d), stage[d].asid, owed[d], issued, next, log)
        BY <1>1, <1>3, <3>1, LoggedKeeps
      <3> HIDE DEF next, log
      <3>5. CacheRight(m(d), stage[d].asid, owed[d] \cup {o}, issued + 1, next, log)
        BY <1>3, <1>4, <3>3, <3>4, OwedKeeps
      <3> QED
        BY <1>3, <1>12, <1>16, <3>5
    <2> HIDE DEF next, log
    <2>4. AllRight'
      BY <1>2, <1>9, <2>1, <2>3 DEF AllRight
    <2>5. SharedTypes'
      BY <1>2, <1>3, <1>13, <2>1, <2>2 DEF SharedTypes
    <2> QED
      BY <1>9, <1>10, <2>4, <2>5
  <1> QED
    BY <1>15, <1>16

\* Every step keeps the translations of every CPU right.
LEMMA TranslationStep ==
    ASSUME ConstantsFit, TranslationInvariant, [TranslationNext]_translationVars
    PROVE  TranslationInvariant'
  <1> DEFINE Kept == CacheTypes' /\ SharedTypes' /\ ContextTypes' /\ AllRight'
             Right(c, r, asid) == CacheRight(r, asid, owed[c], issued, sharedEpoch, journal)
  <1>1. RegistersInvariant'
    BY RegistersNext DEF TranslationInvariant
  <1>2. CacheTypes /\ SharedTypes /\ ContextTypes /\ AllRight /\ IsJournal(sharedEpoch, journal)
    BY DEF TranslationInvariant, SharedTypes
  <1>3. \A c \in VCPUs : Right(c, Cache(c), stage[c].asid)
    BY <1>2 DEF AllRight
  <1>4. ASSUME UNCHANGED <<sharedVars, tlbVars, stage, walk>>
        PROVE  Kept
    BY <1>2, <1>4, NoCacheKeeps DEF ContextTypes
  <1>5. ASSUME NEW c \in VCPUs, NEW r, Right(c, r, stage[c].asid), Install(c, r), UNCHANGED <<sharedVars, stage, walk>>
        PROVE  Kept
    <2>1. CacheTypes' /\ SharedTypes' /\ AllRight'
      BY <1>2, <1>5, OwnCacheKeeps
    <2>2. ContextTypes'
      BY <1>2, <1>5 DEF ContextTypes
    <2> QED
      BY <2>1, <2>2
  <1>6. ASSUME NEW c \in VCPUs, NEW kind \in Kinds, NEW page \in VirtualPages, NEW spec \in BOOLEAN, Translate(c, kind, page, spec)
        PROVE  Kept
    BY <1>6, TranslateKeeps
  <1>7. ASSUME NEW c \in VCPUs, WalkOff(c) \/ WalkLevel(c)
        PROVE  Kept
    BY <1>7, WalkOffKeeps, WalkLevelKeeps
  <1>8. ASSUME NEW c \in VCPUs, Exception(c)
        PROVE  Kept
    <2> DEFINE r == SetCurrentEL(Cache(c), arch[c].pstate, arch'[c].pstate)
    <2>1. Right(c, r, stage[c].asid)
      BY <1>3, LevelKeeps
    <2>2. Install(c, r) /\ UNCHANGED <<sharedVars, stage, walk>>
      BY <1>8 DEF Exception
    <2> HIDE DEF r, Right
    <2> QED
      BY <1>5, <2>1, <2>2
  <1>9. ASSUME NEW c \in VCPUs, BlockBoundary(c)
        PROVE  Kept
    <2> DEFINE r == SynchronizeShared(Cache(c))
    <2>1. Right(c, r, stage[c].asid)
      BY <1>2, <1>3, CatchUpKeeps
    <2>2. Install(c, r) /\ UNCHANGED <<sharedVars, stage, walk>>
      BY <1>9 DEF BlockBoundary
    <2> HIDE DEF r, Right
    <2> QED
      BY <1>5, <2>1, <2>2
  <1>10. ASSUME NEW c \in VCPUs, NEW s \in Stages, SetStage1Translation(c, s)
         PROVE  Kept
    <2> DEFINE m == RefreshContextTags(Cache(c), stage[c], s)
               r == IF s.mmu # stage[c].mmu THEN ClearTLBs(m) ELSE m
    <2>1. Right(c, r, s.asid)
      BY <1>3, SwitchKeeps
    <2>2. Install(c, r) /\ UNCHANGED <<sharedVars, walk>> /\ stage' = [stage EXCEPT ![c] = s]
      BY <1>10 DEF SetStage1Translation
    <2>3. stage'[c] = s /\ \A d \in VCPUs \ {c} : stage'[d] = stage[d]
      BY <1>2, <2>2 DEF ContextTypes
    <2> HIDE DEF r
    <2>4. CacheTypes' /\ SharedTypes' /\ AllRight'
      BY <1>2, <2>1, <2>2, <2>3, OwnCacheKeeps
    <2>5. ContextTypes'
      BY <1>2, <2>2 DEF ContextTypes
    <2> QED
      BY <2>4, <2>5
  <1>11. ASSUME NEW c \in VCPUs, NEW name \in TLBIKinds \cup {"range"}, NEW shareable \in BOOLEAN, NEW page \in VirtualPages,
                NEW asid \in ASIDs, ExecuteTLBI(c, name, shareable, page, asid)
         PROVE  Kept
    BY <1>11, ExecuteTLBIKeeps
  <1>12. ASSUME NEW c \in VCPUs, NEW v, SetStackPointer(c, v) PROVE Kept
    BY <1>4, <1>12 DEF SetStackPointer
  <1>13. ASSUME NEW c \in VCPUs, NEW r, ReadRegister(c, r) PROVE Kept
    BY <1>4, <1>13 DEF ReadRegister
  <1>14. ASSUME NEW c \in VCPUs, NEW r, NEW v, WriteRegister(c, r, v) PROVE Kept
    BY <1>4, <1>14 DEF WriteRegister
  <1>15. ASSUME NEW c \in VCPUs, NextBurst(c) \/ Tick(c) PROVE Kept
    BY <1>4, <1>15 DEF NextBurst, Tick
  <1>16. ASSUME ProgramsDone \/ UNCHANGED translationVars PROVE Kept
    <2>1. UNCHANGED translationVars
      BY <1>16, Zenon DEF ProgramsDone
    <2>2. UNCHANGED <<sharedVars, tlbVars, stage, walk>>
      BY <2>1 DEF translationVars
    <2> QED
      BY <1>4, <2>2
  <1> HIDE DEF Kept
  <1>17. Kept
    <2>1. CASE \E c \in VCPUs, kind \in Kinds, page \in VirtualPages, spec \in BOOLEAN : Translate(c, kind, page, spec)
      BY <1>6, <2>1
    <2>2. CASE \E c \in VCPUs : WalkOff(c) \/ WalkLevel(c) \/ Exception(c) \/ BlockBoundary(c) \/ NextBurst(c) \/ Tick(c)
      BY <1>7, <1>8, <1>9, <1>15, <2>2
    <2>3. CASE \E c \in VCPUs, s \in Stages : SetStage1Translation(c, s)
      BY <1>10, <2>3
    <2>4. CASE \E c \in VCPUs, name \in TLBIKinds \cup {"range"}, shareable \in BOOLEAN, page \in VirtualPages, asid \in ASIDs :
                 ExecuteTLBI(c, name, shareable, page, asid)
      BY <1>11, <2>4
    <2>5. CASE \E c \in VCPUs, v \in {1, 2} : SetStackPointer(c, v)
      BY <1>12, <2>5
    <2>6. CASE \E c \in VCPUs, r \in Registers \cup {"tval", "counter"} : ReadRegister(c, r)
      BY <1>13, <2>6
    <2>7. CASE \E c \in VCPUs, r \in (Registers \ {"sp_el1"}) \cup {"tval"} : \E v \in SmallValues(r) : WriteRegister(c, r, v)
      BY <1>14, <2>7
    <2>8. CASE ProgramsDone \/ UNCHANGED translationVars
      BY <1>16, <2>8
    <2> QED
      BY <2>1, <2>2, <2>3, <2>4, <2>5, <2>6, <2>7, <2>8, Zenon DEF TranslationNext
  <1> QED
    BY <1>1, <1>17 DEF TranslationInvariant, Kept

\* Two of the same tag are of the same state of the MMU and the same level.
LEMMA MatchFacts ==
    ASSUME NEW c, NEW e, Matches(c, e, e.page)
    PROVE  e.tag.mmu = stage[c].mmu /\ e.tag.level = arch[c].pstate.el
  BY DEF Matches, ContextTag

\* A CPU whose translations are right hits none that it may not use.
LEMMA RightIsCurrent == TranslationInvariant => HitsAreCurrent
  <1> SUFFICES ASSUME TranslationInvariant PROVE HitsAreCurrent
    OBVIOUS
  <1>1. \A c \in VCPUs : CacheRight(Cache(c), stage[c].asid, owed[c], issued, sharedEpoch, journal)
    BY DEF TranslationInvariant, AllRight
  <1>2. ASSUME NEW c \in VCPUs, NEW kind \in Kinds, NEW e \in Hits(c, kind)
        PROVE  /\ Matches(c, e, e.page)
               /\ \/ e \in Cache(c).hot[kind]
                  \/ e \in Cache(c).tlb[kind] /\ IsCurrent(Cache(c), stage[c].asid, e)
    BY <1>2 DEF Hits
  <1>3. NoStaleHit
    <2> SUFFICES ASSUME NEW c \in VCPUs, observed[c] = sharedEpoch, NEW kind \in Kinds, NEW e \in Hits(c, kind),
                        NEW o \in owed[c], Covers(o.tlbi, e)
                 PROVE  e.born >= o.n
      BY DEF NoStaleHit
    <2> DEFINE m == Cache(c)
    <2>1. m.observed = sharedEpoch /\ sharedEpoch \in Nat
      BY DEF Cache, TranslationInvariant, SharedTypes, IsJournal
    <2>2. o \in Owed /\ (Obeyed(m, o) \/ Awaits(m.observed, sharedEpoch, journal, o)) /\ m \in Caches
      BY <1>1 DEF CacheRight
    <2>3. ~Awaits(m.observed, sharedEpoch, journal, o)
      <3>1. sharedEpoch + 1 .. sharedEpoch = {}
        BY <2>1
      <3> HIDE DEF m
      <3> QED
        BY <2>1, <3>1 DEF Awaits
    <2>4. e \in m.hot[kind] \/ (e \in m.tlb[kind] /\ IsCurrent(m, stage[c].asid, e))
      BY <1>2
    <2> HIDE DEF m
    <2>5. ~Predates(o, e)
      BY <2>2, <2>3, <2>4 DEF Obeyed, IsCurrent
    <2>6. ~(e.born < o.n) /\ o.n \in Nat /\ e.born \in Nat
      BY <2>2, <2>4, <2>5 DEF Predates, Owed, Caches, Entries
    <2> QED
      BY <2>6
  <1>4. HitsPermitted
    <2> SUFFICES ASSUME NEW c \in VCPUs, NEW kind \in Kinds, NEW e \in Hits(c, kind)
                 PROVE  /\ e.global \/ e.asid = stage[c].asid
                        /\ stage[c].mmu => Permits(e.desc, kind, arch[c].pstate.el)
      BY DEF HitsPermitted
    <2> DEFINE m == Cache(c)
    <2>1. Rightful(m, stage[c].asid)
      BY <1>1 DEF CacheRight
    <2>2. e \in m.hot[kind] \/ (e \in m.tlb[kind] /\ IsCurrent(m, stage[c].asid, e))
      BY <1>2
    <2>3. e.tag.mmu = stage[c].mmu /\ e.tag.level = arch[c].pstate.el
      BY <1>2, MatchFacts
    <2> HIDE DEF m
    <2> QED
      BY <2>1, <2>2, <2>3 DEF Rightful, Grants, IsCurrent
  <1> QED
    BY <1>3, <1>4 DEF HitsAreCurrent

\* THEOREM: whatever entry a CPU that has caught up with the journal can hit was
\* read after every invalidation that covers it, belongs to the ASID in use and
\* grants no more than its descriptor, for any number of CPUs, sizes of tables
\* and journal, and limits of the epoch: an invalidation a CPU owes has been
\* obeyed or is in the journal ahead of it, or has been pushed out of it and
\* then everything will be dropped.
THEOREM HitsStayCurrent == TranslationSpec => []HitsAreCurrent
  <1>1. TranslationInit => TranslationInvariant
    BY TranslationStarts, TranslationAssumption
  <1>2. TranslationInvariant /\ [TranslationNext]_translationVars => TranslationInvariant'
    BY TranslationStep, TranslationAssumption
  <1> QED
    BY <1>1, <1>2, RightIsCurrent, PTL DEF TranslationSpec
===============================================================================
