----------------------------- MODULE ReferenceForm -----------------------------
(***************************************************************************)
(* The reference executor of decoded instructions,                         *)
(* execute_decoded_instruction: integer, memory and system instructions.   *)
(* Every engine of the interpreter falls back on it.  An operator takes    *)
(* the machine m and the decoded instruction i; env is what the embedder   *)
(* accepts at the time: pages, callbacks, and whether memory is the fast   *)
(* context.                                                                *)
(***************************************************************************)
EXTENDS IntegerOperands

Operand(m, r, bits) == Masked(Register(m, r), bits)

Flagged(m, i, flags) ==
    IF i.sets THEN [m EXCEPT !.pstate = WithNZCV(@, flags)] ELSE m

\* The sum or difference every addition of the executor computes.
SumOf(i, lhs, rhs, carry) ==
    AddWithCarry(lhs, Complement(Masked(rhs, i.bits), i.subtract, 2^i.bits), carry, 2^i.bits)

-----------------------------------------------------------------------------
(* Addresses and branches.                                                  *)

AddressOfPC(m, i) ==
    LET base == IF i.page THEN m.pc - (m.pc % PageCells) ELSE m.pc
    IN  Done(Advance(WriteRegister(m, i.rd, Offset(base, i.imm))))

Taken(m, i, condition) ==
    Done([m EXCEPT !.pc = Offset(@, IF condition THEN i.imm ELSE 4)])

CompareBranch(m, i) == Taken(m, i, (Operand(m, i.rt, i.bits) # 0) = i.nonzero)
TestBranch(m, i) == Taken(m, i, (Digit(Register(m, i.rt), i.amount, 1) = 1) = i.nonzero)
ConditionalBranch(m, i) == Taken(m, i, ConditionHolds(i.cond, m.pstate))

Linked(m, i) == IF i.link THEN [m EXCEPT !.x[30] = Offset(m.pc, 4)] ELSE m
Branch(m, i) == Done([Linked(m, i) EXCEPT !.pc = Offset(m.pc, i.imm)])

\* BLR X30 branches to what X30 held before the link.
RegisterBranch(m, i) == Done([Linked(m, i) EXCEPT !.pc = Register(m, i.rn)])

-----------------------------------------------------------------------------
(* Additions, subtractions and comparisons.                                 *)

AddSubImmediate(m, i) ==
    LET sum == SumOf(i, Masked(BaseRegister(m, i.rn), i.bits), i.imm, CarryIn(i.subtract))
    IN  Done(Advance(IF i.sets
                     THEN WriteRegister(Flagged(m, i, FlagsOf(sum)), i.rd, sum.value)
                     ELSE WriteBaseRegister(m, i.rd, sum.value)))

AddSubShifted(m, i) ==
    LET rhs == ShiftedValue(Register(m, i.rm), i.shift, i.amount, i.bits)
        sum == SumOf(i, Operand(m, i.rn, i.bits), rhs, CarryIn(i.subtract))
    IN  Done(Advance(WriteRegister(Flagged(m, i, FlagsOf(sum)), i.rd, sum.value)))

AddSubCarry(m, i) ==
    LET sum == SumOf(i, Operand(m, i.rn, i.bits), Register(m, i.rm), Carry(m.pstate))
    IN  Done(Advance(WriteRegister(Flagged(m, i, FlagsOf(sum)), i.rd, sum.value)))

AddSubExtended(m, i) ==
    LET rhs == ExtendedOperand(Register(m, i.rm), i.option) * 2^i.amount
        sum == SumOf(i, Masked(BaseRegister(m, i.rn), i.bits), rhs, CarryIn(i.subtract))
    IN  Done(Advance(IF i.sets
                     THEN WriteRegister(Flagged(m, i, FlagsOf(sum)), i.rd, sum.value)
                     ELSE WriteBaseRegister(m, i.rd, sum.value)))

\* A comparison made only under a condition; otherwise the flags are given.
ComparedUnder(m, i, rhs) ==
    LET sum == SumOf(i, Operand(m, i.rn, i.bits), rhs, CarryIn(i.subtract))
        flags == IF ConditionHolds(i.cond, m.pstate) THEN FlagsOf(sum) ELSE i.nzcv
    IN  Done(Advance([m EXCEPT !.pstate = WithNZCV(@, flags)]))

ConditionalCompareRegister(m, i) == ComparedUnder(m, i, Register(m, i.rm))
ConditionalCompareImmediate(m, i) == ComparedUnder(m, i, i.imm)

ConditionalSelect(m, i) ==
    LET fallback == Register(m, i.rm)
        other == CASE i.operation = 0 -> IF i.invert THEN Inverted(fallback, XBits) ELSE fallback
                   [] i.operation = 1 -> IF i.invert THEN -fallback ELSE fallback + 1
        value == IF ConditionHolds(i.cond, m.pstate) THEN Register(m, i.rn) ELSE other
    IN  Done(Advance(WriteRegister(m, i.rd, Masked(value, i.bits))))

-----------------------------------------------------------------------------
(* Moves, logic and fields.                                                 *)

\* The bits of a half word, a quarter of the register, at the amount.
HalfWordMask(i) == Masked(Ones(XBits \div 4) * 2^i.amount, i.bits)

MoveWide(m, i) ==
    LET field == HalfWordMask(i)
        value == CASE i.operation = 0 -> Inverted(i.imm, i.bits)
                   [] i.operation = 2 -> Masked(i.imm, i.bits)
                   [] i.operation = 3 ->
                        Masked((Register(m, i.rd) & Inverted(field, XBits)) | (i.imm & field), i.bits)
    IN  Done(Advance(WriteRegister(m, i.rd, value)))

Combined(operation, lhs, rhs) ==
    CASE operation \in {0, 3} -> lhs & rhs
      [] operation = 1 -> lhs | rhs
      [] operation = 2 -> lhs ^^ rhs

\* ANDS sets the flags, and its destination is never SP.
LogicalResult(m, i, value) ==
    IF i.operation = 3 THEN [m EXCEPT !.pstate = WithNZCV(@, LogicalFlags(value, i.bits))] ELSE m

LogicalShifted(m, i) ==
    LET shifted == ShiftedValue(Register(m, i.rm), i.shift, i.amount, i.bits)
        rhs == IF i.invert THEN Inverted(shifted, i.bits) ELSE shifted
        value == Combined(i.operation, Operand(m, i.rn, i.bits), rhs)
    IN  Done(Advance(WriteRegister(LogicalResult(m, i, value), i.rd, value)))

LogicalWithImmediate(m, i) ==
    LET value == Combined(i.operation, Operand(m, i.rn, i.bits), Masked(i.imm, i.bits))
        flagged == LogicalResult(m, i, value)
    IN  Done(Advance(IF i.operation = 3 THEN WriteRegister(flagged, i.rd, value)
                     ELSE WriteBaseRegister(m, i.rd, value)))

ExtractRegister(m, i) ==
    LET low == Operand(m, i.rm, i.bits)
        high == Operand(m, i.rn, i.bits)
        value == IF i.amount = 0 THEN low
                 ELSE Masked(high * 2^(i.bits - i.amount) | (low \div 2^i.amount), i.bits)
    IN  Done(Advance(WriteRegister(m, i.rd, value)))

BitfieldMove(m, i) ==
    LET source == Operand(m, i.rn, i.bits)
        kept == RotateRight(source, i.immr, i.bits) & i.write & i.top
        fill == IF Digit(source, i.imms % i.bits, 1) = 1 THEN Ones(i.bits) ELSE 0
        field == BitfieldInsert(source, i.immr, i.imms, i.bits)
        value == CASE i.operation = 0 -> (fill & Inverted(i.top, i.bits)) | kept
                   [] i.operation = 1 ->
                        (Operand(m, i.rd, i.bits) & Inverted(field.mask, i.bits))
                        | (field.value & field.mask)
                   [] i.operation = 2 -> kept
    IN  Done(Advance(WriteRegister(m, i.rd, value)))

-----------------------------------------------------------------------------
(* One and two sources, and products.                                       *)

OneSource(m, i) ==
    LET source == Operand(m, i.rn, i.bits)
        value == CASE i.operation = 0 -> ReverseBits(source, i.bits)
                   [] i.operation = 1 -> ReverseBytes(source, 2, i.bits)
                   [] i.operation = 2 -> ReverseBytes(source, 4, i.bits)
                   [] i.operation = 3 -> ReverseBytes(source, 8, i.bits)
                   [] i.operation = 4 -> LeadingZeros(source, i.bits)
                   [] i.operation = 5 -> LeadingSigns(source, i.bits)
    IN  IF i.operation = 3 /\ i.bits # XBits THEN Refusal(m)
        ELSE Done(Advance(WriteRegister(m, i.rd, value)))

\* 2 and 3 divide, and 8 to 11 shift by the low bits of the second register.
TwoSource(m, i) ==
    LET source == Register(m, i.rn)
        rhs == Register(m, i.rm)
        value == CASE i.operation = 2 ->
                        IF Masked(rhs, i.bits) = 0 THEN 0
                        ELSE Masked(source, i.bits) \div Masked(rhs, i.bits)
                   [] i.operation = 3 -> SignedDivide(source, rhs, i.bits)
                   [] i.operation \in 8..11 ->
                        ShiftedValue(source, i.operation - 8, rhs % i.bits, i.bits)
    IN  Done(Advance(WriteRegister(m, i.rd, value)))

\* The addend plus or minus the product, at the given width.
Accumulated(m, i, product, bits) ==
    LET addend == Operand(m, i.rt, bits)
    IN  Done(Advance(WriteRegister(m, i.rd,
            Masked(IF i.subtract THEN addend - product ELSE addend + product, bits))))

MultiplyAddSub(m, i) ==
    Accumulated(m, i, Masked(Operand(m, i.rn, i.bits) * Operand(m, i.rm, i.bits), i.bits), i.bits)
SignedMultiplyLong(m, i) ==
    LET half(r) == Signed(Operand(m, r, WBits), 2^WBits)
    IN  Accumulated(m, i, Masked(half(i.rn) * half(i.rm), XBits), XBits)
UnsignedMultiplyLong(m, i) ==
    Accumulated(m, i, Operand(m, i.rn, WBits) * Operand(m, i.rm, WBits), XBits)

SignedMultiplyHigh(m, i) ==
    LET product == Signed(Register(m, i.rn), 2^XBits) * Signed(Register(m, i.rm), 2^XBits)
    IN  Done(Advance(WriteRegister(m, i.rd, Masked(product \div 2^XBits, XBits))))
UnsignedMultiplyHigh(m, i) ==
    Done(Advance(WriteRegister(m, i.rd, (Register(m, i.rn) * Register(m, i.rm)) \div 2^XBits)))

-----------------------------------------------------------------------------
(* Loads and stores.  A refused access leaves the machine as it was.        *)

\* What a load leaves in its register: a signed one may keep only a W.
Widened(i, v) ==
    LET extended == IF i.signed THEN SignExtend(v, ByteBits * i.width) ELSE v
    IN  IF i.signed /\ i.narrow THEN Masked(extended, WBits) ELSE extended

\* The transfer every single load and store makes.
Transfer(m, i, env, a) ==
    IF i.load
    THEN IF ~Accepts(env.read, a, i.width) THEN Refusal(m)
         ELSE Done(Advance(WriteRegister(m, i.rt, Widened(i, Loaded(m, a, i.width)))))
    ELSE IF ~Accepts(env.write, a, i.width) THEN Refusal(m)
         ELSE Done(Advance(ClearReservation(Stored(m, a, i.width, Operand(m, i.rt, ByteBits * i.width)))))

LoadLiteral(m, i, env) ==
    IF i.prefetch THEN Done(Advance(m))
    ELSE LET a == Offset(m.pc, i.imm)
         IN  IF ~Accepts(env.read, a, i.width) THEN Refusal(m)
             ELSE Done(Advance(WriteRegister(m, i.rt,
                      IF i.signed THEN SignExtend(Loaded(m, a, i.width), WBits)
                      ELSE Loaded(m, a, i.width))))

LoadStoreUnsigned(m, i, env) ==
    Transfer(m, i, env, Offset(BaseRegister(m, i.rn), i.imm))

LoadAcquireStoreRelease(m, i, env) == Transfer(m, i, env, BaseRegister(m, i.rn))

\* Mutant of LoadStoreSigned: the base is updated before the access.
LoadStoreSignedEarly(m, i, env) ==
    LET base == BaseRegister(m, i.rn)
        early == IF i.writeback THEN WriteBaseRegister(m, i.rn, Offset(base, i.imm2)) ELSE m
    IN  Transfer(early, i, env, Offset(base, i.imm))

\* The base is updated last, from what it was before the transfer.
LoadStoreSigned(m, i, env) ==
    LET base == BaseRegister(m, i.rn)
        outcome == Transfer(m, i, env, Offset(base, i.imm))
    IN  IF outcome.status = "refused" \/ ~i.writeback THEN outcome
        ELSE Done(WriteBaseRegister(outcome.machine, i.rn, Offset(base, i.imm2)))

LoadStoreRegister(m, i, env) ==
    LET offset == Masked(ExtendedOperand(Register(m, i.rm), i.option) * 2^i.amount, XBits)
    IN  Transfer(m, i, env, Offset(BaseRegister(m, i.rn), offset))

\* Both halves of a pair are found accessible before either is transferred.
LoadStorePair(m, i, env) ==
    LET base == BaseRegister(m, i.rn)
        first == Offset(base, i.imm)
        second == Offset(first, i.width)
        pages == IF i.load THEN env.read ELSE env.write
        value(a) == IF i.signed THEN SignExtend(Loaded(m, a, i.width), WBits)
                    ELSE Loaded(m, a, i.width)
        kept(r) == Operand(m, r, ByteBits * i.width)
        moved == IF i.load
                 THEN WriteRegister(WriteRegister(m, i.rt, value(first)), i.rd, value(second))
                 ELSE ClearReservation(
                        Stored(Stored(m, first, i.width, kept(i.rt)), second, i.width, kept(i.rd)))
    IN  IF ~(Accepts(pages, first, i.width) /\ Accepts(pages, second, i.width)) THEN Refusal(m)
        ELSE Done(Advance(IF i.writeback
                          THEN WriteBaseRegister(moved, i.rn, Offset(base, i.imm2)) ELSE moved))

-----------------------------------------------------------------------------
(* Exclusives.  The fast context decides a store by the generation its load *)
(* saw; callbacks store whenever the reservation is the CPU's own.          *)

\* The fast context has the newest generation of the bytes; callbacks none.
Reserved(m, a, size, env) ==
    [m EXCEPT !.monitor =
        [valid |-> TRUE, address |-> a, size |-> size,
         generation |-> IF env.fast THEN Generation(m, a, size) ELSE @.generation]]

Holds(m, a, size) == m.monitor.valid /\ m.monitor.address = a /\ m.monitor.size = size
Unchanged(m, a, size, env) == env.fast => Generation(m, a, size) = m.monitor.generation

\* The status register, 0 for a store that was made; the reservation ends.
Concluded(m, r, made) == Done(Advance(ClearReservation(WriteRegister(m, r, IF made THEN 0 ELSE 1))))

LoadStoreExclusive(m, i, env) ==
    LET a == BaseRegister(m, i.rn)
    IN  IF i.load
        THEN IF ~Accepts(env.read, a, i.width) THEN Refusal(m)
             ELSE Done(Advance(Reserved(WriteRegister(m, i.rt, Loaded(m, a, i.width)), a, i.width, env)))
        ELSE IF ~Holds(m, a, i.width) THEN Concluded(m, i.rd, FALSE)
        ELSE IF ~Accepts(env.write, a, i.width) THEN Refusal(m)
        ELSE IF ~Unchanged(m, a, i.width, env) THEN Concluded(m, i.rd, FALSE)
        ELSE Concluded(Stored(m, a, i.width, Operand(m, i.rt, ByteBits * i.width)), i.rd, TRUE)

\* Through callbacks the halves are stored one after the other, and the
\* second may be refused when the first is in memory.
LoadStoreExclusivePair(m, i, env) ==
    LET a == BaseRegister(m, i.rn)
        b == Offset(a, i.width)
        size == 2 * i.width
        value(r) == Operand(m, r, ByteBits * i.width)
        loaded == WriteRegister(WriteRegister(m, i.rt, Loaded(m, a, i.width)), i.rd, Loaded(m, b, i.width))
        half == Stored(m, a, i.width, value(i.rt))
        Both(pages) == Accepts(pages, a, i.width) /\ Accepts(pages, b, i.width)
    IN  IF i.load
        THEN IF Both(env.read) THEN Done(Advance(Reserved(loaded, a, size, env))) ELSE Refusal(m)
        ELSE IF ~Holds(m, a, size) THEN Concluded(m, i.rm, FALSE)
        ELSE IF ~Accepts(env.write, a, i.width) THEN Refusal(m)
        ELSE IF ~Accepts(env.write, b, i.width) THEN Refusal(IF env.fast THEN m ELSE half)
        ELSE IF ~Unchanged(m, a, size, env) THEN Concluded(m, i.rm, FALSE)
        ELSE Concluded(Stored(half, b, i.width, value(i.rd)), i.rm, TRUE)

-----------------------------------------------------------------------------
(* System instructions.  Five registers are read and written here, unless   *)
(* the embedder has callbacks of its own for every one.                     *)

LocalRegisters == {"CurrentEL", "NZCV", "DAIF", "FPCR", "FPSR"}
IsLocal(i, env) == env.local /\ i.key \in LocalRegisters

LocalValue(m, key) ==
    CASE key = "CurrentEL" -> LevelOf(m.pstate)
      [] key = "NZCV" -> NZCV(m.pstate)
      [] key = "DAIF" -> Masks(m.pstate)
      [] key = "FPCR" -> m.fpcr
      [] key = "FPSR" -> m.fpsr

SystemRegisterRead(m, i, env) ==
    IF IsLocal(i, env) THEN Done(Advance(WriteRegister(m, i.rt, LocalValue(m, i.key))))
    ELSE IF "register" \in env.calls THEN Done(Advance(WriteRegister(m, i.rt, CallbackRead(m, i.key))))
    ELSE Refusal(m)

\* CurrentEL is written without effect.
LocalWritten(m, key, v) ==
    CASE key = "CurrentEL" -> m
      [] key = "NZCV" -> [m EXCEPT !.pstate = WithNZCV(@, NZCV(v))]
      [] key = "DAIF" -> [m EXCEPT !.pstate = WithMasks(@, Masks(v))]
      [] key = "FPCR" -> [m EXCEPT !.fpcr = v]
      [] key = "FPSR" -> [m EXCEPT !.fpsr = v]

SystemRegisterWrite(m, i, env) ==
    LET v == Register(m, i.rt)
    IN  IF IsLocal(i, env) THEN Done(Advance(LocalWritten(m, i.key, v)))
        ELSE IF "register" \in env.calls THEN Done(Advance(CallbackWrite(m, i.key, v)))
        ELSE Refusal(m)

SystemInstruction(m, env) ==
    IF "system" \in env.calls THEN Done(Advance(m)) ELSE Refusal(m)

ExceptionReturn(m, env) ==
    IF "return" \in env.calls THEN Done(ExceptionReturned(m)) ELSE Refusal(m)

\* MSR DAIFSet and DAIFClr.
PstateImmediate(m, i) ==
    Done(Advance([m EXCEPT !.pstate = IF i.raise THEN @ | i.imm ELSE @ & Inverted(i.imm, XBits)]))

\* SVC, HVC, SMC and BRK: the exception ends the reservation.
SynchronousException(m, env) ==
    IF "exception" \in env.calls THEN Done(ClearReservation(ExceptionTaken(m))) ELSE Refusal(m)

\* WFE and WFI: the callback moves PC, and may give the turn up.
Wait(m, env) ==
    CASE env.wait = "unsupported" -> Refusal(m)
      [] env.wait = "continue" -> Done(Advance(m))
      [] env.wait = "yield" -> Yielded(Advance(m))

Halt(m) == Halted(Advance([m EXCEPT !.halted = TRUE]))

\* execute_decoded_instruction, and the status its callers make of a return.
Reference(m, i, env) ==
    CASE i.op \in {"nop", "barrier"} -> Done(Advance(m))
      [] i.op = "halt" -> Halt(m)
      [] i.op = "system_register_read" -> SystemRegisterRead(m, i, env)
      [] i.op = "system_register_write" -> SystemRegisterWrite(m, i, env)
      [] i.op = "system_instruction" -> SystemInstruction(m, env)
      [] i.op = "exception_return" -> ExceptionReturn(m, env)
      [] i.op = "pstate_immediate" -> PstateImmediate(m, i)
      [] i.op = "synchronous_exception" -> SynchronousException(m, env)
      [] i.op = "wait" -> Wait(m, env)
      [] i.op = "adr" -> AddressOfPC(m, i)
      [] i.op = "cbz" -> CompareBranch(m, i)
      [] i.op = "tbz" -> TestBranch(m, i)
      [] i.op = "bcond" -> ConditionalBranch(m, i)
      [] i.op = "conditional_compare_register" -> ConditionalCompareRegister(m, i)
      [] i.op = "conditional_compare_immediate" -> ConditionalCompareImmediate(m, i)
      [] i.op = "add_sub_immediate" -> AddSubImmediate(m, i)
      [] i.op = "move_wide" -> MoveWide(m, i)
      [] i.op = "add_sub_shifted_register" -> AddSubShifted(m, i)
      [] i.op = "add_sub_carry" -> AddSubCarry(m, i)
      [] i.op = "add_sub_extended_register" -> AddSubExtended(m, i)
      [] i.op = "logical_shifted_register" -> LogicalShifted(m, i)
      [] i.op = "extract_register" -> ExtractRegister(m, i)
      [] i.op = "logical_immediate" -> LogicalWithImmediate(m, i)
      [] i.op = "register_branch" -> RegisterBranch(m, i)
      [] i.op = "conditional_select" -> ConditionalSelect(m, i)
      [] i.op = "bitfield_move" -> BitfieldMove(m, i)
      [] i.op = "one_source" -> OneSource(m, i)
      [] i.op = "two_source" -> TwoSource(m, i)
      [] i.op = "load_literal" -> LoadLiteral(m, i, env)
      [] i.op = "multiply_add_subtract" -> MultiplyAddSub(m, i)
      [] i.op = "signed_multiply_long" -> SignedMultiplyLong(m, i)
      [] i.op = "unsigned_multiply_long" -> UnsignedMultiplyLong(m, i)
      [] i.op = "signed_multiply_high" -> SignedMultiplyHigh(m, i)
      [] i.op = "unsigned_multiply_high" -> UnsignedMultiplyHigh(m, i)
      [] i.op = "branch" -> Branch(m, i)
      [] i.op = "load_store_unsigned_immediate" -> LoadStoreUnsigned(m, i, env)
      [] i.op = "load_store_signed_immediate" -> LoadStoreSigned(m, i, env)
      [] i.op = "load_store_register_offset" -> LoadStoreRegister(m, i, env)
      [] i.op = "load_store_pair" -> LoadStorePair(m, i, env)
      [] i.op = "load_acquire_store_release" -> LoadAcquireStoreRelease(m, i, env)
      [] i.op = "load_store_exclusive" -> LoadStoreExclusive(m, i, env)
      [] i.op = "load_store_exclusive_pair" -> LoadStoreExclusivePair(m, i, env)
================================================================================
