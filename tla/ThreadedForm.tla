------------------------------ MODULE ThreadedForm ------------------------------
(***************************************************************************)
(* The handlers of the threaded interpreter, one label per instruction of  *)
(* avz_native_run_threaded_decoded_block_cpu_mapped_span.  They repeat the *)
(* reference executor with the code of the hot forms written out, and hand *)
(* an instruction they have no handler for to it (op_generic).             *)
(***************************************************************************)
EXTENDS ReferenceForm

\* AVZ_THREADED_STEP and callback_step, after cpu.pc += 4.
Stepped(m) == Done(Advance(m))
Result(m, i, value) == Stepped(WriteRegister(m, i.rd, value))

\* The second operand and the carry-in of a subtraction, and its flags.
Subtrahend(rhs, i) == IF i.subtract THEN Inverted(rhs, i.bits) ELSE rhs
SumOrDifference(lhs, rhs, i) ==
    AddWithCarry(lhs, Subtrahend(rhs, i), CarryIn(i.subtract), 2^i.bits)
Plain(lhs, rhs, i) == Masked(IF i.subtract THEN lhs - rhs ELSE lhs + rhs, i.bits)

\* The flags and the register, or the base register, of an addition.
Settled(m, i, sum) ==
    Stepped(IF i.sets
            THEN WriteRegister([m EXCEPT !.pstate = WithNZCV(@, FlagsOf(sum))], i.rd, sum.value)
            ELSE WriteBaseRegister(m, i.rd, sum.value))

\* op_add_sub_immediate computes the flags from the operands and the result.
ThreadedAddSubImmediate(m, i) ==
    Settled(m, i, DirectSum(Masked(BaseRegister(m, i.rn), i.bits), Masked(i.imm, i.bits),
                            i.subtract, 2^i.bits))

\* op_add_sub_shifted_register: without flags, the plain sum or difference.
ThreadedAddSubShifted(m, i) ==
    LET lhs == Operand(m, i.rn, i.bits)
        rhs == ShiftedValue(Register(m, i.rm), i.shift, i.amount, i.bits)
        sum == SumOrDifference(lhs, rhs, i)
    IN  IF i.sets
        THEN Result([m EXCEPT !.pstate = WithNZCV(@, FlagsOf(sum))], i, sum.value)
        ELSE Result(m, i, Plain(lhs, rhs, i))

ThreadedAddSubExtended(m, i) ==
    LET rhs == Masked(ExtendedOperand(Register(m, i.rm), i.option) * 2^i.amount, i.bits)
    IN  Settled(m, i, SumOrDifference(Masked(BaseRegister(m, i.rn), i.bits), rhs, i))

ThreadedAddSubCarry(m, i) ==
    LET rhs == Subtrahend(Operand(m, i.rm, i.bits), i)
        sum == AddWithCarry(Operand(m, i.rn, i.bits), rhs, Carry(m.pstate), 2^i.bits)
    IN  Result(IF i.sets THEN [m EXCEPT !.pstate = WithNZCV(@, FlagsOf(sum))] ELSE m, i, sum.value)

\* op_conditional_compare: one handler for the register and the immediate.
ThreadedConditionalCompare(m, i) ==
    LET rhs == IF i.op = "conditional_compare_register" THEN Operand(m, i.rm, i.bits)
               ELSE Masked(i.imm, i.bits)
        flags == IF ConditionHolds(i.cond, m.pstate)
                 THEN FlagsOf(SumOrDifference(Operand(m, i.rn, i.bits), rhs, i)) ELSE i.nzcv
    IN  Stepped([m EXCEPT !.pstate = WithNZCV(@, flags)])

ThreadedConditionalSelect(m, i) ==
    LET fallback == Register(m, i.rm)
        value == IF ConditionHolds(i.cond, m.pstate) THEN Register(m, i.rn)
                 ELSE IF i.operation = 0
                 THEN (IF i.invert THEN Inverted(fallback, XBits) ELSE fallback)
                 ELSE (IF i.invert THEN 2^XBits - fallback ELSE fallback + 1)
    IN  Result(m, i, Masked(value, i.bits))

-----------------------------------------------------------------------------
(* Addresses and branches.                                                  *)

ThreadedAddress(m, i) ==
    Result(m, i, Offset(IF i.page THEN m.pc - (m.pc % PageCells) ELSE m.pc, i.imm))

ThreadedCompareBranch(m, i) ==
    LET taken == (Operand(m, i.rt, i.bits) # 0) = i.nonzero
    IN  Done([m EXCEPT !.pc = IF taken THEN Offset(@, i.imm) ELSE Offset(@, 4)])

ThreadedTestBranch(m, i) ==
    LET taken == (Digit(Register(m, i.rt), i.amount, 1) # 0) = i.nonzero
    IN  Done([m EXCEPT !.pc = IF taken THEN Offset(@, i.imm) ELSE Offset(@, 4)])

ThreadedConditionalBranch(m, i) ==
    Done([m EXCEPT !.pc = IF ConditionHolds(i.cond, m.pstate) THEN Offset(@, i.imm) ELSE Offset(@, 4)])

ThreadedBranch(m, i) ==
    Done([m EXCEPT !.x[30] = IF i.link THEN Offset(m.pc, 4) ELSE @, !.pc = Offset(@, i.imm)])

ThreadedRegisterBranch(m, i) ==
    Done([m EXCEPT !.x[30] = IF i.link THEN Offset(m.pc, 4) ELSE @, !.pc = Register(m, i.rn)])

-----------------------------------------------------------------------------
(* Moves, logic, fields and products.                                       *)

ThreadedMoveWide(m, i) ==
    LET field == HalfWordMask(i)
    IN  Result(m, i,
            CASE i.operation = 0 -> Inverted(i.imm, i.bits)
              [] i.operation = 2 -> Masked(i.imm, i.bits)
              [] i.operation = 3 ->
                   Masked((Register(m, i.rd) & Inverted(field, XBits)) | (i.imm & field), i.bits))

ThreadedLogicalShifted(m, i) ==
    LET shifted == ShiftedValue(Register(m, i.rm), i.shift, i.amount, i.bits)
        value == Combined(i.operation, Operand(m, i.rn, i.bits),
                          IF i.invert THEN Inverted(shifted, i.bits) ELSE shifted)
    IN  Result(LogicalResult(m, i, value), i, value)

ThreadedLogicalImmediate(m, i) ==
    LET value == Combined(i.operation, Operand(m, i.rn, i.bits), Masked(i.imm, i.bits))
    IN  IF i.operation = 3 THEN Result(LogicalResult(m, i, value), i, value)
        ELSE Stepped(WriteBaseRegister(m, i.rd, value))

ThreadedBitfieldMove(m, i) ==
    LET source == Operand(m, i.rn, i.bits)
        rotated == RotateRight(source, i.immr, i.bits)
        field == BitfieldInsert(source, i.immr, i.imms, i.bits)
        sign == IF Digit(source, i.imms % i.bits, 1) = 1 THEN Ones(i.bits) ELSE 0
    IN  Result(m, i,
            IF i.operation = 0 THEN (sign & Inverted(i.top, i.bits)) | (rotated & i.write & i.top)
            ELSE IF i.operation = 1
            THEN (Operand(m, i.rd, i.bits) & Inverted(field.mask, i.bits)) | (field.value & field.mask)
            ELSE rotated & i.write & i.top)

ThreadedOneSource(m, i) ==
    LET source == Operand(m, i.rn, i.bits)
    IN  IF i.operation = 3 /\ i.bits # XBits THEN Refusal(m)
        ELSE Result(m, i,
                CASE i.operation = 0 -> ReverseBits(source, i.bits)
                  [] i.operation \in 1..3 -> ReverseBytes(source, 2^i.operation, i.bits)
                  [] i.operation = 4 -> LeadingZeros(source, i.bits)
                  [] i.operation = 5 -> LeadingSigns(source, i.bits))

ThreadedTwoSource(m, i) ==
    LET source == Register(m, i.rn)
        rhs == Register(m, i.rm)
        by == rhs % i.bits
    IN  Result(m, i,
            CASE i.operation = 2 ->
                   IF Masked(rhs, i.bits) = 0 THEN 0 ELSE Masked(source, i.bits) \div Masked(rhs, i.bits)
              [] i.operation = 3 -> SignedDivide(source, rhs, i.bits)
              [] i.operation \in 8..10 -> ShiftedValue(source, i.operation - 8, by, i.bits)
              [] i.operation = 11 -> RotateRight(source, by, i.bits))

\* The four multiplications, and the two that keep the high half.
ThreadedMultiply(m, i) ==
    LET low(r) == Operand(m, r, WBits)
        half(r) == Signed(low(r), 2^WBits)
        full(r) == Signed(Register(m, r), 2^XBits)
        accumulate(bits, product) ==
            Masked(IF i.subtract THEN Operand(m, i.rt, bits) - product
                   ELSE Operand(m, i.rt, bits) + product, bits)
    IN  Result(m, i,
            CASE i.op = "multiply_add_subtract" ->
                   accumulate(i.bits, Operand(m, i.rn, i.bits) * Operand(m, i.rm, i.bits))
              [] i.op = "signed_multiply_long" -> accumulate(XBits, half(i.rn) * half(i.rm))
              [] i.op = "unsigned_multiply_long" -> accumulate(XBits, low(i.rn) * low(i.rm))
              [] i.op = "signed_multiply_high" ->
                   Masked((full(i.rn) * full(i.rm)) \div 2^XBits, XBits)
              [] i.op = "unsigned_multiply_high" ->
                   (Register(m, i.rn) * Register(m, i.rm)) \div 2^XBits)

-----------------------------------------------------------------------------
(* Loads and stores.  The handlers give a refused access back as            *)
(* OUTSIDE_BLOCK, so that the slow path executes the instruction.           *)

ThreadedLoad(m, i, env, a) ==
    LET v == Loaded(m, a, i.width)
        kept == IF ~i.signed THEN v
                ELSE IF i.narrow THEN Masked(SignExtend(v, ByteBits * i.width), WBits)
                ELSE SignExtend(v, ByteBits * i.width)
    IN  IF Accepts(env.read, a, i.width) THEN Done(WriteRegister(m, i.rt, kept)) ELSE Refusal(m)

ThreadedStore(m, i, env, a) ==
    IF Accepts(env.write, a, i.width)
    THEN Done(ClearReservation(Stored(m, a, i.width, Operand(m, i.rt, ByteBits * i.width))))
    ELSE Refusal(m)

\* The transfer's outcome, with the base and then PC moved on if it was made.
WithWriteback(outcome, i, base) ==
    IF outcome.status = "refused" THEN outcome
    ELSE Stepped(IF i.writeback THEN WriteBaseRegister(outcome.machine, i.rn, Offset(base, i.imm2))
                 ELSE outcome.machine)

ThreadedTransfer(m, i, env, a) ==
    WithWriteback(IF i.load THEN ThreadedLoad(m, i, env, a) ELSE ThreadedStore(m, i, env, a),
          i, BaseRegister(m, i.rn))

\* The address of a transfer by its addressing form.
ThreadedTransferAddress(m, i) ==
    LET base == BaseRegister(m, i.rn)
    IN  CASE i.op \in {"load_store_unsigned_immediate", "load_store_signed_immediate"} ->
               Offset(base, i.imm)
          [] i.op = "load_store_register_offset" ->
               Offset(base, ExtendedOperand(Register(m, i.rm), i.option) * 2^i.amount)
          [] i.op = "load_acquire_store_release" -> base

ThreadedLoadLiteral(m, i, env) ==
    LET a == Offset(m.pc, i.imm)
        v == Loaded(m, a, i.width)
    IN  IF i.prefetch THEN Stepped(m)
        ELSE IF ~Accepts(env.read, a, i.width) THEN Refusal(m)
        ELSE Stepped(WriteRegister(m, i.rt, IF i.signed THEN SignExtend(v, WBits) ELSE v))

ThreadedPair(m, i, env) ==
    LET first == Offset(BaseRegister(m, i.rn), i.imm)
        second == Offset(first, i.width)
        Accessible(pages) == Accepts(pages, first, i.width) /\ Accepts(pages, second, i.width)
        Value(a) == IF i.signed THEN SignExtend(Loaded(m, a, i.width), WBits)
                    ELSE Loaded(m, a, i.width)
        Store(n, a, r) == Stored(n, a, i.width, Operand(m, r, ByteBits * i.width))
        outcome == IF ~Accessible(IF i.load THEN env.read ELSE env.write) THEN Refusal(m)
                   ELSE IF i.load
                   THEN Done(WriteRegister(WriteRegister(m, i.rt, Value(first)), i.rd, Value(second)))
                   ELSE Done(ClearReservation(Store(Store(m, first, i.rt), second, i.rd)))
    IN  WithWriteback(outcome, i, BaseRegister(m, i.rn))

\* op_load_store_exclusive: the status is settled before it is written.
ThreadedExclusive(m, i, env) ==
    LET a == BaseRegister(m, i.rn)
        value == Loaded(m, a, i.width)
        generation == IF env.fast THEN Generation(m, a, i.width) ELSE m.monitor.generation
        mine == m.monitor.valid /\ m.monitor.address = a /\ m.monitor.size = i.width
        matches == mine /\ (env.fast => generation = m.monitor.generation)
        stored == IF matches THEN Stored(m, a, i.width, Operand(m, i.rt, ByteBits * i.width)) ELSE m
        status == IF matches THEN 0 ELSE 1
    IN  IF i.load
        THEN IF ~Accepts(env.read, a, i.width) THEN Refusal(m)
             ELSE Stepped([WriteRegister(m, i.rt, value) EXCEPT
                            !.monitor = [valid |-> TRUE, address |-> a, size |-> i.width,
                                         generation |-> generation]])
        ELSE IF mine /\ ~Accepts(env.write, a, i.width) THEN Refusal(m)
        ELSE Stepped(ClearReservation(WriteRegister(stored, i.rd, status)))

-----------------------------------------------------------------------------
(* System instructions.                                                     *)

ThreadedSystemRegisterRead(m, i, env) ==
    LET own == env.local /\ i.key \in LocalRegisters
        value == CASE own /\ i.key = "CurrentEL" -> LevelOf(m.pstate)
                   [] own /\ i.key = "NZCV" -> NZCV(m.pstate)
                   [] own /\ i.key = "DAIF" -> Masks(m.pstate)
                   [] own /\ i.key = "FPCR" -> m.fpcr
                   [] own /\ i.key = "FPSR" -> m.fpsr
                   [] ~own -> CallbackRead(m, i.key)
    IN  IF own \/ "register" \in env.calls THEN Stepped(WriteRegister(m, i.rt, value))
        ELSE Refusal(m)

ThreadedSystemRegisterWrite(m, i, env) ==
    LET own == env.local /\ i.key \in LocalRegisters
        v == Register(m, i.rt)
        written == CASE own /\ i.key = "CurrentEL" -> m
                     [] own /\ i.key = "NZCV" -> [m EXCEPT !.pstate = WithNZCV(@, NZCV(v))]
                     [] own /\ i.key = "DAIF" -> [m EXCEPT !.pstate = WithMasks(@, Masks(v))]
                     [] own /\ i.key = "FPCR" -> [m EXCEPT !.fpcr = v]
                     [] own /\ i.key = "FPSR" -> [m EXCEPT !.fpsr = v]
                     [] ~own -> CallbackWrite(m, i.key, v)
    IN  IF own \/ "register" \in env.calls THEN Stepped(written) ELSE Refusal(m)

\* op_barrier to op_wait, op_nop and op_halt.
ThreadedSystem(m, i, env) ==
    CASE i.op \in {"nop", "barrier"} -> Stepped(m)
      [] i.op = "halt" -> Halted(Advance([m EXCEPT !.halted = TRUE]))
      [] i.op = "system_instruction" ->
           IF "system" \in env.calls THEN Stepped(m) ELSE Refusal(m)
      [] i.op = "exception_return" ->
           IF "return" \in env.calls THEN Done(ExceptionReturned(m)) ELSE Refusal(m)
      [] i.op = "pstate_immediate" ->
           Stepped([m EXCEPT !.pstate = IF i.raise THEN @ | i.imm ELSE @ & Inverted(i.imm, XBits)])
      [] i.op = "synchronous_exception" ->
           IF "exception" \in env.calls THEN Done(ClearReservation(ExceptionTaken(m)))
           ELSE Refusal(m)
      [] i.op = "wait" ->
           IF env.wait = "unsupported" THEN Refusal(m)
           ELSE IF env.wait = "yield" THEN Yielded(Advance(m)) ELSE Stepped(m)

\* The dispatch: an instruction without a handler goes to op_generic.
Threaded(m, i, env) ==
    CASE i.op \in {"nop", "halt", "barrier", "system_instruction", "exception_return",
                   "pstate_immediate", "synchronous_exception", "wait"} -> ThreadedSystem(m, i, env)
      [] i.op = "adr" -> ThreadedAddress(m, i)
      [] i.op = "cbz" -> ThreadedCompareBranch(m, i)
      [] i.op = "tbz" -> ThreadedTestBranch(m, i)
      [] i.op = "bcond" -> ThreadedConditionalBranch(m, i)
      [] i.op = "add_sub_immediate" -> ThreadedAddSubImmediate(m, i)
      [] i.op = "move_wide" -> ThreadedMoveWide(m, i)
      [] i.op = "add_sub_shifted_register" -> ThreadedAddSubShifted(m, i)
      [] i.op = "branch" -> ThreadedBranch(m, i)
      [] i.op \in {"load_store_unsigned_immediate", "load_store_signed_immediate",
                   "load_store_register_offset", "load_acquire_store_release"} ->
           ThreadedTransfer(m, i, env, ThreadedTransferAddress(m, i))
      [] i.op = "load_store_pair" -> ThreadedPair(m, i, env)
      [] i.op = "logical_shifted_register" -> ThreadedLogicalShifted(m, i)
      [] i.op = "logical_immediate" -> ThreadedLogicalImmediate(m, i)
      [] i.op = "register_branch" -> ThreadedRegisterBranch(m, i)
      [] i.op = "conditional_select" -> ThreadedConditionalSelect(m, i)
      [] i.op = "bitfield_move" -> ThreadedBitfieldMove(m, i)
      [] i.op = "one_source" -> ThreadedOneSource(m, i)
      [] i.op = "two_source" -> ThreadedTwoSource(m, i)
      [] i.op = "load_literal" -> ThreadedLoadLiteral(m, i, env)
      [] i.op \in {"conditional_compare_register", "conditional_compare_immediate"} ->
           ThreadedConditionalCompare(m, i)
      [] i.op = "add_sub_extended_register" -> ThreadedAddSubExtended(m, i)
      [] i.op = "add_sub_carry" -> ThreadedAddSubCarry(m, i)
      [] i.op \in {"multiply_add_subtract", "signed_multiply_long", "unsigned_multiply_long",
                   "signed_multiply_high", "unsigned_multiply_high"} -> ThreadedMultiply(m, i)
      [] i.op = "load_store_exclusive" -> ThreadedExclusive(m, i, env)
      [] i.op = "system_register_read" -> ThreadedSystemRegisterRead(m, i, env)
      [] i.op = "system_register_write" -> ThreadedSystemRegisterWrite(m, i, env)
      [] OTHER -> Reference(m, i, env)
================================================================================
