--------------------------- MODULE IntegerOperands ---------------------------
(***************************************************************************)
(* What the integer and memory instructions of the native interpreter are  *)
(* computed from: the machine, its registers and PSTATE, the shifts, masks *)
(* and fields of an operand, and guest memory as an access sees it.        *)
(*                                                                         *)
(* A register has XBits bits and a byte an eighth of them; a W register is *)
(* the low half.  Everything is a number, as in the code.  PSTATE has the  *)
(* condition flags in its upper bits, then the interrupt masks, a bit for  *)
(* the exception level and, lowest, one for the stack pointer in use.      *)
(***************************************************************************)
EXTENDS IntegerArithmetic, FiniteSetsExt, Bitwise

CONSTANTS
    XBits,          \* the bits of an X register, eight bytes
    Cells,          \* the addresses of guest RAM, 0..Cells - 1
    PageCells,      \* the bytes of a page
    Granule         \* the bytes one write generation stands for

\* What the instances must give: fields of whole bits, and room for PSTATE.
OperandsFit ==
    /\ XBits \in {8, 16, 32, 64}
    /\ Cells \in 1..(2^XBits)
    /\ {PageCells, Granule} \subseteq Nat \ {0}

ByteBits == XBits \div 8
WBits == XBits \div 2
Values(bits) == 0..(2^bits - 1)

-----------------------------------------------------------------------------
(* Registers.  Register 31 is the zero register or, as a base, SP.          *)

Register(m, r) == IF r = 31 THEN 0 ELSE m.x[r]
BaseRegister(m, r) == IF r = 31 THEN m.sp ELSE m.x[r]

WriteRegister(m, r, v) == IF r = 31 THEN m ELSE [m EXCEPT !.x[r] = v]
WriteBaseRegister(m, r, v) ==
    IF r = 31 THEN [m EXCEPT !.sp = v] ELSE WriteRegister(m, r, v)

\* masked_operand, and the complement of a value at its width.
Masked(v, bits) == v % 2^bits
Inverted(v, bits) == 2^bits - 1 - Masked(v, bits)

\* add_signed_offset, and the address after the instruction.
Offset(base, offset) == (base + offset) % 2^XBits
Advance(m) == [m EXCEPT !.pc = Offset(@, 4)]

-----------------------------------------------------------------------------
(* PSTATE.                                                                  *)

LevelBits == 4                       \* the exception level and the stack, modulo 4
FlagBits == 2^(XBits - 4)            \* the flags, from bit XBits - 4

NZCV(p) == p - (p % FlagBits)
WithNZCV(p, flags) == (p % FlagBits) + flags
LevelOf(p) == (p % LevelBits) - (p % 2)
Masks(p) == (p % FlagBits) - (p % LevelBits)
WithMasks(p, masks) == NZCV(p) + masks + (p % LevelBits)

\* The flags of a sum as bits of PSTATE.
FlagsOf(sum) ==
    LET bit(b) == IF b THEN 1 ELSE 0
    IN  FlagBits * (8 * bit(sum.n) + 4 * bit(sum.z) + 2 * bit(sum.c) + bit(sum.v))

Carry(p) == (p \div (2 * FlagBits)) % 2

\* The flags of a logical result: carry and overflow are cleared.
LogicalFlags(v, bits) ==
    FlagsOf([n |-> Negative(v, 2^bits), z |-> v = 0, c |-> FALSE, v |-> FALSE])

\* Mutant of ConditionHolds: HI and LS look at the carry only.
ConditionWithoutZero(condition, p) ==
    LET flag(k) == (p \div (FlagBits * k)) % 2 = 1
        base == CASE condition \div 2 = 0 -> flag(4)
                  [] condition \div 2 = 1 -> flag(2)
                  [] condition \div 2 = 2 -> flag(8)
                  [] condition \div 2 = 3 -> flag(1)
                  [] condition \div 2 = 4 -> flag(2)
                  [] condition \div 2 = 5 -> flag(8) = flag(1)
                  [] condition \div 2 = 6 -> ~flag(4) /\ flag(8) = flag(1)
                  [] condition \div 2 = 7 -> TRUE
    IN  IF condition % 2 = 1 /\ condition # 15 THEN ~base ELSE base

\* condition_holds.
ConditionHolds(condition, p) ==
    LET flag(k) == (p \div (FlagBits * k)) % 2 = 1
        n == flag(8)
        z == flag(4)
        c == flag(2)
        v == flag(1)
        base == CASE condition \div 2 = 0 -> z
                  [] condition \div 2 = 1 -> c
                  [] condition \div 2 = 2 -> n
                  [] condition \div 2 = 3 -> v
                  [] condition \div 2 = 4 -> c /\ ~z
                  [] condition \div 2 = 5 -> n = v
                  [] condition \div 2 = 6 -> ~z /\ n = v
                  [] condition \div 2 = 7 -> TRUE
    IN  IF condition % 2 = 1 /\ condition # 15 THEN ~base ELSE base

-----------------------------------------------------------------------------
(* Shifts and the counts of leading bits.                                   *)

RotateRight(v, amount, bits) ==
    LET by == amount % bits
        field == Masked(v, bits)
    IN  (field \div 2^by) + (field % 2^by) * 2^(bits - by)

\* shifted_register_value: LSL, LSR, ASR and ROR.
ShiftedValue(v, type, amount, bits) ==
    LET field == Masked(v, bits)
    IN  CASE type = 0 -> Masked(field * 2^amount, bits)
          [] type = 1 -> field \div 2^amount
          [] type = 2 -> Masked(Signed(field, 2^bits) \div 2^amount, bits)
          [] type = 3 -> RotateRight(field, amount, bits)

\* The digits of a value, size bits each, and the value of digits.
Digit(v, k, size) == (v \div 2^(k * size)) % 2^size
FromDigits(d, size) ==
    LET part(k) == d[k] * 2^(k * size) IN MapThenSumSet(part, DOMAIN d)

ReverseBits(v, bits) ==
    FromDigits([k \in 0..(bits - 1) |-> Digit(v, bits - 1 - k, 1)], 1)

\* reverse_bytes_group: a group wider than the operand leaves it as it is.
ReverseBytes(v, group, bits) ==
    LET count == bits \div ByteBits
        mirrored(k) == (k \div group) * group + group - 1 - (k % group)
    IN  IF group > count THEN Masked(v, bits)
        ELSE FromDigits([k \in 0..(count - 1) |-> Digit(v, mirrored(k), ByteBits)], ByteBits)

\* highest_set_bit, -1 for zero.
HighestSetBit(v) == IF v = 0 THEN -1 ELSE CHOOSE k \in 0..XBits : 2^k <= v /\ v < 2^(k + 1)

LeadingZeros(v, bits) == bits - 1 - HighestSetBit(Masked(v, bits))

\* count_leading_sign_bits_width: the sign bit itself is not counted.
LeadingSigns(v, bits) ==
    LeadingZeros(IF Negative(Masked(v, bits), 2^bits) THEN Inverted(v, bits) ELSE v, bits) - 1

\* signed_divide_width rounds to zero; the quotient of the two extremes wraps.
SignedDivide(a, b, bits) ==
    LET lhs == Signed(Masked(a, bits), 2^bits)
        rhs == Signed(Masked(b, bits), 2^bits)
        size(y) == IF y < 0 THEN -y ELSE y
        quotient == size(lhs) \div size(rhs)
    IN  IF rhs = 0 THEN 0
        ELSE Masked(IF (lhs < 0) = (rhs < 0) THEN quotient ELSE -quotient, bits)

-----------------------------------------------------------------------------
(* Extensions, and the masks of immediates and bit fields.                  *)

\* sign_extend_loaded.
SignExtend(v, bits) == Masked(Signed(v, 2^bits), XBits)

\* extended_register_value: the low bits of the option say how much is kept.
ExtendedOperand(v, option) ==
    LET kept == ByteBits * 2^(option % 4)
    IN  IF option >= 4 THEN SignExtend(Masked(v, kept), kept) ELSE Masked(v, kept)

NoMask == -1

Ones(n) == 2^n - 1
Replicated(element, size, bits) ==
    LET copy(k) == element * 2^(k * size)
    IN  MapThenSumSet(copy, 0..((bits \div size) - 1))

\* The size of the element an encoding repeats, or 0 when it is reserved:
\* the fields have as many values as the register has bits.
ElementSize(n, imms, bits) ==
    LET length == HighestSetBit(n * XBits + (XBits - 1 - imms))
    IN  IF length < 1 \/ 2^length > bits THEN 0 ELSE 2^length

\* decode_logical_immediate: a run of ones, rotated and repeated.
LogicalImmediate(n, immr, imms, bits) ==
    LET size == ElementSize(n, imms, bits)
    IN  IF \/ bits = WBits /\ n # 0
           \/ size = 0
           \/ imms % size = size - 1
        THEN NoMask
        ELSE Replicated(RotateRight(Ones((imms % size) + 1), immr % size, size), size, bits)

\* decode_bitfield_masks: the bits a move writes and those below its top.
BitfieldMasks(n, immr, imms, bits) ==
    LET size == ElementSize(n, imms, bits)
        last == imms % size
        rotate == immr % size
    IN  IF (n # 0) # (bits = XBits) \/ size = 0
        THEN [write |-> NoMask, top |-> NoMask]
        ELSE [write |-> Replicated(RotateRight(Ones(last + 1), rotate, size), size, bits),
              top |-> Replicated(Ones(((last - rotate) % size) + 1), size, bits)]

\* bitfield_insert: the field and where it goes.
BitfieldInsert(source, immr, imms, bits) ==
    IF imms >= immr
    THEN LET width == imms - immr + 1
         IN  [value |-> Masked(source \div 2^immr, width), mask |-> Ones(width)]
    ELSE LET lsb == bits - immr
         IN  [value |-> Masked(Masked(source, imms + 1) * 2^lsb, bits),
              mask |-> Masked(Ones(imms + 1) * 2^lsb, bits)]

-----------------------------------------------------------------------------
(* Guest memory.  env.read and env.write are the pages the access functions *)
(* accept; a page they do not accept is unmapped, protected or a device's.  *)

Span(a, width) == a..(a + width - 1)
PageOf(a) == a \div PageCells
Accepts(pages, a, width) == \A c \in Span(a, width) : c < Cells /\ PageOf(c) \in pages

\* Little-endian, and every granule with the generation of its last store; the
\* code notes it only for granules an exclusive load has observed.
Loaded(m, a, width) ==
    FromDigits([k \in 0..(width - 1) |-> m.mem[a + k]], ByteBits)
GranulesOf(a, width) == {c \div Granule : c \in Span(a, width)}
\* Mutant of Generation: only where the access begins.
FirstGeneration(m, a, width) == m.generation[a \div Granule]
Generation(m, a, width) == Max({m.generation[g] : g \in GranulesOf(a, width)})

Stored(m, a, width, v) ==
    LET next == Max({m.generation[g] : g \in DOMAIN m.generation}) + 1
    IN  [m EXCEPT
          !.mem = [c \in DOMAIN @ |-> IF c \in Span(a, width) THEN Digit(v, c - a, ByteBits) ELSE @[c]],
          !.generation = [g \in DOMAIN @ |-> IF g \in GranulesOf(a, width) THEN next ELSE @[g]]]

\* clear_exclusive_reservation.
NoReservation == [valid |-> FALSE, address |-> 0, size |-> 0, generation |-> 0]
ClearReservation(m) == [m EXCEPT !.monitor = NoReservation]

-----------------------------------------------------------------------------
(* What one instruction comes to: it was executed, the executor refused it  *)
(* and the slow path takes over, or the CPU halted or gives up its turn.    *)

Done(m) == [status |-> "step", machine |-> m]
Refusal(m) == [status |-> "refused", machine |-> m]
Halted(m) == [status |-> "halted", machine |-> m]
Yielded(m) == [status |-> "yielded", machine |-> m]
-----------------------------------------------------------------------------
(* The fast context's callbacks: system registers the interpreter does not  *)
(* hold itself, exceptions taken to level 1 and the return from them.       *)

OwnStack(p) == p % 2 = 1

\* The stack pointer in use, put where the other level's is kept.
Banked(m) == IF OwnStack(m.pstate) THEN [m EXCEPT !.bank.sp1 = m.sp] ELSE [m EXCEPT !.bank.sp0 = m.sp]
StackOf(m, p) == IF OwnStack(p) THEN m.bank.sp1 ELSE m.bank.sp0

CallbackRead(m, key) ==
    CASE key = "SP_EL0" -> IF OwnStack(m.pstate) THEN m.bank.sp0 ELSE m.sp
      [] key = "SPSR_EL1" -> m.bank.spsr
      [] OTHER -> m.bank.elr

CallbackWrite(m, key, v) ==
    CASE key = "SP_EL0" -> IF OwnStack(m.pstate) THEN [m EXCEPT !.bank.sp0 = v] ELSE [m EXCEPT !.sp = v]
      [] key = "SPSR_EL1" -> [m EXCEPT !.bank.spsr = v]
      [] OTHER -> [m EXCEPT !.bank.elr = v]

\* From level 0, and from level 1 on either stack.
VectorOffset(p) == IF p % LevelBits < 2 THEN 8 ELSE IF OwnStack(p) THEN 4 ELSE 0

\* Level 1 on its own stack, every interrupt masked and the flags clear.
ExceptionTaken(m) ==
    [Banked(m) EXCEPT !.bank.elr = Offset(m.pc, 4), !.bank.spsr = m.pstate,
                      !.sp = Banked(m).bank.sp1, !.pstate = FlagBits - 1,
                      !.pc = Offset(m.bank.vbar, VectorOffset(m.pstate))]

ExceptionReturned(m) ==
    [Banked(m) EXCEPT !.sp = StackOf(Banked(m), m.bank.spsr), !.pstate = m.bank.spsr, !.pc = m.bank.elr]
==============================================================================
