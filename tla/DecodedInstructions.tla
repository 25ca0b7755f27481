-------------------------- MODULE DecodedInstructions --------------------------
(***************************************************************************)
(* The integer, memory and system instructions the decoder of the native   *)
(* interpreter gives, avz_native_decode_instruction: per encoding class,   *)
(* the set of its decoded forms over small sets of registers, immediates   *)
(* and offsets.  Fields the decoder derives from others (widths, masks,    *)
(* addresses before and after a write-back) are derived here too, and an   *)
(* encoding it refuses is in no set.                                       *)
(***************************************************************************)
EXTENDS ThreadedForm

CONSTANTS
    Targets,        \* destination registers, and those a load fills
    Sources,        \* first operands and bases
    Seconds,        \* second operands
    Immediates,     \* of additions, comparisons and moves
    Offsets,        \* signed, of branches and addresses
    Keys            \* the system registers named

Widths == {WBits, XBits}
Conditions == 0..15

-----------------------------------------------------------------------------
(* Arithmetic.                                                              *)

AddSubImmediates ==
    [op : {"add_sub_immediate"}, bits : Widths, rd : Targets, rn : Sources,
     imm : Immediates, subtract : BOOLEAN, sets : BOOLEAN]

\* A rotated operand, or a W register shifted by half a register, is refused.
AddSubShifteds ==
    {i \in [op : {"add_sub_shifted_register"}, bits : Widths, rd : Targets, rn : Sources,
            rm : Seconds, shift : 0..2, amount : 0..(XBits - 1),
            subtract : BOOLEAN, sets : BOOLEAN] : i.amount < i.bits}

AddSubCarries ==
    [op : {"add_sub_carry"}, bits : Widths, rd : Targets, rn : Sources, rm : Seconds,
     subtract : BOOLEAN, sets : BOOLEAN]

AddSubExtendeds ==
    [op : {"add_sub_extended_register"}, bits : Widths, rd : Targets, rn : Sources, rm : Seconds,
     option : 0..7, amount : 0..4, subtract : BOOLEAN, sets : BOOLEAN]

\* The flags of a comparison whose condition fails are the encoding's.
ConditionalCompares ==
    [op : {"conditional_compare_register"}, bits : Widths, rn : Sources, rm : Seconds,
     cond : Conditions, nzcv : {0, 6 * FlagBits, 15 * FlagBits}, subtract : BOOLEAN]
    \cup [op : {"conditional_compare_immediate"}, bits : Widths, rn : Sources, imm : Immediates,
          cond : Conditions, nzcv : {0, 9 * FlagBits}, subtract : BOOLEAN]

ConditionalSelects ==
    [op : {"conditional_select"}, bits : Widths, rd : Targets, rn : Sources, rm : Seconds,
     cond : Conditions, operation : {0, 1}, invert : BOOLEAN]

\* Reversing the bytes of a doubleword needs an X register.
OneSources ==
    {i \in [op : {"one_source"}, bits : Widths, rd : Targets, rn : Sources, operation : 0..5] :
        i.operation = 3 => i.bits = XBits}

TwoSources ==
    [op : {"two_source"}, bits : Widths, rd : Targets, rn : Sources, rm : Seconds,
     operation : {2, 3, 8, 9, 10, 11}]

Multiplies ==
    [op : {"multiply_add_subtract"}, bits : Widths, rd : Targets, rn : Sources, rm : Seconds,
     rt : Seconds, subtract : BOOLEAN]
    \cup [op : {"signed_multiply_long", "unsigned_multiply_long"}, rd : Targets, rn : Sources,
          rm : Seconds, rt : Sources, subtract : BOOLEAN]
    \cup [op : {"signed_multiply_high", "unsigned_multiply_high"}, rd : Targets, rn : Sources,
          rm : Seconds]

-----------------------------------------------------------------------------
(* Moves, logic and fields.                                                 *)

\* An immediate of a quarter register, moved to a quarter that the register
\* has; operation 1 is refused.
MoveWides ==
    LET quarter == XBits \div 4
        form(bits, rd, operation, half, amount) ==
            [op |-> "move_wide", bits |-> bits, rd |-> rd, operation |-> operation,
             amount |-> amount, imm |-> half * 2^amount]
    IN  {i \in {form(bits, rd, operation, half, quarter * hw) :
                   bits \in Widths, rd \in Targets, operation \in {0, 2, 3},
                   half \in Values(quarter), hw \in 0..3} : i.amount < i.bits}

LogicalShifteds ==
    {i \in [op : {"logical_shifted_register"}, bits : Widths, rd : Targets, rn : Sources,
            rm : Seconds, shift : 0..3, amount : 0..(XBits - 1), operation : 0..3,
            invert : BOOLEAN] : i.amount < i.bits}

\* The fields of a register's bits: as many values as it has bits.
Fields == 0..(XBits - 1)

LogicalImmediates ==
    {i \in {[op |-> "logical_immediate", bits |-> bits, rd |-> rd, rn |-> rn,
             operation |-> operation, imm |-> LogicalImmediate(n, immr, imms, bits)] :
                bits \in Widths, rd \in Targets, rn \in Sources, operation \in 0..3,
                n \in 0..1, immr \in Fields, imms \in Fields} : i.imm # NoMask}

ExtractRegisters ==
    {i \in [op : {"extract_register"}, bits : Widths, rd : Targets, rn : Sources, rm : Seconds,
            amount : Fields] : i.amount < i.bits}

\* SBFM, BFM and UBFM.  The architecture leaves a W form whose fields exceed
\* its bits undefined, and no compiler emits one.
BitfieldMoves ==
    LET form(bits, rd, rn, operation, immr, imms) ==
            LET masks == BitfieldMasks(IF bits = XBits THEN 1 ELSE 0, immr, imms, bits)
            IN  [op |-> "bitfield_move", bits |-> bits, rd |-> rd, rn |-> rn,
                 operation |-> operation, immr |-> immr, imms |-> imms,
                 write |-> masks.write, top |-> masks.top]
    IN  UNION {{form(bits, rd, rn, operation, immr, imms) :
                   rd \in Targets, rn \in Sources, operation \in 0..2,
                   immr \in 0..(bits - 1), imms \in 0..(bits - 1)} : bits \in Widths}

-----------------------------------------------------------------------------
(* Branches and addresses.                                                  *)

Addresses ==
    [op : {"adr"}, rd : Targets, page : {FALSE}, imm : Offsets]
    \cup {[op |-> "adr", rd |-> rd, page |-> TRUE, imm |-> offset * PageCells] :
             rd \in Targets, offset \in Offsets}

Branches ==
    [op : {"cbz"}, bits : Widths, rt : Sources \cup {31}, nonzero : BOOLEAN, imm : {4 * k : k \in Offsets}]
    \cup [op : {"tbz"}, rt : Sources \cup {31}, amount : Fields, nonzero : BOOLEAN,
          imm : {4 * k : k \in Offsets}]
    \cup [op : {"bcond"}, cond : Conditions, imm : {4 * k : k \in Offsets}]
    \cup [op : {"branch"}, link : BOOLEAN, imm : {4 * k : k \in Offsets}]
    \cup [op : {"register_branch"}, rn : Sources \cup {30, 31}, link : BOOLEAN]

-----------------------------------------------------------------------------
(* Loads and stores.                                                        *)

\* What a size and an opcode move: a signed load fills an X register or,
\* from a byte or a half word, a W one.
TransferKinds ==
    [width : {1, 2, 4, 8}, load : BOOLEAN, signed : {FALSE}, narrow : {FALSE}]
    \cup [width : {1, 2, 4}, load : {TRUE}, signed : {TRUE}, narrow : {FALSE}]
    \cup [width : {1, 2}, load : {TRUE}, signed : {TRUE}, narrow : {TRUE}]

\* A transfer of a kind with its addressing form.
Transfers(kinds, forms) ==
    {[op |-> f.op, rt |-> f.rt, rn |-> f.rn, imm |-> f.imm, imm2 |-> f.imm2,
      writeback |-> f.writeback, rm |-> f.rm, option |-> f.option,
      amount |-> IF f.scaled THEN HighestSetBit(k.width) ELSE 0,
      width |-> k.width, load |-> k.load, signed |-> k.signed, narrow |-> k.narrow] :
        k \in kinds, f \in forms}

\* An addressing form: the offset applied to the address, that written back,
\* and the extended and scaled register offset.
Addressing(op, rt, rn, imm, imm2, writeback) ==
    [op |-> op, rt |-> rt, rn |-> rn, imm |-> imm, imm2 |-> imm2, writeback |-> writeback,
     rm |-> 31, option |-> 0, scaled |-> FALSE]

\* The immediate is counted in units of the width.
UnsignedTransfers ==
    UNION {Transfers({k}, {Addressing("load_store_unsigned_immediate", rt, rn, k.width * n, 0, FALSE) :
                             rt \in Targets, rn \in Sources, n \in {0, 1, 2}}) : k \in TransferKinds}

\* Unscaled, post-indexed and pre-indexed.
SignedTransfers ==
    Transfers(TransferKinds,
        UNION {{Addressing("load_store_signed_immediate", rt, rn, n, 0, FALSE),
                Addressing("load_store_signed_immediate", rt, rn, 0, n, TRUE),
                Addressing("load_store_signed_immediate", rt, rn, n, n, TRUE)} :
                   rt \in Targets, rn \in Sources, n \in Offsets})

RegisterTransfers ==
    Transfers(TransferKinds,
        {[Addressing("load_store_register_offset", rt, rn, 0, 0, FALSE) EXCEPT
            !.rm = rm, !.option = option, !.scaled = scaled] :
            rt \in Targets, rn \in Sources, rm \in Seconds, option \in {2, 3, 6, 7},
            scaled \in BOOLEAN})

OrderedTransfers ==
    Transfers({k \in TransferKinds : ~k.signed},
        {Addressing("load_acquire_store_release", rt, rn, 0, 0, FALSE) :
            rt \in Targets, rn \in Sources})

\* Literals: a word, a doubleword, a signed word, and a prefetch.
Literals ==
    {[op |-> "load_literal", rt |-> rt, imm |-> 4 * n, width |-> IF kind = 1 THEN 8 ELSE 4,
      signed |-> kind = 2, prefetch |-> kind = 3] : rt \in Targets, n \in Offsets, kind \in 0..3}

\* Pairs of words or doublewords; only a pair of words is loaded signed.
Pairs ==
    {i \in UNION {{[op |-> "load_store_pair", rt |-> rt, rd |-> rd, rn |-> rn, width |-> width,
                    load |-> load, signed |-> signed, imm |-> o[1] * width, imm2 |-> n * width,
                    writeback |-> o[2]] :
                      rt \in Targets, rd \in Seconds, rn \in Sources, width \in {4, 8},
                      load \in BOOLEAN, signed \in BOOLEAN,
                      o \in {<<n, FALSE>>, <<n, TRUE>>, <<0, TRUE>>}} : n \in Offsets} :
        i.signed => i.load /\ i.width = 4}

\* Only a store has a status register.
Exclusives ==
    {i \in [op : {"load_store_exclusive"}, rt : Targets, rn : Sources, rd : Seconds \cup {31},
            width : {1, 2, 4, 8}, load : BOOLEAN] : i.load => i.rd = 31}

ExclusivePairs ==
    {i \in [op : {"load_store_exclusive_pair"}, rt : Targets, rd : Seconds, rn : Sources,
            rm : Seconds \cup {31}, width : {4, 8}, load : BOOLEAN] : i.load => i.rm = 31}

-----------------------------------------------------------------------------
(* The system.                                                              *)

Systems ==
    [op : {"nop", "halt", "barrier", "system_instruction", "exception_return",
           "synchronous_exception", "wait"}]
    \cup [op : {"pstate_immediate"}, raise : BOOLEAN,
          imm : {k * LevelBits : k \in 0..((FlagBits \div LevelBits) - 1)}]
    \cup [op : {"system_register_read", "system_register_write"}, rt : Sources, key : Keys]
================================================================================
