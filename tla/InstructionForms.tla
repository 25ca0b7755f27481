--------------------------- MODULE InstructionForms ---------------------------
(***************************************************************************)
(* One CPU whose instructions are executed in both forms the interpreter   *)
(* has of them: by the reference executor and by the handlers of the       *)
(* threaded interpreter.  An instruction that is refused, because a page   *)
(* is not accessible or a callback declines, is given to the embedder's    *)
(* slow path and executed again; other CPUs store in between.  The engines *)
(* take turns on the same CPU, so the forms must agree on every machine.   *)
(***************************************************************************)
EXTENDS DecodedInstructions, Sequences

CONSTANT InstructionWorkloads      \* machines, what the embedder accepts, and classes of instructions

VARIABLES
    env,            \* what the embedder accepts, and the bytes other CPUs have yet to store
    program,        \* the classes of the instructions still to execute
    reference,      \* the CPU of execute_decoded_instruction
    threaded,       \* the CPU of the threaded handlers
    status,         \* how the two forms ended the last instruction
    last,           \* the last instruction and the CPU before it
    touched         \* the bytes stored to since the last exclusive load

formVars == <<env, program, reference, threaded, status, last, touched>>

\* The classes of the decoder.
Decoded ==
    [add_sub_immediate |-> AddSubImmediates, add_sub_shifted |-> AddSubShifteds,
     add_sub_carry |-> AddSubCarries, add_sub_extended |-> AddSubExtendeds,
     conditional_compare |-> ConditionalCompares, conditional_select |-> ConditionalSelects,
     one_source |-> OneSources, two_source |-> TwoSources, multiply |-> Multiplies,
     move_wide |-> MoveWides, logical_shifted |-> LogicalShifteds,
     logical_immediate |-> LogicalImmediates, extract |-> ExtractRegisters,
     bitfield |-> BitfieldMoves, address |-> Addresses, branch |-> Branches,
     unsigned_transfer |-> UnsignedTransfers, signed_transfer |-> SignedTransfers,
     register_transfer |-> RegisterTransfers, ordered_transfer |-> OrderedTransfers,
     literal |-> Literals, pair |-> Pairs, exclusive |-> Exclusives,
     exclusive_pair |-> ExclusivePairs,
     exclusive_load |-> {i \in Exclusives : i.load}, pair_load |-> {i \in ExclusivePairs : i.load},
     system |-> Systems]

NoInstruction == [op |-> "none"]

Begins(w) ==
    /\ env = w.env
    /\ program = w.program
    /\ reference = w.machine
    /\ threaded = w.machine
    /\ status = [reference |-> "step", threaded |-> "step"]
    /\ last = [instruction |-> NoInstruction, machine |-> w.machine]
    /\ touched = {}

FormsInit == \E w \in InstructionWorkloads : Begins(w)

\* An exclusive load watches its bytes anew; a store is remembered.
IsExclusiveLoad(i) == i.op \in {"load_store_exclusive", "load_store_exclusive_pair"} /\ i.load
StoredBytes(m, n) == {c \in 0..(Cells - 1) : m.generation[c \div Granule] # n.generation[c \div Granule]}

\* Both forms execute the instruction, each on its CPU.
Run(i, accepted) ==
    LET r == Reference(reference, i, accepted)
        t == Threaded(threaded, i, accepted)
    IN  /\ reference' = r.machine
        /\ threaded' = t.machine
        /\ status' = [reference |-> r.status, threaded |-> t.status]
        /\ last' = [instruction |-> i, machine |-> reference]
        /\ touched' = IF IsExclusiveLoad(i) /\ r.status = "step" THEN {}
                      ELSE touched \cup StoredBytes(reference, r.machine)

Continues == status.reference \in {"step", "yielded"}

ExecuteInstruction ==
    /\ Continues
    /\ program # << >>
    /\ \E i \in Decoded[Head(program)] : Run(i, env)
    /\ program' = Tail(program)
    /\ UNCHANGED env

\* Everything the embedder can come to accept: pages mapped, callbacks served.
Granted(e) ==
    [e EXCEPT !.read = {PageOf(c) : c \in 0..(Cells - 1)}, !.write = {PageOf(c) : c \in 0..(Cells - 1)},
              !.calls = {"register", "system", "return", "exception"},
              !.wait = IF @ = "unsupported" THEN "continue" ELSE @]

\* The refused instruction is executed again once its obstacle is gone.
Retry ==
    /\ status.reference = "refused"
    /\ env # Granted(env)
    /\ env' = Granted(env)
    /\ Run(last.instruction, Granted(env))
    /\ UNCHANGED program

\* Another CPU stores one of the bytes it shares, once.
PeerWrite ==
    /\ Continues
    /\ \E c \in env.peers, v \in Values(ByteBits) :
         /\ reference' = Stored(reference, c, 1, v)
         /\ threaded' = Stored(threaded, c, 1, v)
         /\ touched' = touched \cup {c}
         /\ env' = [env EXCEPT !.peers = @ \ {c}]
    /\ UNCHANGED <<program, status>>
    /\ last' = [instruction |-> NoInstruction, machine |-> reference']

FormsNext == ExecuteInstruction \/ Retry \/ PeerWrite

FormsSpec == FormsInit /\ [][FormsNext]_formVars

-----------------------------------------------------------------------------
(* Properties.                                                              *)

\* The two forms of every instruction agree: after any sequence of them, and
\* whatever is refused and executed again, both CPUs are the same.
FormsAgree == reference = threaded /\ status.reference = status.threaded

\* The state a guest can see: the generations of stores are the host's.
Architectural(m) ==
    <<m.x, m.sp, m.pc, m.pstate, m.fpcr, m.fpsr, m.mem, m.bank, m.halted>>

\* A refused instruction can be executed again: whatever it did before it was
\* refused, its second execution has the effect a first one would have had.
RefusalIsRetriable ==
    status.reference = "refused" =>
        LET i == last.instruction
            all == Granted(env)
        IN  /\ Architectural(Reference(reference, i, all).machine)
                 = Architectural(Reference(last.machine, i, all).machine)
            /\ Architectural(Threaded(threaded, i, all).machine)
                 = Architectural(Threaded(last.machine, i, all).machine)

\* A store-exclusive that reports success through the fast context stored over
\* bytes nobody had stored to since the exclusive load.
IsExclusiveStore(i) ==
    i.op \in {"load_store_exclusive", "load_store_exclusive_pair"} /\ ~i.load

ExclusiveStoresAreExact ==
    [][LET i == last'.instruction
           result == IF i.op = "load_store_exclusive" THEN i.rd ELSE i.rm
           size == IF i.op = "load_store_exclusive" THEN i.width ELSE 2 * i.width
           a == BaseRegister(reference, i.rn)
       IN  /\ IsExclusiveStore(i)
           /\ status'.reference = "step"
           /\ env.fast
           /\ result # 31
           /\ reference'.x[result] = 0
           => touched \cap Span(a, size) = {}]_formVars

\* What condition c says of a subtraction of b from a, as numbers.
Relation(c, a, b, N) ==
    LET x == Signed(a, N)
        y == Signed(b, N)
    IN  CASE c = 0 -> a = b             [] c = 1 -> a # b
          [] c = 2 -> a >= b            [] c = 3 -> a < b
          [] c = 4 -> Negative((a - b) % N, N) [] c = 5 -> ~Negative((a - b) % N, N)
          [] c = 6 -> x - y \notin (-(N \div 2))..((N \div 2) - 1)
          [] c = 7 -> x - y \in (-(N \div 2))..((N \div 2) - 1)
          [] c = 8 -> a > b             [] c = 9 -> a <= b
          [] c = 10 -> x >= y           [] c = 11 -> x < y
          [] c = 12 -> x > y            [] c = 13 -> x <= y
          [] c \in {14, 15} -> TRUE

\* After a comparison, each condition holds exactly when its relation does.
ConditionsCompare ==
    LET i == last.instruction
        a == Masked(IF i.op = "add_sub_immediate" THEN BaseRegister(last.machine, i.rn)
                    ELSE Register(last.machine, i.rn), i.bits)
        b == Masked(IF i.op = "conditional_compare_register" THEN Register(last.machine, i.rm)
                    ELSE i.imm, i.bits)
    IN  /\ \/ i.op = "add_sub_immediate" /\ i.subtract /\ i.sets
           \/ /\ i.op \in {"conditional_compare_register", "conditional_compare_immediate"}
              /\ i.subtract
              /\ ConditionHolds(i.cond, last.machine.pstate)
        => \A c \in Conditions : ConditionHolds(c, threaded.pstate) = Relation(c, a, b, 2^i.bits)

\* Bit k of a register after SBFM, BFM or UBFM of the source over the old
\* destination: the field, moved down or up, and what fills the rest.
FieldBit(i, source, old, k) ==
    LET extract == i.imms >= i.immr
        width == IF extract THEN i.imms - i.immr + 1 ELSE i.imms + 1
        low == IF extract THEN 0 ELSE i.bits - i.immr
        from == IF extract THEN i.immr ELSE 0
    IN  IF k \in low..(low + width - 1) THEN Digit(source, from + k - low, 1)
        ELSE IF i.operation = 1 THEN Digit(old, k, 1)
        ELSE IF i.operation = 0 /\ k >= low + width THEN Digit(source, i.imms, 1) ELSE 0

\* A bit field move, computed from masks in two ways, moves the field.
FieldsAreMoved ==
    LET i == last.instruction
    IN  i.op = "bitfield_move" /\ i.rd # 31 =>
          \A k \in 0..(XBits - 1) :
            Digit(threaded.x[i.rd], k, 1) =
              IF k >= i.bits THEN 0
              ELSE FieldBit(i, Register(last.machine, i.rn), Register(last.machine, i.rd), k)

\* A result of W width, computed or loaded, leaves nothing in the upper half.
NarrowResultsAreZeroExtended ==
    LET i == last.instruction
        d == IF "load" \in DOMAIN i THEN i.rt ELSE i.rd
        narrow == \/ "bits" \in DOMAIN i /\ i.bits = WBits /\ "rd" \in DOMAIN i
                  \/ /\ "load" \in DOMAIN i
                     /\ i.load
                     /\ "narrow" \in DOMAIN i
                     /\ i.width <= 4
                     /\ i.signed => i.narrow
    IN  status.reference = "step" /\ narrow /\ d # 31 =>
          reference.x[d] < 2^WBits \/ ("writeback" \in DOMAIN i /\ i.writeback /\ d = i.rn)
=============================================================================
