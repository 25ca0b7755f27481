---------------------------- MODULE InstructionCases ----------------------------
(* Machines and instructions for InstructionForms.  The operands are those at *)
(* which a result changes its sign, its width or its flags, for registers of  *)
(* eight bits; memory is accessed at, before and across each page's end.      *)
EXTENDS IntegerOperands, TLC

Edges == {0, 1, 15, 127, 128, 255}
Flags == {k * FlagBits : k \in 0..15}

CPUState(a, b, p, pointer) ==
    [x |-> (0 :> 165) @@ (1 :> a) @@ (2 :> b) @@ (30 :> 60), sp |-> pointer, pc |-> 20, pstate |-> p,
     fpcr |-> 3, fpsr |-> 9,
     mem |-> [c \in 0..(Cells - 1) |-> (c \div 3) % 2],
     generation |-> [g \in 0..((Cells - 1) \div Granule) |-> 0],
     monitor |-> NoReservation,
     bank |-> [elr |-> 40, spsr |-> 16 + (p % 2), vbar |-> 100, sp0 |-> 80, sp1 |-> 70], halted |-> FALSE]

CPUStates(as, bs, ps) == {CPUState(a, b, p, 90) : a \in as, b \in bs, p \in ps}

AllCalls == {"register", "system", "return", "exception"}
Env(fast, read, write, peers) ==
    [fast |-> fast, local |-> TRUE, read |-> read, write |-> write, calls |-> AllCalls,
     wait |-> "continue", peers |-> peers]
Mapped == Env(TRUE, {0, 1}, {0, 1}, {})

Each(classes, machines, envs) ==
    [program : {<<c>> : c \in classes}, machine : machines, env : envs]

\* Results and flags.
Arithmetic ==
    Each({"add_sub_carry"}, CPUStates(Edges, Edges, {0, 2 * FlagBits + 1}), {Mapped})
    \cup Each({"multiply", "two_source"}, CPUStates(Edges, Edges, {5}), {Mapped})
    \cup Each({"add_sub_immediate"}, CPUStates(Edges, {2}, {0, 2 * FlagBits + 1}), {Mapped})
    \cup Each({"add_sub_extended", "add_sub_shifted", "extract"}, CPUStates({143}, {8, 143}, {5}), {Mapped})
    \cup Each({"logical_shifted"}, CPUStates({143}, {135}, {9 * FlagBits + 5}), {Mapped})
    \cup Each({"one_source", "bitfield", "move_wide"}, CPUStates({1, 143}, {2}, {5}), {Mapped})
    \cup Each({"logical_immediate"}, CPUStates({143}, {2}, {5}), {Mapped})
    \cup Each({"conditional_compare"},
              CPUStates({128}, {127}, {0, 6 * FlagBits}) \cup CPUStates({127}, {255}, {4 * FlagBits}), {Mapped})
    \cup Each({"conditional_select"}, CPUStates({8}, {127}, {k * FlagBits : k \in {0, 5, 9, 14}}), {Mapped})
    \cup Each({"branch", "address"}, CPUStates({0}, {2}, Flags) \cup CPUStates({128}, {2}, {5}), {Mapped})

\* Accesses by either context, with every page, without the second, and with
\* one that is only read.
Accesses ==
    {Env(TRUE, {0, 1}, {0, 1}, {}), Env(TRUE, {0, 1}, {0}, {}), Env(FALSE, {0, 1}, {0, 1}, {}),
     Env(FALSE, {0}, {0}, {})}
Memory ==
    Each({"unsigned_transfer", "signed_transfer", "register_transfer", "ordered_transfer", "pair",
          "literal"},
         {[CPUState(a, 255, 5, 3) EXCEPT !.pc = 4] : a \in {0, 6}}, Accesses)

\* Reservations taken and lost, and stores of the CPU's own and of another.
Reservations ==
    [program : {<<"exclusive_load", "exclusive">>}, machine : {CPUState(0, 2, 5, 8)},
     env : {Env(TRUE, {0, 1}, {0, 1}, {8}), Env(FALSE, {0, 1}, {0, 1}, {})}]
    \cup [program : {<<"pair_load", "exclusive_pair">>}, machine : {CPUState(0, 2, 5, 8)},
          env : {Env(TRUE, {0, 1}, {0, 1}, {6}), Env(FALSE, {0, 1}, {0, 1}, {})}]
    \cup [program : {<<"exclusive_load", "exclusive">>, <<"pair_load", "exclusive_pair">>},
          machine : {CPUState(4, 2, 5, 8)}, env : {Env(TRUE, {0, 1}, {0}, {})}]

\* System registers and exceptions, with the embedder's callbacks and without.
Calls ==
    [program : {<<"system", "system">>}, machine : {CPUState(197, 2, 160, 90)}, env : {Mapped}]
    \cup [program : {<<"system", "system">>}, machine : {CPUState(0, 2, 7, 90)},
          env : {[Mapped EXCEPT !.local = FALSE], [Mapped EXCEPT !.local = FALSE, !.calls = {}]}
                \cup {[Mapped EXCEPT !.calls = {}, !.wait = wait] :
                          wait \in {"continue", "unsupported", "yield"}}]

\* A single behaviour, where the instructions are not the subject.
OneCall ==
    {[program |-> <<"system", "system">>, machine |-> CPUState(0, 2, 7, 90),
      env |-> [Mapped EXCEPT !.calls = {}, !.wait = "yield"]]}

AllWorkloads == Arithmetic \cup Memory \cup Reservations \cup Calls
=================================================================================
