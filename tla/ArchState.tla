------------------------------ MODULE ArchState ------------------------------
(***************************************************************************)
(* The architectural state that native code keeps for one virtual CPU      *)
(* while it runs: processor state, banked stack pointers, exception        *)
(* registers and generic timer, with a set of dirty registers that tells   *)
(* Swift which ones to copy back when the burst ends.  The operators map   *)
(* states to states; TranslationCache gives them to its CPUs.              *)
(*                                                                         *)
(* A processor state is its exception level, stack selector and interrupt  *)
(* mask; register values are small numbers.                                *)
(***************************************************************************)
EXTENDS Integers

CONSTANTS
    CounterBits,    \* the width of the counter and of compare values
    ValueBits       \* the width of a timer value

Modulus(bits) == 2 ^ bits
PStates == [el : {0, 1}, spsel : {0, 1}, masked : BOOLEAN]
\* Exception entry: EL1, its own stack, everything masked (0x3c5).
EntryPState == [el |-> 1, spsel |-> 1, masked |-> TRUE]

\* The registers that have a dirty bit, by the Swift copy they belong to.
Registers == {"sp_el0", "sp_el1", "spsr", "elr", "esr", "far", "vbar", "tpidr", "ctl", "cval"}

InitialRegisters == [r \in Registers |->
    CASE r = "spsr" -> [el |-> 0, spsel |-> 0, masked |-> FALSE]
      [] r = "ctl" -> [enabled |-> FALSE, imask |-> FALSE]
      [] OTHER -> 0]

\* Mutant of Assign: the dirty bit of the exception syndrome is forgotten.
AssignWithoutSyndrome(a, r, v) ==
    [a EXCEPT !.reg[r] = v, !.dirty = IF r = "esr" THEN @ ELSE @ \cup {r}]

Assign(a, r, v) == [a EXCEPT !.reg[r] = v, !.dirty = @ \cup {r}]

\* Loading a burst: the live stack pointer also goes to its bank, nothing is dirty.
SetArchitecturalState(a, swift) ==
    [a EXCEPT !.reg = [swift EXCEPT ![IF a.pstate.spsel = 0 THEN "sp_el0" ELSE "sp_el1"] = a.sp],
              !.dirty = {}]

\* The end of a burst: Swift's registers after the dirty ones are copied back.
GetArchitecturalState(a, swift) ==
    [r \in Registers |-> IF r \in a.dirty THEN a.reg[r] ELSE swift[r]]

-----------------------------------------------------------------------------
(* The generic timer.                                                      *)

TimerAsserted(ctl, cval, counter) == ctl.enabled /\ ~ctl.imask /\ counter >= cval
\* CTL as read: the status bit compares the same way, whatever the mask.
TimerControl(ctl, cval, counter) == [ctl |-> ctl, istatus |-> counter >= cval]
TimerValue(cval, counter) == (cval - counter) % Modulus(ValueBits)
\* A timer value is signed: it is extended to the width of the counter.
CompareFromValue(value, counter) ==
    LET signed == IF value >= 2 ^ (ValueBits - 1) THEN value - Modulus(ValueBits) ELSE value
    IN (counter + signed) % Modulus(CounterBits)

\* Reading a shared clock replaces the counter; without one the counter
\* advances with the instructions retired.
RefreshSharedCounter(a, clock) == IF a.clocked THEN [a EXCEPT !.counter = clock, !.unpolled = 0] ELSE a

\* Polling is amortised over PollWindow instructions.
PollWindow == 2
AdvanceTime(a, steps, clock) ==
    IF ~a.clocked THEN [a EXCEPT !.counter = (@ + steps) % Modulus(CounterBits)]
    ELSE IF a.unpolled + steps >= PollWindow THEN RefreshSharedCounter(a, clock)
    ELSE [a EXCEPT !.unpolled = @ + steps]
InterruptDue(a) ==
    ~a.pstate.masked /\ (a.pendingIRQ \/ TimerAsserted(a.reg["ctl"], a.reg["cval"], a.counter))

-----------------------------------------------------------------------------
(* System registers and exceptions.                                        *)

\* SP_EL0 is the live stack pointer while that bank is selected.
ReadSystemRegister(a, r, clock) ==
    LET now == RefreshSharedCounter(a, clock)
    IN CASE r = "sp_el0" /\ a.pstate.spsel = 0 -> [arch |-> a, value |-> a.sp]
         [] r = "tval" -> [arch |-> now, value |-> TimerValue(now.reg["cval"], now.counter)]
         [] r = "counter" -> [arch |-> now, value |-> now.counter]
         [] r = "ctl" -> [arch |-> now, value |-> TimerControl(now.reg["ctl"], now.reg["cval"], now.counter)]
         [] OTHER -> [arch |-> a, value |-> a.reg[r]]

WriteSystemRegister(a, r, v, clock) ==
    LET now == RefreshSharedCounter(a, clock)
    IN CASE r = "sp_el0" /\ a.pstate.spsel = 0 -> [a EXCEPT !.sp = v, !.dirty = @ \cup {"sp_el0"}]
         [] r = "tval" -> Assign(now, "cval", CompareFromValue(v, now.counter))
         [] OTHER -> Assign(a, r, v)

\* Both directions first bank the live stack pointer.
BankStackPointer(a) == Assign(a, IF a.pstate.spsel = 0 THEN "sp_el0" ELSE "sp_el1", a.sp)

\* Mutant of ExceptionReturn: the stack pointer in use is not banked first.
ReturnWithoutBanking(a) ==
    [a EXCEPT !.pstate = a.reg["spsr"], !.pc = a.reg["elr"],
              !.sp = a.reg[IF a.reg["spsr"].spsel = 0 THEN "sp_el0" ELSE "sp_el1"]]

ExceptionReturn(a) ==
    LET b == BankStackPointer(a)
    IN [b EXCEPT !.pstate = b.reg["spsr"], !.pc = b.reg["elr"],
                 !.sp = b.reg[IF b.reg["spsr"].spsel = 0 THEN "sp_el0" ELSE "sp_el1"]]

\* SVC: the vector depends on where the call comes from.
VectorOffset(p) == IF p.el = 0 THEN 4 ELSE IF p.spsel = 0 THEN 0 ELSE 2
SynchronousException(a) ==
    LET b == Assign(Assign(Assign(BankStackPointer(a), "spsr", a.pstate), "elr", a.pc + 1), "esr", 1)
    IN [b EXCEPT !.pstate = EntryPState, !.sp = b.reg["sp_el1"],
                 !.pc = b.reg["vbar"] + VectorOffset(a.pstate)]
==============================================================================
