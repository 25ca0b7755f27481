-------------------------- MODULE NativeEngineProofs --------------------------
(***************************************************************************)
(* The accounts of a slice of native execution, for any guest code whose   *)
(* blocks end at their terminators, any budgets, any answers of the host   *)
(* and any deadline of the guest's timer: whichever engines run the        *)
(* blocks, every retired instruction is charged and reported once.  And    *)
(* the two ways an engine computes a result, which give the same number    *)
(* and the same flags for operands of every width.                         *)
(***************************************************************************)
EXTENDS ExecutionChain, IntegerArithmetic, TLAPS

-----------------------------------------------------------------------------
(* The inductive invariant.                                                *)

\* A block, trace or graph has been dispatched and is not added up yet.
Running == {"step", "boundary", "service", "member", "gate", "helper", "final", "ran"}
Looping == {"head", "select", "chosen", "report"}
Ending == {"finish", "done"}
Statuses == {"outside", "max_steps", "halted", "unsupported", "yielded", "memory_fault", "revalidate"}
Stopping == {"halted", "unsupported", "yielded", "memory_fault"}
Graphs == {"graph", "bounded"}
Chains == [steps : Nat, blocks : Int, status : Statuses]
Checkpoints == [steps : Nat, blocks : Int, limit : Nat]
Guests == [block : Blocks, at : Nat, masked : BOOLEAN, halted : BOOLEAN, retired : Nat, faults : {0, 1}]
Timers == [charged : Nat, compare : Nat, live : BOOLEAN, since : Nat, fired : BOOLEAN]
Hosts == [total : Nat, masked : BOOLEAN]
Runs == [engine : {"none", "c", "assembly", "trace"} \cup Graphs, block : Blocks, steps : Nat, limit : Int,
         allowed : Int, visits : Int, maxVisits : Int, charged : Nat, status : Statuses,
         stop : {"none", "executor", "callback", "proof", "steps", "visits", "outside", "limit"},
         irq : BOOLEAN, terminal : BOOLEAN, veto : BOOLEAN, enteredAt : Nat]

SliceTypes ==
    /\ phase \in Running \cup Looping \cup Ending
    /\ chain \in Chains /\ ck \in Checkpoints /\ guest \in Guests
    /\ timer \in Timers /\ host \in Hosts /\ run \in Runs
    /\ guest.at \in 1..Len(Code[guest.block])

\* The totals of the chain, the timer and the host, and what each of them is
\* still owed of the run that is under way.
Accounts ==
    /\ phase \in Running =>
           /\ chain.steps + run.steps = guest.retired
           /\ timer.charged + run.steps - run.charged = guest.retired
           /\ run.charged <= run.steps
    /\ phase \notin Running => chain.steps = guest.retired /\ timer.charged = guest.retired
    /\ phase \notin Ending => host.total + ck.steps = chain.steps
    /\ phase \in Ending => /\ guest.faults = 0
                           /\ host.total + ck.steps \in {guest.retired, guest.retired + 1}
    /\ phase = "done" => ck.steps = 0

\* A fault is on its way to the end of the slice.
FaultsEnd ==
    guest.faults = 1 =>
        \/ phase = "ran" /\ run.status \in {"unsupported", "memory_fault"}
        \/ phase = "service" /\ run.engine = "graph" /\ run.stop = "executor" /\ run.status = "memory_fault"
        \/ phase = "final" /\ run.status = "memory_fault"
        \/ phase = "report" /\ chain.status \in {"unsupported", "memory_fault"}

\* The timer of a guest that counts instructions fires by its count; the
\* host's clock is looked at every Poll of them.
Clock ==
    /\ timer.since < Poll
    /\ ~timer.live => (timer.fired <=> timer.charged >= timer.compare)

\* A run is dispatched within the budgets of the slice and of the host.
Within ==
    /\ chain.steps <= MaxSteps
    /\ phase \in {"select", "chosen"} => chain.steps < MaxSteps
    /\ phase \in Running =>
          /\ run.steps <= run.limit
          /\ run.limit <= MaxSteps - chain.steps
          /\ run.limit <= ck.limit - ck.steps
    /\ phase \in Looping => guest.retired <= host.total + ck.limit

\* Once it has been told every step, the host knows the interrupt mask too.
MaskKnown ==
    /\ phase \in Looping /\ ck.steps = 0 => host.masked = guest.masked
    /\ phase \in Running /\ ck.steps + run.steps = 0 => host.masked = guest.masked

\* A block with a system instruction begins right after a checkpoint and is
\* left after that instruction.
SystemBlock ==
    /\ phase = "step" /\ run.engine = "c" /\ run.steps < run.limit =>
           /\ guest.block = run.block
           /\ HostCheckpoint(run.block) => ck.steps = 0 /\ host.masked = guest.masked
    /\ phase = "boundary" /\ run.engine = "c" /\ HostCheckpoint(run.block) => guest.block # run.block

\* Which engine is in which phase.
EngineFits ==
    /\ phase = "chosen" => run.engine # "none" /\ run.block = guest.block /\ run.steps = 0 /\ run.charged = 0
    /\ phase = "step" => run.engine \in {"c", "trace", "assembly"}
    /\ phase = "boundary" => run.engine \in {"c", "trace"}
    /\ phase \in {"service", "member", "gate", "helper", "final"} => run.engine \in Graphs
    /\ phase \in {"gate", "helper", "final"} => run.engine = "bounded"

\* No interrupt is due.
Quiet == guest.masked \/ ~timer.fired
Prompt ==
    /\ phase \in {"head", "select", "chosen"} /\ chain.steps > 0 => Quiet
    /\ phase = "report" /\ chain.status \notin Stopping => Quiet
    /\ phase = "ran" /\ run.engine \in Graphs => run.steps = run.charged /\ (run.irq \/ Quiet)

\* A graph that runs up to this step does not pass the timer's deadline, nor
\* a bounded one the next look at the host's clock.
InTime(end) ==
    /\ ~timer.live /\ ~guest.masked => timer.charged + end - run.charged <= timer.compare
    /\ timer.live /\ run.engine = "bounded" => timer.since + end - run.charged <= Poll
GraphsInTime ==
    /\ phase = "service" /\ run.engine = "bounded" => run.steps = 0 /\ run.charged = 0 /\ run.limit > 0
    /\ phase = "member" /\ run.engine = "graph" =>
           run.steps <= run.allowed /\ run.allowed <= run.limit /\ InTime(run.allowed)
    /\ phase \in {"member", "gate", "helper", "final"} /\ run.engine = "bounded" => InTime(run.limit)
    /\ phase = "helper" => run.steps < run.limit

SliceInvariant ==
    /\ SliceTypes /\ Accounts /\ FaultsEnd /\ Clock /\ Within /\ MaskKnown
    /\ SystemBlock /\ EngineFits /\ Prompt /\ GraphsInTime

-----------------------------------------------------------------------------
(* What the helpers of the actions do.                                     *)

\* The constants, one by one.
LEMMA Constants ==
    /\ MaxSteps \in Nat /\ MaxBlocks \in Nat /\ Interval \in Nat /\ MaxTrace \in Nat
    /\ Poll \in Nat /\ Poll > 0 /\ Limits \subseteq Nat /\ Deadlines \subseteq Nat
    /\ First \in Blocks
  BY ChainAssumption

\* A block holds an instruction, ends at its first terminator, and goes on at
\* a block.
LEMMA CodeEnds ==
    ASSUME NEW b \in Blocks
    PROVE  /\ Len(Code[b]) \in Nat /\ Len(Code[b]) >= 1
           /\ \A i \in 1..Len(Code[b]) : Code[b][i] \in Terminators => i = Len(Code[b])
           /\ Succ[b] \subseteq Blocks
           /\ HostCheckpoint(b) => b \notin Succ[b]
<1>1. Code[b] \in Seq(Plain \cup Terminators) /\ Code[b] # <<>>
  BY ChainAssumption DEF CodeIsWellFormed
<1>2. \A i \in 1..Len(Code[b]) - 1 : Code[b][i] \in Plain
  BY ChainAssumption DEF CodeIsWellFormed
<1>3. Plain \cap Terminators = {}
  BY DEF Plain, Terminators
<1>4. Len(Code[b]) \in Nat /\ Len(Code[b]) >= 1
  BY <1>1
<1>5. ASSUME NEW i \in 1..Len(Code[b]), Code[b][i] \in Terminators PROVE i = Len(Code[b])
  <2>1. i \notin 1..Len(Code[b]) - 1
    BY <1>2, <1>3, <1>5
  <2> QED
    BY <1>4, <2>1
<1>6. Succ[b] \subseteq Blocks /\ (HostCheckpoint(b) => b \notin Succ[b])
  BY ChainAssumption DEF CodeIsWellFormed
<1> QED
  BY <1>4, <1>5, <1>6

\* An instruction that retires.
LEMMA RetireEffect ==
    ASSUME SliceTypes, NEW masked \in BOOLEAN, NEW halted \in BOOLEAN, Retire(masked, halted)
    PROVE  /\ guest' \in Guests
           /\ guest'.at \in 1..Len(Code[guest'.block])
           /\ guest'.masked = masked /\ guest'.retired = guest.retired + 1 /\ guest'.faults = guest.faults
           /\ ~AtEnd => guest'.block = guest.block
           /\ AtEnd => guest'.block \in Succ[guest.block]
<1>1. PICK b \in (IF AtEnd THEN Succ[guest.block] ELSE {guest.block}) :
        guest' = [guest EXCEPT !.block = b, !.at = IF AtEnd THEN 1 ELSE @ + 1, !.masked = masked,
                               !.halted = halted, !.retired = @ + 1]
  BY DEF Retire
<1>2. guest \in Guests /\ guest.block \in Blocks /\ guest.at \in 1..Len(Code[guest.block])
  BY DEF SliceTypes, Guests
<1>3. b \in Blocks /\ (AtEnd => b \in Succ[guest.block]) /\ (~AtEnd => b = guest.block)
  BY <1>1, <1>2, CodeEnds
<1>4. Len(Code[b]) \in Nat /\ Len(Code[b]) >= 1
  BY <1>3, CodeEnds
<1>5. guest.at \in Nat /\ guest.retired \in Nat
  BY <1>2 DEF Guests
<1>6. DEFINE at == IF AtEnd THEN 1 ELSE guest.at + 1
<1>7. at \in Nat /\ at \in 1..Len(Code[b])
  BY <1>2, <1>3, <1>4, <1>5 DEF AtEnd
<1>8. guest' = [guest EXCEPT !.block = b, !.at = at, !.masked = masked, !.halted = halted, !.retired = guest.retired + 1]
  BY <1>1
<1> HIDE DEF at
<1>9. /\ guest' \in Guests /\ guest'.block = b /\ guest'.at = at /\ guest'.masked = masked
      /\ guest'.retired = guest.retired + 1 /\ guest'.faults = guest.faults
  <2>1. guest.retired + 1 \in Nat
    BY <1>5
  <2> QED
    BY <1>2, <1>3, <1>7, <1>8, <2>1, Zenon DEF Guests
<1> QED
  BY <1>3, <1>7, <1>9

\* An instruction that faults.
LEMMA FaultEffect ==
    ASSUME SliceTypes, guest' = Faulted
    PROVE  /\ guest' \in Guests /\ guest'.at \in 1..Len(Code[guest'.block])
           /\ guest'.masked = guest.masked /\ guest'.retired = guest.retired
           /\ guest'.block = guest.block /\ guest'.faults = 1
  BY DEF SliceTypes, Guests, Faulted

\* The timer after some steps.
LEMMA AdvanceEffect ==
    ASSUME SliceTypes, Clock, NEW n \in Nat, AdvanceTime(n)
    PROVE  /\ timer' \in Timers /\ Clock'
           /\ timer'.charged = timer.charged + n /\ timer'.compare = timer.compare /\ timer'.live = timer.live
           /\ timer.live => timer'.since = timer.since + n \/ (timer'.since = 0 /\ timer.since + n >= Poll)
           /\ n = 0 => timer'.fired = timer.fired
<1>1. /\ timer \in Timers /\ timer.charged \in Nat /\ timer.since \in Nat /\ timer.compare \in Nat
      /\ timer.live \in BOOLEAN /\ timer.fired \in BOOLEAN
  BY DEF SliceTypes, Timers
<1>2. Poll \in Nat /\ Poll > 0
  BY Constants
<1>3. CASE ~timer.live
  <2> DEFINE count == timer.charged + n
  <2> DEFINE fired == timer.charged + n >= timer.compare
  <2>1. timer' = [timer EXCEPT !.charged = count, !.fired = fired]
    BY <1>1, <1>3 DEF AdvanceTime, Timers
  <2>2. count \in Nat /\ fired \in BOOLEAN
    BY <1>1
  <2>3. (fired <=> count >= timer.compare) /\ count = timer.charged + n
    OBVIOUS
  <2> HIDE DEF count, fired
  <2>4. /\ timer' \in Timers /\ timer'.charged = count /\ timer'.compare = timer.compare
        /\ timer'.live = timer.live /\ timer'.since = timer.since /\ timer'.fired = fired
    BY <1>1, <2>1, <2>2, Zenon DEF Timers
  <2>5. Clock'
    BY <1>1, <1>2, <1>3, <2>2, <2>3, <2>4 DEF Clock
  <2>6. n = 0 => timer'.fired = timer.fired
    BY <1>1, <1>3, <2>2, <2>3, <2>4 DEF Clock
  <2> QED
    BY <1>1, <1>3, <2>3, <2>4, <2>5, <2>6
<1>4. CASE timer.live /\ timer.since + n < Poll
  <2>1. timer' = [timer EXCEPT !.charged = timer.charged + n, !.since = timer.since + n]
    BY <1>1, <1>4 DEF AdvanceTime, Timers
  <2>2. /\ timer' \in Timers /\ timer'.charged = timer.charged + n /\ timer'.compare = timer.compare
        /\ timer'.live = timer.live /\ timer'.since = timer.since + n /\ timer'.fired = timer.fired
    <3>1. timer.charged + n \in Nat /\ timer.since + n \in Nat
      BY <1>1
    <3> QED
      BY <1>1, <2>1, <3>1, Zenon DEF Timers
  <2> QED
    BY <1>1, <1>2, <1>4, <2>2 DEF Clock
<1>5. CASE timer.live /\ ~(timer.since + n < Poll)
  <2>1. PICK passed \in {timer.fired, TRUE} :
          timer' = [timer EXCEPT !.charged = timer.charged + n, !.since = 0, !.fired = passed]
    BY <1>1, <1>5 DEF AdvanceTime, Timers
  <2>2. passed \in BOOLEAN
    BY <1>1
  <2>3. /\ timer' \in Timers /\ timer'.charged = timer.charged + n /\ timer'.compare = timer.compare
        /\ timer'.live = timer.live /\ timer'.since = 0
    <3>1. timer.charged + n \in Nat /\ 0 \in Nat
      BY <1>1
    <3> QED
      BY <1>1, <2>1, <2>2, <3>1, Zenon DEF Timers
  <2>4. n # 0
    BY <1>1, <1>2, <1>5 DEF Clock
  <2> QED
    BY <1>1, <1>2, <1>5, <2>3, <2>4 DEF Clock
<1> QED
  BY <1>1, <1>3, <1>4, <1>5

\* What a checkpoint tells the host, and what the host may answer.
LEMMA CheckpointEffect ==
    ASSUME SliceTypes, Checkpoint
    PROVE  /\ host' \in Hosts /\ host'.total = host.total + ck.steps + guest.faults /\ host'.masked = guest.masked
           /\ guest' \in Guests /\ guest'.at \in 1..Len(Code[guest'.block]) /\ guest'.faults = 0
           /\ guest'.masked = guest.masked /\ guest'.retired = guest.retired /\ guest'.block = guest.block
           /\ ck' \in Checkpoints /\ ck'.steps = 0
           /\ guest.faults # 0 => ck'.limit = 0
<1>1. /\ guest \in Guests /\ guest.faults \in {0, 1} /\ guest.masked \in BOOLEAN
      /\ guest.at \in 1..Len(Code[guest.block]) /\ ck.steps \in Nat /\ host.total \in Nat
  BY DEF SliceTypes, Guests, Checkpoints, Hosts
<1>2. host' = [total |-> host.total + ck.steps + guest.faults, masked |-> guest.masked]
  BY DEF Checkpoint
<1>3. guest' = [guest EXCEPT !.faults = 0]
  BY DEF Checkpoint
<1>4. PICK answer \in (IF host'.total < MaxSteps /\ guest.faults = 0 THEN {0} \cup Limits ELSE {0}) :
        ck' = [steps |-> 0, blocks |-> 0, limit |-> answer]
  BY DEF Checkpoint
<1>5. answer \in Nat /\ (guest.faults # 0 => answer = 0)
  BY <1>4, Constants
<1>6. host' \in Hosts /\ host'.total = host.total + ck.steps + guest.faults /\ host'.masked = guest.masked
  BY <1>1, <1>2 DEF Hosts
<1>7. /\ guest' \in Guests /\ guest'.faults = 0 /\ guest'.at = guest.at
      /\ guest'.masked = guest.masked /\ guest'.retired = guest.retired /\ guest'.block = guest.block
  BY <1>1, <1>3 DEF Guests
<1>8. ck' \in Checkpoints /\ ck'.steps = 0 /\ ck'.limit = answer
  BY <1>4, <1>5 DEF Checkpoints
<1> QED
  BY <1>1, <1>5, <1>6, <1>7, <1>8

\* The fields of a well-typed state, one by one.
LEMMA Fields ==
    ASSUME SliceTypes
    PROVE  /\ chain.steps \in Nat /\ chain.blocks \in Int /\ chain.status \in Statuses
           /\ ck.steps \in Nat /\ ck.blocks \in Int /\ ck.limit \in Nat
           /\ guest.block \in Blocks /\ guest.retired \in Nat /\ guest.faults \in {0, 1}
           /\ guest.masked \in BOOLEAN /\ guest.halted \in BOOLEAN
           /\ timer.charged \in Nat /\ timer.compare \in Nat /\ timer.since \in Nat
           /\ timer.live \in BOOLEAN /\ timer.fired \in BOOLEAN
           /\ host.total \in Nat /\ host.masked \in BOOLEAN
           /\ run.steps \in Nat /\ run.charged \in Nat /\ run.enteredAt \in Nat
           /\ run.limit \in Int /\ run.allowed \in Int /\ run.visits \in Int /\ run.maxVisits \in Int
           /\ run.status \in Statuses /\ run.block \in Blocks
  BY DEF SliceTypes, Chains, Checkpoints, Guests, Timers, Hosts, Runs

-----------------------------------------------------------------------------
(* What the steps of a run share.                                          *)

\* An instruction that retires in a run.
LEMMA RetiredAccounts ==
    ASSUME SliceTypes, SliceTypes', Accounts, Clock, Within,
           phase \in Running, phase' \in Running, UNCHANGED <<chain, ck, timer, host>>,
           guest'.retired = guest.retired + 1, run.steps < run.limit,
           run'.steps = run.steps + 1, run'.charged = run.charged, run'.limit = run.limit
    PROVE  Accounts' /\ Clock' /\ Within' /\ MaskKnown'
<1>1. phase' \notin Looping /\ phase' \notin Ending /\ phase' # "done" /\ phase \notin Ending
  BY DEF Running, Looping, Ending
<1>2. phase' \notin {"select", "chosen"}
  BY DEF Running
<1> USE Fields
<1>3. Accounts'
  BY <1>1 DEF Accounts
<1>4. Clock'
  BY DEF Clock
<1>5. Within'
  BY <1>1, <1>2, Constants DEF Within
<1>6. MaskKnown'
  BY <1>1 DEF MaskKnown
<1> QED
  BY <1>3, <1>4, <1>5, <1>6

\* A step of a run at which no instruction retires and nothing is charged.
LEMMA KeptAccounts ==
    ASSUME SliceTypes, SliceTypes', Accounts, Clock, Within, MaskKnown,
           phase \in Running, phase' \in Running, UNCHANGED <<chain, ck, timer, host>>,
           guest'.retired = guest.retired, guest'.masked = guest.masked,
           run'.steps = run.steps, run'.charged = run.charged, run'.limit = run.limit
    PROVE  Accounts' /\ Clock' /\ Within' /\ MaskKnown'
<1>1. phase' \notin Looping /\ phase' \notin Ending /\ phase' # "done" /\ phase \notin Ending
  BY DEF Running, Looping, Ending
<1>2. phase' \notin {"select", "chosen"}
  BY DEF Running
<1> USE Fields
<1>3. Accounts'
  BY <1>1 DEF Accounts
<1>4. Clock'
  BY DEF Clock
<1>5. Within'
  BY <1>1, <1>2, Constants DEF Within
<1>6. MaskKnown'
  BY <1>1 DEF MaskKnown
<1> QED
  BY <1>3, <1>4, <1>5, <1>6

\* A call of the service callback, which charges the timer.
LEMMA ServicedAccounts ==
    ASSUME SliceTypes, SliceTypes', Accounts, Within, MaskKnown, Clock',
           phase \in Running, phase' \in Running, UNCHANGED <<chain, ck, guest, host>>,
           timer'.charged = timer.charged + (run.steps - run.charged),
           run'.steps = run.steps, run'.charged = run.steps,
           run.steps <= run'.limit, run'.limit <= run.limit
    PROVE  Accounts' /\ Clock' /\ Within' /\ MaskKnown'
<1>1. phase' \notin Looping /\ phase' \notin Ending /\ phase' # "done" /\ phase \notin Ending
  BY DEF Running, Looping, Ending
<1>2. phase' \notin {"select", "chosen"}
  BY DEF Running
<1> USE Fields
<1>3. Accounts'
  BY <1>1 DEF Accounts
<1>4. run'.limit \in Int
  BY DEF SliceTypes, Runs
<1>5. Within'
  BY <1>1, <1>2, <1>4, Constants DEF Within
<1>6. MaskKnown'
  BY <1>1 DEF MaskKnown
<1> QED
  BY <1>3, <1>5, <1>6

\* A run that is not a graph's has nothing to say of graphs.
LEMMA NoGraph ==
    ASSUME phase' \in {"step", "boundary", "ran"}, run'.engine \in {"c", "trace", "assembly"},
           phase' = "boundary" => run'.engine # "assembly"
    PROVE  EngineFits' /\ Prompt' /\ GraphsInTime'
  BY DEF EngineFits, Prompt, GraphsInTime, Graphs

\* The end of a run by its executor's own result.
LEMMA RunToEffect ==
    ASSUME SliceTypes, NEW status \in Statuses, RunTo(status)
    PROVE  /\ run' \in Runs /\ run'.engine = run.engine /\ run'.block = run.block
           /\ run'.steps = run.steps /\ run'.charged = run.charged /\ run'.limit = run.limit
           /\ run'.status = status /\ run'.stop = "executor"
<1>1. run \in Runs /\ "executor" \in {"none", "executor", "callback", "proof", "steps", "visits", "outside", "limit"}
  BY DEF SliceTypes
<1> QED
  BY <1>1, Zenon DEF RunTo, Runs

\* The same after an instruction that retires.
LEMMA RetiredEffect ==
    ASSUME SliceTypes, NEW status \in Statuses, Retired(status)
    PROVE  /\ run' \in Runs /\ run'.engine = run.engine /\ run'.block = run.block
           /\ run'.steps = run.steps + 1 /\ run'.charged = run.charged /\ run'.limit = run.limit
           /\ run'.status = status /\ run'.stop = "executor"
<1>1. run \in Runs /\ "executor" \in {"none", "executor", "callback", "proof", "steps", "visits", "outside", "limit"}
  BY DEF SliceTypes
<1>2. run.steps + 1 \in Nat
  BY Fields
<1> QED
  BY <1>1, <1>2, Zenon DEF Retired, Runs

\* One more instruction of a run that goes on.
LEMMA CountEffect ==
    ASSUME SliceTypes, run' = [run EXCEPT !.steps = @ + 1]
    PROVE  /\ run' \in Runs /\ run'.engine = run.engine /\ run'.block = run.block
           /\ run'.steps = run.steps + 1 /\ run'.charged = run.charged /\ run'.limit = run.limit
           /\ run'.allowed = run.allowed /\ run'.status = run.status /\ run'.stop = run.stop
<1>1. run \in Runs
  BY DEF SliceTypes
<1>2. run.steps + 1 \in Nat
  BY Fields
<1> QED
  BY <1>1, <1>2, Zenon DEF Runs

\* A guest without a fault on its way has none after an instruction retires.
LEMMA NoFaults ==
    ASSUME SliceTypes, FaultsEnd, phase \in {"step", "boundary", "member", "gate", "helper", "chosen", "head", "select"}
    PROVE  guest.faults = 0
  BY Fields DEF FaultsEnd

-----------------------------------------------------------------------------
(* The interpreter and the single assembly program.                        *)

\* A retired instruction of the interpreter that is followed by another one
\* or by a boundary.
LEMMA InterpreterGoesOn ==
    ASSUME SliceInvariant, phase = "step", run.engine \in {"c", "trace"}, run.steps < run.limit,
           NEW masked \in BOOLEAN, Retire(masked, FALSE), run' = [run EXCEPT !.steps = @ + 1],
           phase' = IF AtEnd THEN "boundary" ELSE "step", ~AtEnd => masked = guest.masked,
           UNCHANGED <<chain, ck, timer, host>>
    PROVE  SliceInvariant'
<1> USE DEF SliceInvariant
<1>1. /\ guest' \in Guests /\ guest'.at \in 1..Len(Code[guest'.block])
      /\ guest'.masked = masked /\ guest'.retired = guest.retired + 1 /\ guest'.faults = guest.faults
      /\ ~AtEnd => guest'.block = guest.block
      /\ AtEnd => guest'.block \in Succ[guest.block]
  <2>1. FALSE \in BOOLEAN
    OBVIOUS
  <2> QED
    BY <2>1, RetireEffect
<1>2. /\ run' \in Runs /\ run'.engine = run.engine /\ run'.block = run.block
      /\ run'.steps = run.steps + 1 /\ run'.charged = run.charged /\ run'.limit = run.limit
  BY CountEffect
<1>3. phase' \in {"step", "boundary"} /\ phase \in Running /\ phase' \in Running
  BY DEF Running
<1>4. SliceTypes'
  BY <1>1, <1>2, <1>3 DEF SliceTypes
<1>5. Accounts' /\ Clock' /\ Within' /\ MaskKnown'
  BY <1>1, <1>2, <1>3, <1>4, RetiredAccounts
<1>6. FaultsEnd'
  BY <1>1, NoFaults DEF FaultsEnd
<1>7. EngineFits' /\ Prompt' /\ GraphsInTime'
  <2>1. run'.engine \in {"c", "trace"} /\ run'.engine # "assembly"
    BY <1>2
  <2> QED
    BY <1>3, <2>1, NoGraph
<1>8. SystemBlock'
  <2>1. run.engine = "c" =>
          /\ guest.block = run.block
          /\ HostCheckpoint(run.block) => ck.steps = 0 /\ host.masked = guest.masked
    BY DEF SystemBlock
  <2>2. HostCheckpoint(guest.block) => guest.block \notin Succ[guest.block]
    BY CodeEnds, Fields
  <2>3. run'.engine = "c" /\ phase' = "boundary" => (HostCheckpoint(run.block) => guest'.block # run.block)
    BY <1>1, <1>2, <2>1, <2>2
  <2>4. run'.engine = "c" /\ phase' = "step" =>
          /\ guest'.block = run.block
          /\ HostCheckpoint(run.block) => ck.steps = 0 /\ host.masked = guest'.masked
    BY <1>1, <1>2, <2>1
  <2>5. HostCheckpoint(run.block)' <=> HostCheckpoint(run.block)
    BY <1>2 DEF HostCheckpoint, Ends
  <2> QED
    BY <1>2, <1>3, <2>3, <2>4, <2>5 DEF SystemBlock
<1> QED
  BY <1>4, <1>5, <1>6, <1>7, <1>8

\* The end of the run of a block or trace, with an instruction that retires.
LEMMA RunRetires ==
    ASSUME SliceInvariant, phase = "step", run.steps < run.limit, NEW halted \in BOOLEAN, Retire(guest.masked, halted),
           NEW status \in Statuses, Retired(status), phase' = "ran", UNCHANGED <<chain, ck, timer, host>>
    PROVE  SliceInvariant'
<1> USE DEF SliceInvariant
<1>1. /\ guest' \in Guests /\ guest'.at \in 1..Len(Code[guest'.block])
      /\ guest'.retired = guest.retired + 1 /\ guest'.faults = guest.faults
  BY RetireEffect, Fields
<1>2. /\ run' \in Runs /\ run'.engine = run.engine
      /\ run'.steps = run.steps + 1 /\ run'.charged = run.charged /\ run'.limit = run.limit
  BY RetiredEffect
<1>3. phase \in Running /\ phase' \in Running
  BY DEF Running
<1>4. SliceTypes'
  BY <1>1, <1>2, <1>3 DEF SliceTypes
<1>5. Accounts' /\ Clock' /\ Within' /\ MaskKnown'
  BY <1>1, <1>2, <1>3, <1>4, RetiredAccounts
<1>6. FaultsEnd'
  BY <1>1, NoFaults DEF FaultsEnd
<1>7. EngineFits' /\ Prompt' /\ GraphsInTime'
  <2>1. run'.engine \in {"c", "trace", "assembly"}
    BY <1>2 DEF EngineFits
  <2> QED
    BY <2>1, NoGraph
<1>8. SystemBlock'
  BY DEF SystemBlock
<1> QED
  BY <1>4, <1>5, <1>6, <1>7, <1>8

\* The same without: a fault, or the end of the budget.
LEMMA RunBreaksOff ==
    ASSUME SliceInvariant, phase \in {"step", "boundary"}, NEW status \in Statuses, RunTo(status),
           \/ guest' = Faulted /\ status \in {"unsupported", "memory_fault"}
           \/ UNCHANGED guest,
           phase' = "ran", UNCHANGED <<chain, ck, timer, host>>
    PROVE  SliceInvariant'
<1> USE DEF SliceInvariant
<1>1. /\ guest' \in Guests /\ guest'.at \in 1..Len(Code[guest'.block])
      /\ guest'.retired = guest.retired /\ guest'.masked = guest.masked
      /\ guest'.faults = 1 => status \in {"unsupported", "memory_fault"}
  <2>1. CASE guest' = Faulted /\ status \in {"unsupported", "memory_fault"}
    BY <2>1, FaultEffect
  <2>2. CASE UNCHANGED guest
    BY <2>2, NoFaults DEF SliceTypes
  <2> QED
    BY <2>1, <2>2
<1>2. /\ run' \in Runs /\ run'.engine = run.engine /\ run'.status = status
      /\ run'.steps = run.steps /\ run'.charged = run.charged /\ run'.limit = run.limit
  BY RunToEffect
<1>3. phase \in Running /\ phase' \in Running
  BY DEF Running
<1>4. SliceTypes'
  BY <1>1, <1>2, <1>3 DEF SliceTypes
<1>5. Accounts' /\ Clock' /\ Within' /\ MaskKnown'
  BY <1>1, <1>2, <1>3, <1>4, KeptAccounts
<1>6. FaultsEnd'
  BY <1>1, <1>2 DEF FaultsEnd
<1>7. EngineFits' /\ Prompt' /\ GraphsInTime'
  <2>1. run'.engine \in {"c", "trace", "assembly"}
    BY <1>2 DEF EngineFits
  <2> QED
    BY <2>1, NoGraph
<1>8. SystemBlock'
  BY DEF SystemBlock
<1> QED
  BY <1>4, <1>5, <1>6, <1>7, <1>8

\* The interpreter's steps.
LEMMA InterpreterStep == SliceInvariant /\ StepC => SliceInvariant'
<1> SUFFICES ASSUME SliceInvariant, StepC PROVE SliceInvariant'
  OBVIOUS
<1>1. phase = "step" /\ run.engine \in {"c", "trace"} /\ UNCHANGED <<chain, ck, timer, host>>
  BY DEF StepC
<1>2. guest.masked \in BOOLEAN /\ guest.block \in Blocks /\ guest.at \in 1..Len(Code[guest.block])
  BY Fields DEF SliceInvariant, SliceTypes
<1>3. Kind \in Terminators => AtEnd
  BY <1>2, CodeEnds DEF Kind, AtEnd
<1>4. {"halted", "unsupported", "max_steps"} \subseteq Statuses
  BY DEF Statuses
<1>5. CASE /\ run.steps < run.limit /\ Kind \in {"alu", "slow", "code"}
           /\ Retire(guest.masked, FALSE)
           /\ run' = [run EXCEPT !.steps = @ + 1]
           /\ phase' = IF AtEnd THEN "boundary" ELSE "step"
  BY <1>1, <1>2, <1>5, InterpreterGoesOn
<1>6. CASE /\ run.steps < run.limit /\ Kind \in {"svc", "sys"}
           /\ \E masked \in BOOLEAN : Retire(masked, FALSE)
           /\ run' = [run EXCEPT !.steps = @ + 1]
           /\ phase' = "boundary"
  <2>1. AtEnd
    BY <1>3, <1>6 DEF Terminators
  <2> QED
    BY <1>1, <1>6, <2>1, InterpreterGoesOn
<1>7. CASE /\ run.steps < run.limit /\ Retire(guest.masked, TRUE) /\ Retired("halted") /\ phase' = "ran"
  <2>1. TRUE \in BOOLEAN /\ "halted" \in Statuses
    BY <1>4
  <2> QED
    BY <1>1, <1>7, <2>1, RunRetires
<1>8. CASE guest' = Faulted /\ RunTo("unsupported") /\ phase' = "ran"
  BY <1>1, <1>4, <1>8, RunBreaksOff
<1>9. CASE RunTo("max_steps") /\ phase' = "ran" /\ UNCHANGED guest
  BY <1>1, <1>4, <1>9, RunBreaksOff
<1> QED
  <2>1. TRUE \in BOOLEAN
    OBVIOUS
  <2> QED
    BY <1>5, <1>6, <1>7, <1>8, <1>9, <2>1 DEF StepC

\* After the last instruction of a block.
LEMMA InterpreterBoundary == SliceInvariant /\ BoundaryC => SliceInvariant'
<1> SUFFICES ASSUME SliceInvariant, BoundaryC PROVE SliceInvariant'
  OBVIOUS
<1>1. phase = "boundary" /\ UNCHANGED <<chain, ck, guest, timer, host>>
  BY DEF BoundaryC
<1>2. run.engine \in {"c", "trace"}
  BY <1>1 DEF SliceInvariant, EngineFits
<1>3. CASE RunTo("outside") /\ phase' = "ran"
  <2>1. "outside" \in Statuses
    BY DEF Statuses
  <2> QED
    BY <1>1, <1>3, <2>1, RunBreaksOff
<1>4. CASE /\ phase' = "step"
           /\ \/ UNCHANGED run /\ (run.steps >= run.limit \/ (run.engine = "c" /\ guest.block = run.block))
              \/ run' = [run EXCEPT !.visits = @ + 1] /\ run.engine = "trace"
  <2> USE DEF SliceInvariant
  <2>1. /\ run' \in Runs /\ run'.engine = run.engine /\ run'.block = run.block
        /\ run'.steps = run.steps /\ run'.charged = run.charged /\ run'.limit = run.limit
    <3>1. run \in Runs /\ run.visits + 1 \in Int
      BY Fields DEF SliceTypes
    <3>2. CASE UNCHANGED run
      BY <3>1, <3>2
    <3>3. CASE run' = [run EXCEPT !.visits = @ + 1]
      BY <3>1, <3>3, Zenon DEF Runs
    <3> QED
      BY <1>4, <3>2, <3>3
  <2>2. phase \in Running /\ phase' \in Running
    BY <1>1, <1>4 DEF Running
  <2>3. SliceTypes'
    BY <1>1, <2>1, <2>2 DEF SliceTypes
  <2>4. Accounts' /\ Clock' /\ Within' /\ MaskKnown'
    BY <1>1, <2>1, <2>2, <2>3, KeptAccounts
  <2>5. FaultsEnd'
    BY <1>1, NoFaults DEF FaultsEnd
  <2>6. EngineFits' /\ Prompt' /\ GraphsInTime'
    BY <1>2, <1>4, <2>1, NoGraph
  <2>7. SystemBlock'
    <3>1. phase = "boundary" /\ phase' = "step" /\ UNCHANGED <<ck, guest, host>>
      BY <1>1, <1>4
    <3>2. ASSUME run.engine = "c", run.steps < run.limit PROVE guest.block = run.block
      <4>1. run.steps \in Nat /\ run.limit \in Int
        BY Fields
      <4>2. run.steps >= run.limit \/ guest.block = run.block \/ run.engine = "trace"
        BY <1>4
      <4> HIDE DEF SliceInvariant
      <4> QED
        BY <3>2, <4>1, <4>2
    <3>3. ASSUME run.engine = "c", HostCheckpoint(run.block) PROVE guest.block # run.block
      BY <3>1, <3>3 DEF SystemBlock
    <3> QED
      BY <2>1, <3>1, <3>2, <3>3 DEF SystemBlock
  <2> QED
    BY <2>3, <2>4, <2>5, <2>6, <2>7
<1> QED
  BY <1>3, <1>4 DEF BoundaryC

\* The steps of a single assembly program.
LEMMA AssemblyStep == SliceInvariant /\ StepAssembly => SliceInvariant'
<1> SUFFICES ASSUME SliceInvariant, StepAssembly PROVE SliceInvariant'
  OBVIOUS
<1>1. phase = "step" /\ run.engine = "assembly" /\ UNCHANGED <<chain, ck, timer, host>>
  BY DEF StepAssembly
<1>2. guest.masked \in BOOLEAN /\ FALSE \in BOOLEAN
  BY Fields DEF SliceInvariant
<1>3. {"outside", "revalidate", "memory_fault", "max_steps"} \subseteq Statuses
  BY DEF Statuses
<1>4. CASE /\ run.steps < run.limit /\ Retire(guest.masked, FALSE) /\ phase' = "ran"
           /\ \E status \in {"outside", "revalidate"} : Retired(status)
  BY <1>1, <1>2, <1>3, <1>4, RunRetires
<1>5. CASE /\ run.steps < run.limit /\ Retire(guest.masked, FALSE) /\ phase' = "step"
           /\ run' = [run EXCEPT !.steps = @ + 1]
  <2> USE DEF SliceInvariant
  <2>1. /\ guest' \in Guests /\ guest'.at \in 1..Len(Code[guest'.block])
        /\ guest'.retired = guest.retired + 1 /\ guest'.faults = guest.faults
    BY <1>2, <1>5, RetireEffect
  <2>2. /\ run' \in Runs /\ run'.engine = run.engine
        /\ run'.steps = run.steps + 1 /\ run'.charged = run.charged /\ run'.limit = run.limit
    BY <1>5, CountEffect
  <2>3. phase \in Running /\ phase' \in Running
    BY <1>1, <1>5 DEF Running
  <2>4. SliceTypes'
    BY <1>1, <2>1, <2>2, <2>3 DEF SliceTypes
  <2>5. Accounts' /\ Clock' /\ Within' /\ MaskKnown'
    BY <1>1, <1>5, <2>1, <2>2, <2>3, <2>4, RetiredAccounts
  <2>6. FaultsEnd'
    BY <1>1, <2>1, NoFaults DEF FaultsEnd
  <2>7. EngineFits' /\ Prompt' /\ GraphsInTime'
    BY <1>1, <1>5, <2>2, NoGraph
  <2>8. SystemBlock'
    BY <1>1, <1>5, <2>2 DEF SystemBlock
  <2> QED
    BY <2>4, <2>5, <2>6, <2>7, <2>8
<1>6. CASE guest' = Faulted /\ RunTo("memory_fault") /\ phase' = "ran"
  BY <1>1, <1>3, <1>6, RunBreaksOff
<1>7. CASE RunTo("max_steps") /\ phase' = "ran" /\ UNCHANGED guest
  BY <1>1, <1>3, <1>7, RunBreaksOff
<1> QED
  BY <1>4, <1>5, <1>6, <1>7 DEF StepAssembly

-----------------------------------------------------------------------------
(* The loop around the runs.                                               *)

\* A slice begins with nothing accounted.
LEMMA SliceBegins == SliceInit => SliceInvariant
<1> SUFFICES ASSUME SliceInit PROVE SliceInvariant
  OBVIOUS
<1>1. PICK l \in Limits : ck = [steps |-> 0, blocks |-> 0, limit |-> l]
  BY DEF SliceInit
<1>2. PICK d \in Deadlines, live \in BOOLEAN :
        timer = [charged |-> 0, compare |-> d, live |-> live, since |-> 0, fired |-> ~live /\ d = 0]
  BY DEF SliceInit
<1>3. /\ phase = "head" /\ chain = [steps |-> 0, blocks |-> 0, status |-> "outside"]
      /\ guest = [block |-> First, at |-> 1, masked |-> FALSE, halted |-> FALSE, retired |-> 0, faults |-> 0]
      /\ host = [total |-> 0, masked |-> FALSE] /\ run = Idle
  BY DEF SliceInit
<1>4. l \in Nat /\ d \in Nat /\ First \in Blocks /\ Poll > 0 /\ Poll \in Nat /\ MaxSteps \in Nat
  BY Constants
<1>5. 1 \in 1..Len(Code[First])
  BY <1>4, CodeEnds
<1>6. timer \in Timers /\ Clock
  <2>1. (~live /\ d = 0) \in BOOLEAN
    OBVIOUS
  <2>2. timer \in Timers
    BY <1>2, <1>4, <2>1 DEF Timers
  <2>3. timer.since = 0 /\ timer.charged = 0 /\ timer.compare = d /\ timer.live = live
    BY <1>2
  <2>4. timer.fired <=> ~live /\ d = 0
    BY <1>2
  <2> QED
    BY <1>4, <2>2, <2>3, <2>4 DEF Clock
<1>7. run \in Runs
  BY <1>3, <1>4 DEF Runs, Idle, Statuses
<1>8. chain \in Chains /\ ck \in Checkpoints /\ guest \in Guests /\ host \in Hosts
  BY <1>1, <1>3, <1>4 DEF Chains, Checkpoints, Guests, Hosts, Statuses
<1>9. SliceTypes
  BY <1>3, <1>5, <1>6, <1>7, <1>8 DEF SliceTypes, Looping
<1>10. /\ chain.steps = 0 /\ ck.steps = 0 /\ guest.retired = 0 /\ guest.faults = 0 /\ host.total = 0
       /\ host.masked = guest.masked /\ ck.limit = l /\ timer.charged = 0
  BY <1>1, <1>2, <1>3
<1>11. Accounts /\ FaultsEnd /\ MaskKnown
  BY <1>3, <1>10 DEF Accounts, FaultsEnd, MaskKnown, Running, Ending
<1>12. Within
  BY <1>3, <1>4, <1>10 DEF Within, Running
<1>13. SystemBlock /\ EngineFits /\ Prompt /\ GraphsInTime
  BY <1>3, <1>10 DEF SystemBlock, EngineFits, Prompt, GraphsInTime
<1> QED
  BY <1>6, <1>9, <1>11, <1>12, <1>13 DEF SliceInvariant

\* The steps before a dispatch, at which nothing is accounted.
LEMMA BeforeDispatch ==
    ASSUME SliceInvariant, phase \in {"head", "select", "chosen"}, phase' \in {"head", "select", "chosen", "finish"},
           chain' \in Chains, chain'.steps = chain.steps, run' \in Runs, UNCHANGED timer,
           \/ UNCHANGED <<ck, guest, host>> /\ (phase' # "finish" => run' = run \/ phase' = "chosen")
           \/ Checkpoint /\ phase' \in {"head", "finish"},
           phase' \in {"select", "chosen"} => chain.steps < MaxSteps,
           phase' = "chosen" => run'.engine # "none" /\ run'.block = guest.block /\ run'.steps = 0 /\ run'.charged = 0
                                 /\ UNCHANGED guest
    PROVE  SliceInvariant'
<1> USE Fields DEF SliceInvariant
<1>1. guest.faults = 0
  BY NoFaults
<1>2. phase \notin Running /\ phase \notin Ending /\ phase \in Looping /\ phase \notin {"done", "report"}
  BY DEF Running, Ending, Looping
<1>3. /\ chain.steps = guest.retired /\ timer.charged = guest.retired /\ host.total + ck.steps = chain.steps
  BY <1>2 DEF Accounts
<1>4. /\ host' \in Hosts /\ guest' \in Guests /\ ck' \in Checkpoints
      /\ guest'.at \in 1..Len(Code[guest'.block]) /\ guest'.faults = 0
      /\ guest'.retired = guest.retired /\ guest'.masked = guest.masked
      /\ host'.total + ck'.steps = guest.retired
      /\ ck'.steps = 0 => host'.masked = guest.masked
  <2>1. CASE UNCHANGED <<ck, guest, host>>
    BY <1>1, <1>2, <1>3, <2>1 DEF SliceTypes, MaskKnown
  <2>2. CASE Checkpoint
    BY <1>1, <1>3, <2>2, CheckpointEffect
  <2> QED
    BY <2>1, <2>2
<1>5. phase' \notin Running /\ phase' \notin {"done", "report"}
  BY DEF Running
<1>6. SliceTypes'
  BY <1>4 DEF SliceTypes, Looping, Ending
<1>7. Accounts' /\ FaultsEnd' /\ Clock' /\ MaskKnown'
  <2>1. Accounts'
    BY <1>3, <1>4, <1>5 DEF Accounts, Ending
  <2>2. FaultsEnd' /\ Clock' /\ MaskKnown'
    BY <1>4, <1>5 DEF FaultsEnd, Clock, MaskKnown
  <2> QED
    BY <2>1, <2>2
<1>8. Within'
  <2>1. chain'.steps <= MaxSteps
    BY DEF Within
  <2>2. phase' \in Looping => guest'.retired <= host'.total + ck'.limit
    <3>1. CASE UNCHANGED <<ck, guest, host>>
      BY <1>2, <3>1 DEF Within
    <3>2. CASE Checkpoint
      <4>1. ck'.steps = 0 /\ ck'.limit \in Nat
        BY <3>2, CheckpointEffect DEF Checkpoints
      <4>2. host'.total \in Nat
        BY <1>4 DEF Hosts
      <4> QED
        BY <1>4, <4>1, <4>2
    <3> QED
      BY <3>1, <3>2
  <2> QED
    BY <1>5, <2>1, <2>2 DEF Within
<1>9. SystemBlock' /\ GraphsInTime'
  BY DEF SystemBlock, GraphsInTime
<1>10. EngineFits'
  BY DEF EngineFits
<1>11. Prompt'
  BY <1>2, <1>4 DEF Prompt, Quiet
<1> QED
  BY <1>6, <1>7, <1>8, <1>9, <1>10, <1>11

\* The loop's condition.
LEMMA HeadStep == SliceInvariant /\ LoopHead => SliceInvariant'
<1> SUFFICES ASSUME SliceInvariant, LoopHead PROVE SliceInvariant'
  OBVIOUS
<1>1. phase = "head" /\ UNCHANGED <<ck, guest, timer, host, run>>
  BY DEF LoopHead
<1>2. chain \in Chains /\ run \in Runs /\ "halted" \in Statuses
  BY DEF SliceInvariant, SliceTypes, Statuses
<1>3. CASE chain.steps < MaxSteps /\ phase' = "select" /\ UNCHANGED chain
  BY <1>1, <1>2, <1>3, BeforeDispatch
<1>4. CASE phase' = "finish" /\ (UNCHANGED chain \/ chain' = [chain EXCEPT !.status = "halted"])
  <2>1. chain' \in Chains /\ chain'.steps = chain.steps
    BY <1>2, <1>4, Zenon DEF Chains
  <2> QED
    BY <1>1, <1>2, <1>4, <2>1, BeforeDispatch
<1> QED
  BY <1>3, <1>4 DEF LoopHead

\* The selection.
LEMMA SelectStep == SliceInvariant /\ Select => SliceInvariant'
<1> SUFFICES ASSUME SliceInvariant, Select PROVE SliceInvariant'
  OBVIOUS
<1>1. phase = "select" /\ UNCHANGED <<ck, guest, timer, host>>
  BY DEF Select
<1>2. chain \in Chains /\ run \in Runs /\ guest.block \in Blocks /\ First \in Blocks
  BY Fields, Constants DEF SliceInvariant, SliceTypes
<1>3. chain.steps < MaxSteps
  BY <1>1 DEF SliceInvariant, Within
<1>4. CASE phase' = "finish" /\ UNCHANGED run /\ \E status \in {"unsupported", "outside"} : chain' = [chain EXCEPT !.status = status]
  <2>1. PICK status \in Statuses : chain' = [chain EXCEPT !.status = status]
    BY <1>4 DEF Statuses
  <2>2. chain' \in Chains /\ chain'.steps = chain.steps
    BY <1>2, <2>1, Zenon DEF Chains
  <2> QED
    BY <1>1, <1>2, <1>4, <2>2, BeforeDispatch
<1>5. CASE /\ phase' = "chosen" /\ UNCHANGED chain
           /\ \E e \in Engines(guest.block) : run' = [Idle EXCEPT !.engine = e, !.block = guest.block]
  <2>1. PICK e \in {"c", "assembly", "trace", "graph", "bounded"} :
          run' = [Idle EXCEPT !.engine = e, !.block = guest.block]
    BY <1>5 DEF Engines
  <2>2. Idle \in Runs /\ Idle.steps = 0 /\ Idle.charged = 0
    BY <1>2 DEF Idle, Runs, Statuses
  <2>3. e \in {"none", "c", "assembly", "trace"} \cup Graphs /\ e # "none"
    BY DEF Graphs
  <2>4. /\ run' \in Runs /\ run'.engine = e /\ run'.block = guest.block
        /\ run'.steps = Idle.steps /\ run'.charged = Idle.charged
    BY <1>2, <2>1, <2>2, <2>3, Zenon DEF Runs
  <2> QED
    BY <1>1, <1>2, <1>3, <1>5, <2>2, <2>3, <2>4, BeforeDispatch
<1> QED
  BY <1>4, <1>5 DEF Select

\* A checkpoint before what was selected may run.
LEMMA CheckpointStep == SliceInvariant /\ CheckpointBefore => SliceInvariant'
<1> SUFFICES ASSUME SliceInvariant, CheckpointBefore PROVE SliceInvariant'
  OBVIOUS
<1>1. phase = "chosen" /\ phase' \in {"head", "finish"} /\ Checkpoint /\ UNCHANGED <<chain, timer, run>>
  BY DEF CheckpointBefore
<1>2. chain \in Chains /\ run \in Runs
  BY DEF SliceInvariant, SliceTypes
<1> QED
  BY <1>1, <1>2, BeforeDispatch

\* A run is given what is left of the budgets.
LEMMA DispatchStep == SliceInvariant /\ Dispatch => SliceInvariant'
<1> SUFFICES ASSUME SliceInvariant, Dispatch PROVE SliceInvariant'
  OBVIOUS
<1> USE Fields DEF SliceInvariant
<1>1. phase = "chosen" /\ ~Early /\ UNCHANGED <<chain, ck, guest, timer, host>>
  BY DEF Dispatch
<1>2. phase' = IF run.engine \in {"graph", "bounded"} THEN "service" ELSE "step"
  BY DEF Dispatch
<1>3. PICK visits \in Int, maxVisits \in Int :
        run' = [run EXCEPT !.limit = StepsLeft, !.visits = visits, !.maxVisits = maxVisits]
  <2>1. BlocksLeft \in Int
    BY Constants DEF BlocksLeft, Least
  <2>2. Least(BlocksLeft, MaxTrace) \in Int
    BY <2>1, Constants DEF Least
  <2> DEFINE v == IF run.engine \in {"c", "assembly", "trace"} THEN 1 ELSE 0
             m == IF run.engine = "trace" THEN Least(BlocksLeft, MaxTrace) ELSE BlocksLeft
  <2>3. v \in Int /\ m \in Int
    BY <2>1, <2>2
  <2>4. run' = [run EXCEPT !.limit = StepsLeft, !.visits = v, !.maxVisits = m]
    BY Zenon DEF Dispatch
  <2> QED
    BY <2>3, <2>4
<1>4. ck.limit > ck.steps /\ (run.engine # "trace" /\ HostCheckpoint(guest.block) => ck.steps = 0)
  BY <1>1 DEF Early
<1>5. chain.steps < MaxSteps /\ chain.steps <= MaxSteps
  BY <1>1 DEF Within
<1>6. run.engine # "none" /\ run.block = guest.block /\ run.steps = 0 /\ run.charged = 0
  BY <1>1 DEF EngineFits
<1>7. /\ StepsLeft \in Int /\ 0 < StepsLeft /\ StepsLeft <= MaxSteps - chain.steps
      /\ StepsLeft <= ck.limit - ck.steps
  BY <1>4, <1>5, Constants DEF StepsLeft, Least
<1>8. /\ run' \in Runs /\ run'.engine = run.engine /\ run'.block = run.block
      /\ run'.steps = run.steps /\ run'.charged = run.charged /\ run'.limit = StepsLeft
  <2>1. run \in Runs
    BY DEF SliceTypes
  <2> QED
    BY <1>3, <1>7, <2>1, Zenon DEF Runs
<1>9. phase' \in {"service", "step"} /\ phase' \in Running /\ phase' \notin Looping /\ phase' \notin Ending
  BY <1>2 DEF Running, Looping, Ending
<1>10. phase \notin Running /\ phase \notin Ending /\ phase \in Looping
  BY <1>1 DEF Running, Ending, Looping
<1>11. SliceTypes'
  BY <1>1, <1>8, <1>9 DEF SliceTypes
<1>12. Accounts'
  BY <1>1, <1>6, <1>8, <1>9, <1>10 DEF Accounts
<1>13. FaultsEnd' /\ Clock'
  BY <1>1, NoFaults DEF FaultsEnd, Clock
<1>14. Within'
  BY <1>1, <1>5, <1>6, <1>7, <1>8, <1>9 DEF Within
<1>15. MaskKnown'
  BY <1>1, <1>6, <1>8, <1>9, <1>10 DEF MaskKnown
<1>16. SystemBlock'
  <2>1. HostCheckpoint(run.block)' <=> HostCheckpoint(run.block)
    BY <1>8 DEF HostCheckpoint, Ends
  <2>2. run.engine = "c" /\ HostCheckpoint(run.block) => ck.steps = 0 /\ host.masked = guest.masked
    BY <1>4, <1>6, <1>10 DEF MaskKnown
  <2> QED
    BY <1>1, <1>6, <1>8, <1>9, <2>1, <2>2 DEF SystemBlock
<1>17. EngineFits'
  <2>1. run.engine \in {"none", "c", "assembly", "trace", "graph", "bounded"}
    BY DEF SliceTypes, Runs, Graphs
  <2> QED
    BY <1>2, <1>6, <1>8, <2>1 DEF EngineFits, Graphs
<1>18. Prompt' /\ GraphsInTime'
  BY <1>2, <1>6, <1>7, <1>8 DEF Prompt, GraphsInTime
<1> QED
  BY <1>11, <1>12, <1>13, <1>14, <1>15, <1>16, <1>17, <1>18

\* The result of a run is added up.
LEMMA AccountStep == SliceInvariant /\ Account => SliceInvariant'
<1> SUFFICES ASSUME SliceInvariant, Account PROVE SliceInvariant'
  OBVIOUS
<1> USE Fields DEF SliceInvariant
<1>1. phase = "ran" /\ phase' = "report" /\ AdvanceTime(Uncharged) /\ UNCHANGED <<guest, host, run>>
  BY DEF Account
<1>2. ck' = [ck EXCEPT !.steps = @ + run.steps, !.blocks = @ + run.visits]
  BY DEF Account
<1> DEFINE outcome == IF run.status = "revalidate" THEN "outside" ELSE run.status
           advanced == run.engine \notin {"graph", "bounded"} \/ Uncharged # 0
           due == run.irq \/ (advanced /\ Due)
           status == IF due /\ outcome \notin {"halted", "unsupported", "memory_fault"} THEN "yielded" ELSE outcome
<1>3. chain' = [steps |-> chain.steps + run.steps, blocks |-> chain.blocks + run.visits, status |-> status]
  BY DEF Account
<1>4. phase \in Running /\ phase \notin Ending /\ phase' \in Looping /\ phase' \notin Running /\ phase' \notin Ending
  BY <1>1 DEF Running, Looping, Ending
<1>5. Uncharged \in Nat /\ Uncharged = run.steps - run.charged
  BY <1>4 DEF Uncharged, Accounts
<1>6. /\ timer' \in Timers /\ Clock' /\ timer'.charged = timer.charged + Uncharged
      /\ Uncharged = 0 => timer'.fired = timer.fired
  BY <1>1, <1>5, AdvanceEffect
<1>7. outcome \in Statuses /\ status \in Statuses
  BY DEF Statuses
<1>8. chain' \in Chains /\ chain'.steps = chain.steps + run.steps /\ chain'.status = status
  BY <1>3, <1>7 DEF Chains
<1>9. ck' \in Checkpoints /\ ck'.steps = ck.steps + run.steps /\ ck'.limit = ck.limit
  <2>0. ck.steps + run.steps \in Nat /\ ck.blocks + run.visits \in Int
    OBVIOUS
  <2>1. ck \in Checkpoints /\ ck.steps + run.steps \in Nat /\ ck.blocks + run.visits \in Int
    BY <2>0 DEF SliceTypes
  <2> QED
    BY <1>2, <2>1, Zenon DEF Checkpoints
<1>10. SliceTypes'
  BY <1>1, <1>4, <1>6, <1>8, <1>9 DEF SliceTypes
<1>11. Accounts'
  BY <1>1, <1>4, <1>5, <1>6, <1>8, <1>9 DEF Accounts
<1>12. FaultsEnd'
  <2>1. run.status \in {"unsupported", "memory_fault"} => status = run.status
    OBVIOUS
  <2> QED
    BY <1>1, <1>8, <2>1 DEF FaultsEnd
<1>13. Within'
  BY <1>1, <1>4, <1>8, <1>9, <1>11, Constants DEF Within, Accounts
<1>14. MaskKnown'
  BY <1>1, <1>4, <1>9 DEF MaskKnown
<1>15. SystemBlock' /\ EngineFits' /\ GraphsInTime'
  BY <1>1 DEF SystemBlock, EngineFits, GraphsInTime
<1>16. Prompt'
  <2>1. status \notin Stopping => ~due
    BY DEF Stopping
  <2>2. ~due => guest.masked \/ ~timer'.fired
    <3>1. CASE advanced
      BY <1>1, <3>1 DEF Due
    <3>2. CASE ~advanced
      <4>1. Uncharged = 0 /\ run.engine \in Graphs
        BY <3>2 DEF Graphs
      <4>2. run.irq \/ guest.masked \/ ~timer.fired
        BY <1>1, <4>1 DEF Prompt, Quiet
      <4> QED
        BY <1>6, <4>1, <4>2
    <3> QED
      BY <3>1, <3>2
  <2> HIDE DEF due, status
  <2>3. chain'.status \notin Stopping => guest'.masked \/ ~timer'.fired
    BY <1>1, <1>8, <2>1, <2>2
  <2> QED
    BY <1>1, <2>3 DEF Prompt, Quiet
<1> QED
  BY <1>6, <1>10, <1>11, <1>12, <1>13, <1>14, <1>15, <1>16

\* The report to the host, and the end of the loop.
LEMMA ReportStep == SliceInvariant /\ Report => SliceInvariant'
<1> SUFFICES ASSUME SliceInvariant, Report PROVE SliceInvariant'
  OBVIOUS
<1> USE Fields DEF SliceInvariant
<1>1. phase = "report" /\ UNCHANGED <<chain, timer, run>>
  BY DEF Report
<1>2. phase' = IF Breaks(ck'.limit) THEN "finish" ELSE "head"
  BY DEF Report
<1>3. phase \notin Running /\ phase \notin Ending /\ phase \in Looping
  BY <1>1 DEF Running, Ending, Looping
<1>4. chain.steps = guest.retired /\ timer.charged = guest.retired /\ host.total + ck.steps = chain.steps
  BY <1>3 DEF Accounts
<1>5. phase' \in {"finish", "head"} /\ phase' \notin Running /\ phase' \notin {"done", "report", "select", "chosen"}
  BY <1>2 DEF Running
<1>6. phase' = "head" => chain.status \notin Stopping
  BY <1>2 DEF Breaks, EndsSlice, Stopping
<1>7. guest.faults = 1 => MustCheckpoint
  BY <1>1 DEF FaultsEnd, MustCheckpoint, EndsSlice
<1>8. /\ host' \in Hosts /\ guest' \in Guests /\ ck' \in Checkpoints
      /\ guest'.at \in 1..Len(Code[guest'.block]) /\ guest'.faults = 0
      /\ guest'.retired = guest.retired /\ guest'.masked = guest.masked
      /\ host'.total + ck'.steps = guest.retired + guest.faults
      /\ ck'.steps = 0 => host'.masked = guest.masked
      /\ phase' = "head" => guest.faults = 0
      /\ phase' = "head" => guest.retired <= host'.total + ck'.limit
  <2>1. CASE MustCheckpoint /\ Checkpoint
    <3>1. /\ host' \in Hosts /\ guest' \in Guests /\ ck' \in Checkpoints
          /\ guest'.at \in 1..Len(Code[guest'.block]) /\ guest'.faults = 0
          /\ guest'.retired = guest.retired /\ guest'.masked = guest.masked
          /\ host'.total = guest.retired + guest.faults /\ ck'.steps = 0 /\ host'.masked = guest.masked
          /\ guest.faults # 0 => ck'.limit = 0
      BY <1>4, <2>1, CheckpointEffect
    <3>2. phase' = "head" => ck'.limit # 0
      BY <1>2, <2>1 DEF Breaks
    <3>3. ck'.limit \in Nat
      BY <3>1 DEF Checkpoints
    <3> QED
      BY <3>1, <3>2, <3>3
  <2>2. CASE ~MustCheckpoint /\ UNCHANGED <<host, ck, guest>>
    <3>1. guest.faults = 0
      BY <1>7, <2>2
    <3> QED
      BY <1>3, <1>4, <2>2, <3>1 DEF SliceTypes, MaskKnown, Within
  <2> QED
    BY <2>1, <2>2 DEF Report
<1>9. SliceTypes'
  BY <1>1, <1>5, <1>8 DEF SliceTypes, Looping, Ending
<1>10. Accounts'
  <2>1. phase' = "head" => phase' \notin Ending
    BY DEF Ending
  <2>2. phase' = "finish" => phase' \in Ending
    BY DEF Ending
  <2> QED
    BY <1>1, <1>4, <1>5, <1>8, <2>1, <2>2 DEF Accounts
<1>11. FaultsEnd' /\ Clock'
  BY <1>1, <1>8 DEF FaultsEnd, Clock
<1>12. Within'
  <2>1. phase' = "finish" => phase' \notin Looping
    BY DEF Looping
  <2> QED
    BY <1>1, <1>5, <1>8, <2>1 DEF Within
<1>13. MaskKnown'
  BY <1>5, <1>8 DEF MaskKnown
<1>14. SystemBlock' /\ EngineFits' /\ GraphsInTime'
  BY <1>5 DEF SystemBlock, EngineFits, GraphsInTime
<1>15. Prompt'
  BY <1>1, <1>5, <1>6, <1>8 DEF Prompt, Quiet
<1> QED
  BY <1>9, <1>10, <1>11, <1>12, <1>13, <1>14, <1>15

\* What is left is reported.
LEMMA FinishStep == SliceInvariant /\ Finish => SliceInvariant'
<1> SUFFICES ASSUME SliceInvariant, Finish PROVE SliceInvariant'
  OBVIOUS
<1> USE Fields DEF SliceInvariant
<1>1. phase = "finish" /\ phase' = "done" /\ UNCHANGED <<timer, run>>
  BY DEF Finish
<1>2. phase \in Ending /\ phase' \in Ending /\ phase' \notin Running /\ phase' \notin Looping /\ phase \notin Running
  BY <1>1 DEF Ending, Running, Looping
<1>3. chain' \in Chains /\ chain'.steps = chain.steps
  <2>1. chain \in Chains /\ "max_steps" \in Statuses
    BY DEF SliceTypes, Statuses
  <2>2. CASE UNCHANGED chain
    BY <2>1, <2>2
  <2>3. CASE chain' = [chain EXCEPT !.status = "max_steps"]
    BY <2>1, <2>3, Zenon DEF Chains
  <2> QED
    BY <2>2, <2>3 DEF Finish
<1>4. /\ chain.steps = guest.retired /\ timer.charged = guest.retired /\ guest.faults = 0
      /\ host.total + ck.steps \in {guest.retired, guest.retired + 1}
  BY <1>2 DEF Accounts
<1>5. /\ host' \in Hosts /\ guest' \in Guests /\ ck' \in Checkpoints
      /\ guest'.at \in 1..Len(Code[guest'.block]) /\ guest'.faults = 0
      /\ guest'.retired = guest.retired /\ host'.total + ck'.steps = host.total + ck.steps /\ ck'.steps = 0
  <2>1. CASE Checkpoint
    BY <1>4, <2>1, CheckpointEffect
  <2>2. CASE ck.steps = 0 /\ UNCHANGED <<host, ck, guest>>
    BY <1>4, <2>2 DEF SliceTypes
  <2> QED
    BY <2>1, <2>2 DEF Finish
<1>6. SliceTypes'
  BY <1>1, <1>2, <1>3, <1>5 DEF SliceTypes
<1>7. Accounts'
  BY <1>1, <1>2, <1>3, <1>4, <1>5 DEF Accounts
<1>8. FaultsEnd' /\ Clock'
  BY <1>1, <1>5 DEF FaultsEnd, Clock
<1>9. Within' /\ MaskKnown'
  BY <1>1, <1>2, <1>3 DEF Within, MaskKnown
<1>10. SystemBlock' /\ EngineFits' /\ GraphsInTime' /\ Prompt'
  BY <1>1 DEF SystemBlock, EngineFits, GraphsInTime, Prompt
<1> QED
  BY <1>6, <1>7, <1>8, <1>9, <1>10

-----------------------------------------------------------------------------
(* The graphs.                                                             *)

\* The verdicts of a service, as fields of the run.
LEMMA StopEffect ==
    ASSUME SliceTypes, NEW status \in Statuses, NEW stop \in {"executor", "callback", "proof", "steps", "visits", "outside"},
           Stop(status, stop)
    PROVE  /\ run' \in Runs /\ run'.engine = run.engine /\ run'.steps = run.steps /\ run'.limit = run.limit
           /\ run'.charged = run.steps /\ run'.status = status /\ (run'.irq <=> Due) /\ phase' = "ran"
<1>1. run \in Runs /\ run.steps \in Nat
  BY Fields DEF SliceTypes
<1>2. Due \in BOOLEAN
  BY DEF Due
<1>3. stop \in {"none", "executor", "callback", "proof", "steps", "visits", "outside", "limit"}
  OBVIOUS
<1>4. run' = [run EXCEPT !.charged = run.steps, !.status = status, !.stop = stop, !.irq = Due] /\ phase' = "ran"
  BY DEF Stop
<1> HIDE DEF Due
<1>5. /\ run' \in Runs /\ run'.engine = run.engine /\ run'.steps = run.steps /\ run'.limit = run.limit
      /\ run'.charged = run.steps /\ run'.status = status /\ run'.irq = Due
  BY <1>1, <1>2, <1>3, <1>4, Zenon DEF Runs
<1> QED
  BY <1>4, <1>5

\* The last service of a graph's run.
LEMMA GraphEnds ==
    ASSUME SliceInvariant, phase \in {"service", "final"}, phase' = "ran", Serviced,
           UNCHANGED <<chain, ck, guest, host>>, run' \in Runs, run'.engine = run.engine,
           run'.steps = run.steps, run'.charged = run.steps, run'.limit = run.limit,
           run'.irq \/ ~Due, run'.status = run.status \/ guest.faults = 0
    PROVE  SliceInvariant'
<1> USE Fields DEF SliceInvariant
<1>1. phase \in Running /\ phase' \in Running
  BY DEF Running
<1>2. Delta \in Nat /\ Delta = run.steps - run.charged
  BY <1>1 DEF Delta, Accounts
<1>3. timer' \in Timers /\ Clock' /\ timer'.charged = timer.charged + Delta
  BY <1>2, AdvanceEffect DEF Serviced
<1>4. SliceTypes'
  BY <1>1, <1>3 DEF SliceTypes
<1>5. run.steps <= run.limit
  BY <1>1 DEF Within
<1>6. Accounts' /\ Clock' /\ Within' /\ MaskKnown'
  BY <1>1, <1>2, <1>3, <1>4, <1>5, ServicedAccounts
<1>7. FaultsEnd'
  BY DEF FaultsEnd
<1>8. SystemBlock' /\ EngineFits' /\ GraphsInTime'
  BY DEF SystemBlock, EngineFits, GraphsInTime
<1>9. Prompt'
  BY DEF Prompt, Quiet, Due
<1> QED
  BY <1>4, <1>6, <1>7, <1>8, <1>9

\* The unbounded graph's service at a boundary.
LEMMA ServiceStep == SliceInvariant /\ ServiceGraph => SliceInvariant'
<1> SUFFICES ASSUME SliceInvariant, ServiceGraph PROVE SliceInvariant'
  OBVIOUS
<1> USE Fields DEF SliceInvariant
<1>1. phase = "service" /\ run.engine = "graph" /\ Serviced /\ UNCHANGED <<chain, ck, guest, host>>
  BY DEF ServiceGraph
<1>2. CASE run.stop = "executor" /\ Stop(run.status, "executor")
  <2>1. /\ run' \in Runs /\ run'.engine = run.engine /\ run'.steps = run.steps /\ run'.limit = run.limit
        /\ run'.charged = run.steps /\ run'.status = run.status /\ (run'.irq <=> Due) /\ phase' = "ran"
    BY <1>2, StopEffect
  <2> QED
    BY <1>1, <2>1, GraphEnds
<1>3. CASE run.stop # "executor" /\ \E status \in Statuses, stop \in {"proof", "callback", "steps", "visits", "outside"} : Stop(status, stop)
  <2>1. PICK status \in Statuses, stop \in {"proof", "callback", "steps", "visits", "outside"} : Stop(status, stop)
    BY <1>3
  <2>2. guest.faults = 0
    BY <1>1, <1>3 DEF FaultsEnd
  <2>3. /\ run' \in Runs /\ run'.engine = run.engine /\ run'.steps = run.steps /\ run'.limit = run.limit
        /\ run'.charged = run.steps /\ (run'.irq <=> Due) /\ phase' = "ran"
    BY <2>1, StopEffect
  <2> QED
    BY <1>1, <2>2, <2>3, GraphEnds
<1>4. CASE /\ run.stop # "executor" /\ ~Due /\ run.steps < run.limit /\ phase' = "member"
           /\ run' = [run EXCEPT !.charged = run.steps, !.visits = @ + 1, !.enteredAt = run.steps,
                                 !.allowed = Least(run.limit, run.steps + Allowance)]
  <2>1. phase \in Running /\ phase' \in Running
    BY <1>1, <1>4 DEF Running
  <2>2. Delta \in Nat /\ Delta = run.steps - run.charged
    BY <2>1 DEF Delta, Accounts
  <2>3. timer' \in Timers /\ Clock' /\ timer'.charged = timer.charged + Delta
    BY <1>1, <2>2, AdvanceEffect DEF Serviced
  <2>4. timer'.charged \in Nat /\ timer'.compare \in Nat /\ timer'.live \in BOOLEAN /\ timer'.fired \in BOOLEAN
    BY <2>3 DEF Timers
  <2>5. /\ Allowance \in Int /\ 0 <= Allowance
        /\ ~timer'.live /\ ~guest.masked => Allowance = timer'.compare - timer'.charged
    <3>1. CASE timer'.live
      BY <1>1, <3>1, Constants DEF Allowance
    <3>2. CASE ~timer'.live /\ guest.masked
      BY <3>2, Constants DEF Allowance
    <3>3. CASE ~timer'.live /\ ~guest.masked
      <4>1. Allowance = timer'.compare - timer'.charged
        BY <3>3 DEF Allowance
      <4>2. timer'.charged < timer'.compare
        BY <1>4, <2>3, <2>4, <3>3 DEF Due, Clock
      <4> QED
        BY <2>4, <4>1, <4>2
    <3> QED
      BY <2>4, <3>1, <3>2, <3>3
  <2> DEFINE allowed == Least(run.limit, run.steps + Allowance)
  <2>6. /\ allowed \in Int /\ run.steps <= allowed /\ allowed <= run.limit
        /\ allowed <= run.steps + Allowance
    BY <1>4, <2>5 DEF Least
  <2>7. run' = [run EXCEPT !.charged = run.steps, !.visits = run.visits + 1, !.enteredAt = run.steps, !.allowed = allowed]
    <3>1. run \in Runs
      BY DEF SliceTypes
    <3> QED
      BY <1>4, <3>1, Zenon DEF Runs
  <2> HIDE DEF allowed
  <2>8. /\ run' \in Runs /\ run'.engine = run.engine /\ run'.steps = run.steps /\ run'.limit = run.limit
        /\ run'.charged = run.steps /\ run'.allowed = allowed
    <3>1. run \in Runs /\ run.visits + 1 \in Int /\ run.steps \in Nat
      <4>1. run.visits + 1 \in Int /\ run.steps \in Nat
        OBVIOUS
      <4> QED
        BY <4>1 DEF SliceTypes
    <3> QED
      BY <2>6, <2>7, <3>1, Zenon DEF Runs
  <2>9. SliceTypes'
    BY <1>1, <2>1, <2>3, <2>8 DEF SliceTypes
  <2>10. Accounts' /\ Clock' /\ Within' /\ MaskKnown'
    <3>1. run.steps <= run.limit
      BY <1>4
    <3> QED
      BY <1>1, <2>1, <2>2, <2>3, <2>8, <2>9, <3>1, ServicedAccounts
  <2>11. guest.faults = 0
    BY <1>1, <1>4 DEF FaultsEnd
  <2>12. FaultsEnd' /\ SystemBlock' /\ EngineFits' /\ Prompt'
    BY <1>1, <1>4, <2>8, <2>11 DEF FaultsEnd, SystemBlock, EngineFits, Prompt, Graphs
  <2>13. GraphsInTime'
    <3>1. ~timer'.live /\ ~guest.masked => timer'.charged + allowed - run.steps <= timer'.compare
      BY <2>4, <2>5, <2>6
    <3>2. InTime(run.allowed)'
      BY <1>1, <2>8, <3>1 DEF InTime
    <3> QED
      BY <1>1, <1>4, <2>6, <2>8, <3>2 DEF GraphsInTime
  <2> QED
    BY <2>9, <2>10, <2>12, <2>13
<1>5. {"revalidate", "yielded", "max_steps", "outside"} \subseteq Statuses
  BY DEF Statuses
<1> QED
  BY <1>2, <1>3, <1>4, <1>5 DEF ServiceGraph

\* An instruction of a graph's member, or of its helper, that retires.
LEMMA MemberRetires ==
    ASSUME SliceInvariant, phase \in {"member", "helper"}, phase' \in {"member", "service", "gate", "final"},
           Retire(guest.masked, FALSE), run.steps < run.limit, run' \in Runs, run'.engine = run.engine,
           run'.steps = run.steps + 1, run'.charged = run.charged, run'.limit = run.limit, run'.allowed = run.allowed,
           UNCHANGED <<chain, ck, timer, host>>,
           phase' = "service" => run.engine = "graph",
           phase' \in {"gate", "final"} => run.engine = "bounded",
           phase' = "member" => phase = "member" /\ (run.engine = "graph" => run.steps < run.allowed)
    PROVE  SliceInvariant'
<1> USE Fields DEF SliceInvariant
<1>1. /\ guest' \in Guests /\ guest'.at \in 1..Len(Code[guest'.block])
      /\ guest'.masked = guest.masked /\ guest'.retired = guest.retired + 1 /\ guest'.faults = guest.faults
  <2>1. FALSE \in BOOLEAN
    OBVIOUS
  <2> QED
    BY <2>1, RetireEffect
<1>2. phase \in Running /\ phase' \in Running
  BY DEF Running
<1>3. SliceTypes'
  BY <1>1, <1>2 DEF SliceTypes
<1>4. Accounts' /\ Clock' /\ Within' /\ MaskKnown'
  BY <1>1, <1>2, <1>3, RetiredAccounts
<1>5. run.engine \in Graphs
  BY DEF EngineFits
<1>6. FaultsEnd' /\ SystemBlock' /\ Prompt'
  BY <1>1, NoFaults DEF FaultsEnd, SystemBlock, Prompt
<1>7. EngineFits'
  BY <1>5 DEF EngineFits
<1>8. run.engine = "bounded" => InTime(run.limit)
  BY DEF GraphsInTime
<1>9. InTime(run.limit)' <=> InTime(run.limit)
  BY <1>1 DEF InTime
<1>10. InTime(run.allowed)' <=> InTime(run.allowed)
  BY <1>1 DEF InTime
<1>11. phase' = "member" /\ run.engine = "graph" => run.steps + 1 <= run.allowed /\ run.allowed <= run.limit /\ InTime(run.allowed)
  BY DEF GraphsInTime
<1>12. GraphsInTime'
  BY <1>8, <1>9, <1>10, <1>11 DEF GraphsInTime, Graphs
<1> QED
  BY <1>3, <1>4, <1>6, <1>7, <1>12

\* A step of a graph's run at which no instruction retires.
LEMMA MemberStays ==
    ASSUME SliceInvariant, phase \in {"member", "gate", "helper"}, phase' \in {"member", "service", "gate", "helper", "final"},
           run' \in Runs, run'.engine = run.engine,
           run'.steps = run.steps, run'.charged = run.charged, run'.limit = run.limit,
           UNCHANGED <<chain, ck, timer, host>>,
           \/ UNCHANGED guest
           \/ /\ guest' = Faulted /\ run'.status = "memory_fault"
              /\ phase' = "final" \/ (phase' = "service" /\ run'.stop = "executor"),
           phase' = "service" => run.engine = "graph",
           phase' # "service" => run.engine = "bounded",
           phase' = "helper" => run.steps < run.limit
    PROVE  SliceInvariant'
<1> USE Fields DEF SliceInvariant
<1>1. /\ guest' \in Guests /\ guest'.at \in 1..Len(Code[guest'.block])
      /\ guest'.masked = guest.masked /\ guest'.retired = guest.retired
  <2>1. CASE UNCHANGED guest
    BY <2>1 DEF SliceTypes
  <2>2. CASE guest' = Faulted
    BY <2>2, FaultEffect
  <2> QED
    BY <2>1, <2>2
<1>2. phase \in Running /\ phase' \in Running
  BY DEF Running
<1>3. SliceTypes'
  BY <1>1, <1>2 DEF SliceTypes
<1>4. Accounts' /\ Clock' /\ Within' /\ MaskKnown'
  BY <1>1, <1>2, <1>3, KeptAccounts
<1>5. guest.faults = 0
  BY NoFaults
<1>6. FaultsEnd' /\ SystemBlock' /\ Prompt'
  BY <1>5 DEF FaultsEnd, SystemBlock, Prompt
<1>7. EngineFits'
  BY DEF EngineFits, Graphs
<1>8. phase' # "service" => InTime(run.limit)
  BY DEF GraphsInTime
<1>9. InTime(run.limit)' <=> InTime(run.limit)
  BY <1>1 DEF InTime
<1>10. GraphsInTime'
  BY <1>8, <1>9 DEF GraphsInTime
<1> QED
  BY <1>3, <1>4, <1>6, <1>7, <1>10

\* A member of the unbounded graph.
LEMMA MemberStep == SliceInvariant /\ StepMember => SliceInvariant'
<1> SUFFICES ASSUME SliceInvariant, StepMember PROVE SliceInvariant'
  OBVIOUS
<1> USE Fields DEF SliceInvariant
<1>1. phase = "member" /\ run.engine = "graph" /\ UNCHANGED <<chain, ck, timer, host>>
  BY DEF StepMember
<1>2. run.steps <= run.allowed /\ run.allowed <= run.limit
  BY <1>1 DEF GraphsInTime
<1>3. run \in Runs /\ {"revalidate", "memory_fault"} \subseteq Statuses
  BY DEF SliceTypes, Statuses
<1>4. CASE /\ run.steps < run.allowed /\ Retire(guest.masked, FALSE) /\ run' = [run EXCEPT !.steps = @ + 1]
           /\ phase' = IF AtEnd \/ run.steps + 1 = run.allowed THEN "service" ELSE "member"
  <2>1. run.steps < run.limit
    BY <1>2, <1>4
  <2>2. phase' \in {"service", "member"}
    BY <1>4
  <2> QED
    BY <1>1, <1>4, <2>1, <2>2, CountEffect, MemberRetires
<1>5. CASE run.steps < run.allowed /\ Retire(guest.masked, FALSE) /\ Retired("revalidate") /\ phase' = "service"
  <2>1. run.steps < run.limit
    BY <1>2, <1>5
  <2>2. run'.allowed = run.allowed
    BY <1>3, <1>5, Zenon DEF Retired, Runs
  <2>3. /\ run' \in Runs /\ run'.engine = run.engine /\ run'.steps = run.steps + 1
        /\ run'.charged = run.charged /\ run'.limit = run.limit
    BY <1>3, <1>5, RetiredEffect
  <2> QED
    BY <1>1, <1>5, <2>1, <2>2, <2>3, MemberRetires
<1>6. CASE guest' = Faulted /\ RunTo("memory_fault") /\ phase' = "service"
  <2>1. /\ run' \in Runs /\ run'.engine = run.engine /\ run'.steps = run.steps /\ run'.charged = run.charged
        /\ run'.limit = run.limit /\ run'.status = "memory_fault" /\ run'.stop = "executor"
    BY <1>3, <1>6, RunToEffect
  <2> QED
    BY <1>1, <1>6, <2>1, MemberStays
<1>7. CASE /\ run' = [run EXCEPT !.visits = @ - 1, !.status = "revalidate", !.stop = "executor"]
           /\ phase' = "service" /\ UNCHANGED guest
  <2>1. run.visits - 1 \in Int
    OBVIOUS
  <2>2. "executor" \in {"none", "executor", "callback", "proof", "steps", "visits", "outside", "limit"}
    OBVIOUS
  <2>3. /\ run' \in Runs /\ run'.engine = run.engine /\ run'.steps = run.steps /\ run'.charged = run.charged
        /\ run'.limit = run.limit
    BY <1>3, <1>7, <2>1, <2>2, Zenon DEF Runs
  <2> QED
    BY <1>1, <1>7, <2>3, MemberStays
<1> QED
  BY <1>4, <1>5, <1>6, <1>7 DEF StepMember

\* The gate between the members of a bounded graph.
LEMMA GateStep == SliceInvariant /\ Gate => SliceInvariant'
<1> SUFFICES ASSUME SliceInvariant, Gate PROVE SliceInvariant'
  OBVIOUS
<1> USE Fields DEF SliceInvariant
<1>1. phase = "gate" /\ UNCHANGED <<chain, ck, guest, timer, host>>
  BY DEF Gate
<1>2. run.engine = "bounded"
  BY <1>1 DEF EngineFits
<1>3. run \in Runs /\ {"outside", "yielded", "revalidate"} \subseteq Statuses
  BY DEF SliceTypes, Statuses
<1>4. CASE phase' = "member" /\ run' = [run EXCEPT !.visits = @ + 1, !.enteredAt = run.steps]
  <2>1. run.visits + 1 \in Int /\ run.steps \in Nat
    OBVIOUS
  <2>2. /\ run' \in Runs /\ run'.engine = run.engine /\ run'.steps = run.steps /\ run'.charged = run.charged
        /\ run'.limit = run.limit
    BY <1>3, <1>4, <2>1, Zenon DEF Runs
  <2> QED
    BY <1>1, <1>2, <1>4, <2>2, MemberStays
<1>5. CASE phase' = "final" /\ \E status \in {"outside", "yielded", "revalidate"} : run' = [run EXCEPT !.status = status]
  <2>1. PICK status \in Statuses : run' = [run EXCEPT !.status = status]
    BY <1>3, <1>5
  <2>2. /\ run' \in Runs /\ run'.engine = run.engine /\ run'.steps = run.steps /\ run'.charged = run.charged
        /\ run'.limit = run.limit
    BY <1>3, <2>1, Zenon DEF Runs
  <2> QED
    BY <1>1, <1>2, <1>5, <2>2, MemberStays
<1> QED
  BY <1>4, <1>5 DEF Gate

\* A member of a bounded graph.
LEMMA BoundedStep == SliceInvariant /\ StepBounded => SliceInvariant'
<1> SUFFICES ASSUME SliceInvariant, StepBounded PROVE SliceInvariant'
  OBVIOUS
<1> USE Fields DEF SliceInvariant
<1>1. phase = "member" /\ run.engine = "bounded" /\ UNCHANGED <<chain, ck, timer, host>>
  BY DEF StepBounded
<1>2. run \in Runs /\ {"max_steps", "revalidate"} \subseteq Statuses
  BY DEF SliceTypes, Statuses
<1>3. CASE /\ run.steps < run.limit /\ Retire(guest.masked, FALSE) /\ run' = [run EXCEPT !.steps = @ + 1]
           /\ phase' = IF AtEnd THEN "gate" ELSE "member"
  <2>1. phase' \in {"gate", "member"}
    BY <1>3
  <2> QED
    BY <1>1, <1>3, <2>1, CountEffect, MemberRetires
<1>4. CASE /\ run.steps < run.limit /\ Retire(guest.masked, FALSE) /\ phase' = "final"
           /\ run' = [run EXCEPT !.steps = @ + 1, !.status = "revalidate", !.terminal = TRUE]
  <2>1. run.steps + 1 \in Nat /\ TRUE \in BOOLEAN
    OBVIOUS
  <2>2. /\ run' \in Runs /\ run'.engine = run.engine /\ run'.steps = run.steps + 1 /\ run'.charged = run.charged
        /\ run'.limit = run.limit /\ run'.allowed = run.allowed
    BY <1>2, <1>4, <2>1, Zenon DEF Runs
  <2> QED
    BY <1>1, <1>4, <2>2, MemberRetires
<1>5. CASE run.steps < run.limit /\ phase' = "helper" /\ UNCHANGED <<guest, run>>
  BY <1>1, <1>2, <1>5, MemberStays
<1>6. CASE phase' = "final" /\ run' = [run EXCEPT !.status = "max_steps"] /\ UNCHANGED guest
  <2>1. /\ run' \in Runs /\ run'.engine = run.engine /\ run'.steps = run.steps /\ run'.charged = run.charged
        /\ run'.limit = run.limit
    BY <1>2, <1>6, Zenon DEF Runs
  <2> QED
    BY <1>1, <1>6, <2>1, MemberStays
<1> QED
  BY <1>3, <1>4, <1>5, <1>6 DEF StepBounded

\* The helper that performs an access in C.
LEMMA HelperStep == SliceInvariant /\ Helper => SliceInvariant'
<1> SUFFICES ASSUME SliceInvariant, Helper PROVE SliceInvariant'
  OBVIOUS
<1> USE Fields DEF SliceInvariant
<1>1. phase = "helper" /\ phase' = "final" /\ UNCHANGED <<chain, ck, timer, host>>
  BY DEF Helper
<1>2. run.engine = "bounded" /\ run.steps < run.limit
  BY <1>1 DEF EngineFits, GraphsInTime
<1>3. run \in Runs /\ {"memory_fault", "revalidate"} \subseteq Statuses
  BY DEF SliceTypes, Statuses
<1>4. CASE Retire(guest.masked, FALSE) /\ run' = [run EXCEPT !.steps = @ + 1, !.status = "revalidate"]
  <2>1. run.steps + 1 \in Nat
    OBVIOUS
  <2>2. /\ run' \in Runs /\ run'.engine = run.engine /\ run'.steps = run.steps + 1 /\ run'.charged = run.charged
        /\ run'.limit = run.limit /\ run'.allowed = run.allowed
    BY <1>3, <1>4, <2>1, Zenon DEF Runs
  <2> QED
    BY <1>1, <1>2, <1>4, <2>2, MemberRetires
<1>5. CASE guest' = Faulted /\ run' = [run EXCEPT !.status = "memory_fault"]
  <2>1. /\ run' \in Runs /\ run'.engine = run.engine /\ run'.steps = run.steps /\ run'.charged = run.charged
        /\ run'.limit = run.limit /\ run'.status = "memory_fault"
    BY <1>3, <1>5, Zenon DEF Runs
  <2> QED
    BY <1>1, <1>2, <1>5, <2>1, MemberStays
<1> QED
  BY <1>4, <1>5 DEF Helper

\* The service before a helper: what was in time stays in time.
LEMMA BeforeHelperStep == SliceInvariant /\ BeforeHelper => SliceInvariant'
<1> SUFFICES ASSUME SliceInvariant, BeforeHelper PROVE SliceInvariant'
  OBVIOUS
<1> USE Fields DEF SliceInvariant
<1>1. phase = "helper" /\ Serviced /\ UNCHANGED <<chain, ck, guest, host>>
  BY DEF BeforeHelper
<1>2. phase \in Running
  BY <1>1 DEF Running
<1>3. Delta \in Nat /\ Delta = run.steps - run.charged
  BY <1>2 DEF Delta, Accounts
<1>4. /\ timer' \in Timers /\ Clock' /\ timer'.charged = timer.charged + Delta /\ timer'.compare = timer.compare
      /\ timer'.live = timer.live
      /\ timer.live => timer'.since = timer.since + Delta \/ (timer'.since = 0 /\ timer.since + Delta >= Poll)
  BY <1>1, <1>3, AdvanceEffect DEF Serviced
<1>5. run.engine = "bounded" /\ run.steps < run.limit /\ InTime(run.limit)
  BY <1>1 DEF EngineFits, GraphsInTime
<1>6. /\ run' \in Runs /\ run'.engine = run.engine /\ run'.steps = run.steps /\ run'.charged = run.steps
      /\ run'.limit = run.limit /\ phase' \in {"final", "helper"}
  <2>1. run.steps \in Nat /\ TRUE \in BOOLEAN /\ Due \in BOOLEAN
    BY DEF Due
  <2>2. /\ {"revalidate", "yielded"} \subseteq Statuses
        /\ {"proof", "callback"} \subseteq {"none", "executor", "callback", "proof", "steps", "visits", "outside", "limit"}
    BY DEF Statuses
  <2>3. run \in Runs
    BY DEF SliceTypes
  <2>4. CASE /\ phase' = "final"
             /\ \E lost \in {TRUE, ~Due} :
                   run' = [run EXCEPT !.charged = run.steps, !.veto = TRUE, !.irq = Due,
                                      !.status = IF lost THEN "revalidate" ELSE "yielded",
                                      !.stop = IF lost THEN "proof" ELSE "callback"]
    <3>1. PICK lost \in {TRUE, ~Due} :
            run' = [run EXCEPT !.charged = run.steps, !.veto = TRUE, !.irq = Due,
                               !.status = IF lost THEN "revalidate" ELSE "yielded",
                               !.stop = IF lost THEN "proof" ELSE "callback"]
      BY <2>4
    <3> DEFINE status == IF lost THEN "revalidate" ELSE "yielded"
               stop == IF lost THEN "proof" ELSE "callback"
               irq == Due
    <3>2. /\ status \in Statuses /\ irq \in BOOLEAN
          /\ stop \in {"none", "executor", "callback", "proof", "steps", "visits", "outside", "limit"}
      BY <2>1, <2>2
    <3>3. run' = [run EXCEPT !.charged = run.steps, !.veto = TRUE, !.irq = irq, !.status = status, !.stop = stop]
      BY <3>1
    <3> HIDE DEF status, stop, irq
    <3> QED
      BY <2>1, <2>3, <2>4, <3>2, <3>3, Zenon DEF Runs
  <2>5. CASE phase' = "helper" /\ run' = [run EXCEPT !.charged = run.steps, !.terminal = TRUE]
    <3>1. /\ run' \in Runs /\ run'.engine = run.engine /\ run'.steps = run.steps /\ run'.charged = run.steps
          /\ run'.limit = run.limit
      BY <2>1, <2>3, <2>5, Zenon DEF Runs
    <3> QED
      BY <2>5, <3>1
  <2> QED
    BY <1>1, <2>4, <2>5 DEF BeforeHelper
<1>7. phase' \in Running
  BY <1>6 DEF Running
<1>8. SliceTypes'
  BY <1>1, <1>4, <1>6, <1>7 DEF SliceTypes
<1>9. Accounts' /\ Clock' /\ Within' /\ MaskKnown'
  BY <1>1, <1>2, <1>3, <1>4, <1>5, <1>6, <1>7, <1>8, ServicedAccounts
<1>10. guest.faults = 0
  BY <1>1, NoFaults
<1>11. FaultsEnd' /\ SystemBlock' /\ EngineFits' /\ Prompt'
  BY <1>1, <1>5, <1>6, <1>10 DEF FaultsEnd, SystemBlock, EngineFits, Prompt, Graphs
<1>12. InTime(run.limit)'
  <2>1. /\ ~timer.live /\ ~guest.masked => timer.charged + run.limit - run.charged <= timer.compare
        /\ timer.live => timer.since + run.limit - run.charged <= Poll
    BY <1>5 DEF InTime
  <2>2. ~timer'.live /\ ~guest.masked => timer'.charged + run.limit - run.steps <= timer'.compare
    BY <1>3, <1>4, <2>1
  <2>3. timer'.live => timer'.since + run.limit - run.steps <= Poll
    BY <1>3, <1>4, <2>1, Constants
  <2> QED
    BY <1>1, <1>6, <2>2, <2>3 DEF InTime
<1>13. GraphsInTime'
  BY <1>5, <1>6, <1>12 DEF GraphsInTime
<1> QED
  BY <1>8, <1>9, <1>11, <1>13

\* The entry of a bounded graph, or of its root alone.
LEMMA EnterStep == SliceInvariant /\ EnterBounded => SliceInvariant'
<1> SUFFICES ASSUME SliceInvariant, EnterBounded PROVE SliceInvariant'
  OBVIOUS
<1> USE Fields DEF SliceInvariant
<1>1. phase = "service" /\ run.engine = "bounded" /\ Serviced /\ UNCHANGED <<chain, ck, guest, host>>
  BY DEF EnterBounded
<1>2. run.steps = 0 /\ run.charged = 0 /\ run.limit > 0
  BY <1>1 DEF GraphsInTime
<1>3. guest.faults = 0
  BY <1>1 DEF FaultsEnd
<1>4. phase \in Running
  BY <1>1 DEF Running
<1>5. Delta = 0
  BY <1>2 DEF Delta
<1>6. /\ timer' \in Timers /\ Clock' /\ timer'.charged = timer.charged + Delta /\ timer'.compare = timer.compare
      /\ timer'.live = timer.live
  <2>1. Delta \in Nat
    BY <1>5
  <2> QED
    BY <1>1, <2>1, AdvanceEffect DEF Serviced
<1>7. /\ timer'.charged \in Nat /\ timer'.compare \in Nat /\ timer'.since \in Nat
      /\ timer'.live \in BOOLEAN /\ timer'.fired \in BOOLEAN
  BY <1>6 DEF Timers
<1>8. run \in Runs /\ {"revalidate", "yielded"} \subseteq Statuses
  BY DEF SliceTypes, Statuses
<1>9. CASE \E status \in Statuses, stop \in {"callback", "proof"} : Stop(status, stop)
  <2>1. PICK status \in Statuses, stop \in {"callback", "proof"} : Stop(status, stop)
    BY <1>9
  <2>2. /\ run' \in Runs /\ run'.engine = run.engine /\ run'.steps = run.steps /\ run'.limit = run.limit
        /\ run'.charged = run.steps /\ (run'.irq <=> Due) /\ phase' = "ran"
    BY <2>1, StopEffect
  <2> QED
    BY <1>1, <1>3, <2>2, GraphEnds
<1>10. CASE ~Due /\ run' = [run EXCEPT !.charged = run.steps, !.limit = Least(@, Allowance)] /\ phase' = "gate"
  <2>1. /\ Allowance \in Int /\ Allowance > 0
        /\ ~timer'.live /\ ~guest.masked => Allowance = timer'.compare - timer'.charged
        /\ timer'.live => Allowance = Poll - timer'.since
    <3>1. CASE timer'.live
      <4>1. Allowance = Poll - timer'.since
        BY <1>1, <3>1 DEF Allowance
      <4>2. timer'.since < Poll
        BY <1>6 DEF Clock
      <4> QED
        BY <1>7, <3>1, <4>1, <4>2, Constants
    <3>2. CASE ~timer'.live /\ guest.masked
      <4>1. Allowance = MaxSteps
        BY <3>2 DEF Allowance
      <4>2. MaxSteps > 0
        BY <1>2, <1>4, Constants DEF Within
      <4> QED
        BY <3>2, <4>1, <4>2, Constants
    <3>3. CASE ~timer'.live /\ ~guest.masked
      <4>1. Allowance = timer'.compare - timer'.charged
        BY <3>3 DEF Allowance
      <4>2. timer'.charged < timer'.compare
        BY <1>6, <1>7, <1>10, <3>3 DEF Due, Clock
      <4> QED
        BY <1>7, <3>3, <4>1, <4>2
    <3> QED
      BY <1>7, <3>1, <3>2, <3>3
  <2> DEFINE limit == Least(run.limit, Allowance)
  <2>2. limit \in Int /\ 0 < limit /\ limit <= run.limit /\ limit <= Allowance
    BY <1>2, <2>1 DEF Least
  <2>3. run' = [run EXCEPT !.charged = run.steps, !.limit = limit]
    BY <1>8, <1>10, Zenon DEF Runs
  <2> HIDE DEF limit
  <2>4. /\ run' \in Runs /\ run'.engine = run.engine /\ run'.steps = run.steps /\ run'.limit = limit
        /\ run'.charged = run.steps
    <3>1. run.steps \in Nat
      OBVIOUS
    <3> QED
      BY <1>8, <2>2, <2>3, <3>1, Zenon DEF Runs
  <2>5. phase' \in Running
    BY <1>10 DEF Running
  <2>6. SliceTypes'
    BY <1>1, <1>6, <2>4, <2>5 DEF SliceTypes
  <2>7. Accounts' /\ Clock' /\ Within' /\ MaskKnown'
    <3>1. timer'.charged = timer.charged + (run.steps - run.charged)
      BY <1>6 DEF Delta
    <3>2. run.steps <= run'.limit /\ run'.limit <= run.limit
      BY <1>2, <2>2, <2>4
    <3> QED
      BY <1>1, <1>4, <1>6, <2>4, <2>5, <2>6, <3>1, <3>2, ServicedAccounts
  <2>8. FaultsEnd' /\ SystemBlock' /\ EngineFits' /\ Prompt'
    BY <1>1, <1>3, <1>10, <2>4 DEF FaultsEnd, SystemBlock, EngineFits, Prompt, Graphs
  <2>9. InTime(run.limit)'
    <3>1. ~timer'.live /\ ~guest.masked => timer'.charged + limit - run.steps <= timer'.compare
      BY <1>2, <1>7, <2>1, <2>2
    <3>2. timer'.live => timer'.since + limit - run.steps <= Poll
      BY <1>2, <1>7, <2>1, <2>2, Constants
    <3> QED
      BY <1>1, <2>4, <3>1, <3>2 DEF InTime
  <2>10. GraphsInTime'
    BY <1>10, <2>9 DEF GraphsInTime
  <2> QED
    BY <2>6, <2>7, <2>8, <2>10
<1>11. CASE run' = [run EXCEPT !.engine = "assembly", !.visits = 1] /\ phase' = "step"
  <2>1. /\ run' \in Runs /\ run'.engine = "assembly" /\ run'.steps = run.steps /\ run'.limit = run.limit
        /\ run'.charged = run.charged
    <3>1. 1 \in Int /\ "assembly" \in {"none", "c", "assembly", "trace"} \cup Graphs
      OBVIOUS
    <3> QED
      BY <1>8, <1>11, <3>1, Zenon DEF Runs
  <2>2. phase' \in Running
    BY <1>11 DEF Running
  <2>3. SliceTypes'
    BY <1>1, <1>6, <2>1, <2>2 DEF SliceTypes
  <2>4. Accounts' /\ Clock' /\ Within' /\ MaskKnown'
    <3>1. timer'.charged = timer.charged + (run.steps - run.charged) /\ run'.charged = run.steps
      BY <1>2, <1>6, <2>1 DEF Delta
    <3>2. run.steps <= run'.limit /\ run'.limit <= run.limit
      BY <1>2, <2>1
    <3> QED
      BY <1>1, <1>4, <1>6, <2>1, <2>2, <2>3, <3>1, <3>2, ServicedAccounts
  <2>5. FaultsEnd' /\ SystemBlock'
    BY <1>1, <1>3, <1>11, <2>1 DEF FaultsEnd, SystemBlock
  <2>6. EngineFits' /\ Prompt' /\ GraphsInTime'
    BY <1>11, <2>1, NoGraph
  <2> QED
    BY <2>3, <2>4, <2>5, <2>6
<1>12. \/ \E status \in Statuses, stop \in {"callback", "proof"} : Stop(status, stop)
       \/ ~Due /\ run' = [run EXCEPT !.charged = run.steps, !.limit = Least(@, Allowance)] /\ phase' = "gate"
       \/ run' = [run EXCEPT !.engine = "assembly", !.visits = 1] /\ phase' = "step"
  BY <1>8 DEF EnterBounded
<1> QED
  BY <1>9, <1>10, <1>11, <1>12

\* The last service of a bounded graph.
LEMMA FinalStep == SliceInvariant /\ FinalService => SliceInvariant'
<1> SUFFICES ASSUME SliceInvariant, FinalService PROVE SliceInvariant'
  OBVIOUS
<1> USE Fields DEF SliceInvariant
<1>1. phase = "final" /\ phase' = "ran" /\ Serviced /\ UNCHANGED <<chain, ck, guest, host>>
  BY DEF FinalService
<1> DEFINE wrong == {<<"revalidate", "proof">>} \cup (IF Due THEN {<<"yielded", "callback">>} ELSE {})
           within == {<<IF run.status = "outside" THEN "outside" ELSE "max_steps", "limit">>}
           stands == {<<run.status, IF run.veto THEN run.stop ELSE "proof">>}
           verdicts ==
               IF run.terminal \/ run.status = "memory_fault" THEN {<<run.status, "executor">>}
               ELSE IF run.veto THEN (IF Due THEN wrong ELSE wrong \cup stands)
               ELSE IF run.status = "revalidate" THEN stands
               ELSE IF Due THEN wrong ELSE wrong \cup within
           irq == IF run.veto /\ ~Due THEN run.irq ELSE Due
           stops == {"none", "executor", "callback", "proof", "steps", "visits", "outside", "limit"}
<1>2. run \in Runs /\ run.stop \in stops /\ run.irq \in BOOLEAN /\ run.visits \in Int
  BY DEF SliceTypes, Runs
<1>3. PICK v \in verdicts :
        run' = [run EXCEPT !.charged = run.steps, !.visits = Visits, !.status = v[1], !.stop = v[2],
                           !.irq = IF run.veto /\ ~Due THEN @ ELSE Due]
  BY Zenon DEF FinalService
<1>4. v[1] \in Statuses /\ v[2] \in stops /\ (run.status = "memory_fault" => v[1] = run.status)
  <2>1. \A w \in wrong \cup within \cup stands \cup {<<run.status, "executor">>} : w[1] \in Statuses /\ w[2] \in stops
    BY <1>2 DEF Statuses
  <2>2. verdicts \subseteq wrong \cup within \cup stands \cup {<<run.status, "executor">>}
    OBVIOUS
  <2>3. run.status = "memory_fault" => v = <<run.status, "executor">>
    BY <1>3
  <2> QED
    BY <1>3, <2>1, <2>2, <2>3
<1>5. irq \in BOOLEAN /\ (irq \/ ~Due)
  BY <1>2 DEF Due
<1>6. Visits \in Int
  BY <1>2 DEF Visits
<1>7. run' = [run EXCEPT !.charged = run.steps, !.visits = Visits, !.status = v[1], !.stop = v[2], !.irq = irq]
  BY <1>2, <1>3, Zenon DEF Runs
<1> HIDE DEF irq, verdicts, wrong, within, stands
<1>8. /\ run' \in Runs /\ run'.engine = run.engine /\ run'.steps = run.steps /\ run'.limit = run.limit
      /\ run'.charged = run.steps /\ run'.status = v[1] /\ run'.irq = irq
  <2>1. run.steps \in Nat
    OBVIOUS
  <2> QED
    BY <1>2, <1>4, <1>5, <1>6, <1>7, <2>1, Zenon DEF Runs
<1>9. run'.status = run.status \/ guest.faults = 0
  <2>1. guest.faults = 1 => run.status = "memory_fault"
    BY <1>1 DEF FaultsEnd
  <2> QED
    BY <1>4, <1>8, <2>1
<1> QED
  BY <1>1, <1>5, <1>8, <1>9, GraphEnds

-----------------------------------------------------------------------------
(* The theorems.                                                           *)

\* No step of the slice leaves the invariant.
LEMMA SliceStays == SliceInvariant /\ [SliceNext]_sliceVars => SliceInvariant'
<1> SUFFICES ASSUME SliceInvariant, [SliceNext]_sliceVars PROVE SliceInvariant'
  OBVIOUS
<1>1. CASE LoopHead \/ Select \/ CheckpointBefore \/ Dispatch
  BY <1>1, HeadStep, SelectStep, CheckpointStep, DispatchStep
<1>2. CASE StepC \/ BoundaryC \/ StepAssembly
  BY <1>2, InterpreterStep, InterpreterBoundary, AssemblyStep
<1>3. CASE ServiceGraph \/ StepMember
  BY <1>3, ServiceStep, MemberStep
<1>4. CASE EnterBounded \/ Gate \/ StepBounded \/ BeforeHelper \/ Helper \/ FinalService
  BY <1>4, EnterStep, GateStep, BoundedStep, BeforeHelperStep, HelperStep, FinalStep
<1>5. CASE Account \/ Report \/ Finish
  BY <1>5, AccountStep, ReportStep, FinishStep
<1>6. CASE UNCHANGED sliceVars
  <2>1. UNCHANGED <<phase, chain, ck, guest, timer, host, run>>
    BY <1>6 DEF sliceVars
  <2>2. SliceTypes' /\ Accounts' /\ FaultsEnd' /\ Clock' /\ Within' /\ MaskKnown'
    BY <2>1 DEF SliceInvariant, SliceTypes, Accounts, FaultsEnd, Clock, Within, MaskKnown
  <2>3. SystemBlock' /\ EngineFits' /\ Prompt' /\ GraphsInTime'
    BY <2>1 DEF SliceInvariant, SystemBlock, HostCheckpoint, Ends, EngineFits, Prompt, Quiet, GraphsInTime, InTime
  <2> QED
    BY <2>2, <2>3 DEF SliceInvariant
<1> QED
  BY <1>1, <1>2, <1>3, <1>4, <1>5, <1>6 DEF SliceNext

\* In every reachable state the slice satisfies the inductive invariant.
THEOREM SliceIsInductive == SliceSpec => []SliceInvariant
  BY SliceBegins, SliceStays, PTL DEF SliceSpec

\* The state of a slice is well typed.
THEOREM SliceIsWellTyped == SliceSpec => []SliceTypes
<1>1. SliceInvariant => SliceTypes
  BY DEF SliceInvariant
<1> QED
  BY <1>1, SliceIsInductive, PTL

\* The totals of the guest, the timer and the host agree whenever the loop
\* starts a round and when it has ended.
LEMMA StepsAreAccounted == SliceInvariant => StepsAccountedOnce
<1> SUFFICES ASSUME SliceInvariant PROVE StepsAccountedOnce
  OBVIOUS
<1> USE Fields DEF SliceInvariant
<1>1. phase = "head" => phase \notin Running /\ phase \notin Ending
  BY DEF Running, Ending
<1>2. phase = "done" => phase \notin Running /\ phase \in Ending
  BY DEF Running, Ending
<1> QED
  BY <1>1, <1>2 DEF Accounts, StepsAccountedOnce

\* What the host knows when an instruction of the C interpreter calls it.
LEMMA HostStaysCurrent == SliceInvariant => HostIsCurrent
<1> SUFFICES ASSUME SliceInvariant, phase = "step", run.engine = "c", run.steps < run.limit, Kind \in {"sys", "wfi"}
             PROVE  host.masked = guest.masked /\ host.total = guest.retired - run.steps
  BY DEF HostIsCurrent
<1> USE Fields DEF SliceInvariant
<1>1. guest.at \in 1..Len(Code[guest.block])
  BY DEF SliceTypes
<1>2. Code[guest.block][guest.at] \in Terminators
  BY DEF Kind, Terminators
<1>3. guest.at = Len(Code[guest.block])
  BY <1>1, <1>2, CodeEnds
<1>4. HostCheckpoint(run.block)
  BY <1>3 DEF HostCheckpoint, Ends, Kind, SystemBlock
<1>5. ck.steps = 0 /\ host.masked = guest.masked
  BY <1>4 DEF SystemBlock
<1>6. phase \in Running /\ phase \notin Ending
  BY DEF Running, Ending
<1> QED
  BY <1>5, <1>6 DEF Accounts

\* No graph passes the timer's deadline, and no round starts with an
\* interrupt due.
LEMMA InterruptsAreOnTime == SliceInvariant => InterruptsOnTime
<1> SUFFICES ASSUME SliceInvariant PROVE InterruptsOnTime
  OBVIOUS
<1> USE Fields DEF SliceInvariant
<1>1. ASSUME phase \in {"member", "gate", "helper", "final"}
      PROVE  /\ ~timer.live /\ ~guest.masked => timer.charged + Delta <= timer.compare
             /\ timer.live /\ run.engine = "bounded" => timer.since + Delta <= Poll
  <2>1. PICK end \in Int : run.steps <= end /\ InTime(end)
    <3>1. run.engine \in Graphs /\ (run.engine = "graph" => phase = "member")
      BY <1>1 DEF EngineFits
    <3>2. CASE run.engine = "graph"
      BY <3>1, <3>2 DEF GraphsInTime
    <3>3. CASE run.engine = "bounded"
      <4>1. phase \in Running
        BY <1>1 DEF Running
      <4> QED
        BY <1>1, <3>3, <4>1 DEF GraphsInTime, Within
    <3> QED
      BY <3>1, <3>2, <3>3 DEF Graphs
  <2>2. Delta = run.steps - run.charged
    BY DEF Delta
  <2> QED
    BY <2>1, <2>2, Constants DEF InTime
<1>2. phase = "head" /\ chain.steps > 0 => guest.masked \/ ~timer.fired
  BY DEF Prompt, Quiet
<1> QED
  BY <1>1, <1>2 DEF InterruptsOnTime

\* No engine passes the slice's budget of steps or the host's allowance.
LEMMA BudgetsStayKept == SliceInvariant => BudgetsAreKept
<1> SUFFICES ASSUME SliceInvariant PROVE BudgetsAreKept
  OBVIOUS
<1> USE Fields DEF SliceInvariant
<1>1. CASE phase \in Running
  <2>1. phase \notin Ending
    BY <1>1 DEF Running, Ending
  <2> QED
    BY <1>1, <2>1, Constants DEF Accounts, Within, BudgetsAreKept
<1>2. CASE phase \in Looping
  <2>1. phase \notin Running
    BY <1>2 DEF Running, Looping
  <2> QED
    BY <1>2, <2>1, Constants DEF Accounts, Within, BudgetsAreKept
<1>3. CASE phase \in Ending
  <2>1. phase \notin Running /\ phase \in {"finish", "done"}
    BY <1>3 DEF Running, Ending
  <2> QED
    BY <2>1, Constants DEF Accounts, Within, BudgetsAreKept
<1> QED
  BY <1>1, <1>2, <1>3 DEF SliceTypes

\* avz_native_chain and its graphs: whichever engines run, every retired
\* instruction is charged and reported once, the host is current when an
\* instruction calls it, no graph passes the timer's deadline, and no engine
\* passes a budget.
THEOREM SliceAccountsHold == SliceSpec => []SliceAccounts
<1>1. SliceInvariant => SliceAccounts
  BY StepsAreAccounted, HostStaysCurrent, InterruptsAreOnTime, BudgetsStayKept DEF SliceAccounts
<1> QED
  BY <1>1, SliceIsInductive, PTL

-----------------------------------------------------------------------------
(* Results.  It does not matter which engine, or which host, executes an   *)
(* instruction.  A modulus is twice a number H, the weight of the sign     *)
(* bit.                                                                    *)

\* A number within one modulus of the range is brought into it by one step.
LEMMA ModStep ==
    ASSUME NEW N \in Nat, N > 0, NEW y \in Int
    PROVE  /\ y \in 0..(N - 1) => y % N = y
           /\ y \in N..(2 * N - 1) => y % N = y - N
           /\ y \in (-N)..(-1) => y % N = y + N
  <1>1. y \in 0..(N - 1) => y % N = y
    BY SMT
  <1>2. y \in N..(2 * N - 1) => y % N = y - N
    BY SMT
  <1>3. y \in (-N)..(-1) => y % N = y + N
    BY SMT
  <1> QED BY <1>1, <1>2, <1>3

\* Multiples of the modulus vanish.
LEMMA Remainder ==
    ASSUME NEW N \in Nat, N > 0, NEW q \in Int, NEW r \in 0..(N - 1)
    PROVE  (N * q + r) % N = r
  BY SMT

\* op_add_sub_immediate, which derives the flags from the operands and the
\* result, agrees with add_with_carry_nzcv on the complemented operand.
THEOREM DirectSumIsExact ==
    ASSUME NEW H \in Nat, H > 0, NEW a \in 0..(2 * H - 1), NEW b \in 0..(2 * H - 1),
           NEW subtract \in BOOLEAN
    PROVE  DirectSum(a, b, subtract, 2 * H)
             = AddWithCarry(a, Complement(b, subtract, 2 * H), CarryIn(subtract), 2 * H)
  <1> DEFINE N == 2 * H
             c == Complement(b, subtract, N)
             k == CarryIn(subtract)
             d == (IF subtract THEN a - b ELSE a + b) % N
             direct == Negative(a, N) # Negative(d, N)
                         /\ (Negative(a, N) = Negative(b, N)) # subtract
             carried == Negative(a, N) = Negative(c, N) /\ Negative(a, N) # Negative(d, N)
  <1>1. N \in Nat /\ N > 0 /\ c \in 0..(N - 1) /\ k \in {0, 1}
    BY DEF Complement, CarryIn
  <1>2. (a + c + k) % N = d
    <2>1. CASE subtract
      BY <2>1, ModStep DEF Complement, CarryIn
    <2>2. CASE ~subtract
      BY <2>2 DEF Complement, CarryIn
    <2> QED BY <2>1, <2>2
  <1>3. d \in 0..(N - 1)
    BY <1>1
  <1>4. (IF subtract THEN a >= b ELSE d < a) = (a + c + k >= N)
    <2>1. CASE subtract
      BY <1>1, <2>1 DEF Complement, CarryIn
    <2>2. CASE ~subtract
      <3>1. a + b < N => d = a + b
        BY <1>1, <2>2, ModStep
      <3>2. a + b >= N => d = a + b - N
        BY <1>1, <2>2, ModStep
      <3> QED BY <1>1, <2>2, <3>1, <3>2 DEF Complement, CarryIn
    <2> QED BY <2>1, <2>2
  <1>5. direct = carried
    <2>1. Negative(c, N) <=> (Negative(b, N) # subtract)
      BY DEF Complement, Negative
    <2> QED BY <2>1 DEF Negative
  <1>6. DirectSum(a, b, subtract, N) = Sum(d, IF subtract THEN a >= b ELSE d < a, direct, N)
    BY Zenon DEF DirectSum
  <1>7. AddWithCarry(a, c, k, N) = Sum(d, a + c + k >= N, carried, N)
    BY <1>2, Zenon DEF AddWithCarry
  <1>8. DirectSum(a, b, subtract, N) = AddWithCarry(a, c, k, N)
    <2> HIDE DEF N, c, k, d, direct, carried
    <2> QED BY <1>4, <1>5, <1>6, <1>7
  <1> QED BY <1>8

\* The portable and the vector form of an unsigned saturating addition or
\* subtraction give the same element and the same sticky bit.
THEOREM UnsignedSaturationsAgree ==
    ASSUME NEW N \in Nat, N > 0, NEW a \in 0..(N - 1), NEW b \in 0..(N - 1),
           NEW subtract \in BOOLEAN
    PROVE  GuardedUnsigned(a, b, subtract, N) = ComparedUnsigned(a, b, subtract, N)
  <1> DEFINE e == Exact(a, b, subtract)
  <1>1. e \in Int /\ e >= -N /\ e < 2 * N
    BY DEF Exact
  <1>2. CASE e \in 0..(N - 1)
    <2>1. e % N = e /\ Clamp(e, 0, N - 1) = e
      BY <1>2, ModStep DEF Clamp
    <2>2. ComparedUnsigned(a, b, subtract, N) = Saturation(e, FALSE)
      BY <2>1 DEF ComparedUnsigned, Compared
    <2>3. GuardedUnsigned(a, b, subtract, N) = Saturation(e, FALSE)
      <3>1. CASE subtract
        <4>1. e = a - b /\ ~(a < b)
          BY <1>2, <3>1 DEF Exact
        <4> QED BY <3>1, <4>1 DEF GuardedUnsigned
      <3>2. CASE ~subtract
        <4>1. e = a + b /\ ~(a > (N - 1) - b)
          BY <1>2, <3>2 DEF Exact
        <4> QED BY <3>2, <4>1 DEF GuardedUnsigned
      <3> QED BY <3>1, <3>2
    <2> QED BY <2>2, <2>3
  <1>3. CASE e < 0
    <2>1. e % N = e + N /\ 0 % N = 0 /\ Clamp(e, 0, N - 1) = 0
      BY <1>1, <1>3, ModStep DEF Clamp
    <2>2. ComparedUnsigned(a, b, subtract, N) = Saturation(0, 0 # e + N)
      BY <2>1 DEF ComparedUnsigned, Compared
    <2>3. subtract /\ a < b /\ 0 # e + N
      BY <1>3 DEF Exact
    <2>4. GuardedUnsigned(a, b, subtract, N) = Saturation(0, TRUE)
      BY <2>3 DEF GuardedUnsigned
    <2> QED BY <2>2, <2>3, <2>4
  <1>4. CASE e >= N
    <2>1. e % N = e - N /\ (N - 1) % N = N - 1 /\ Clamp(e, 0, N - 1) = N - 1
      BY <1>1, <1>4, ModStep DEF Clamp
    <2>2. ComparedUnsigned(a, b, subtract, N) = Saturation(N - 1, N - 1 # e - N)
      BY <2>1 DEF ComparedUnsigned, Compared
    <2>3. ~subtract /\ a > (N - 1) - b /\ N - 1 # e - N
      BY <1>4 DEF Exact
    <2>4. GuardedUnsigned(a, b, subtract, N) = Saturation(N - 1, TRUE)
      BY <2>3 DEF GuardedUnsigned
    <2> QED BY <2>2, <2>3, <2>4
  <1> QED BY <1>1, <1>2, <1>3, <1>4

\* What the signed forms are about: numbers between the two extremes.
LEMMA SignedRange ==
    ASSUME NEW H \in Nat, H > 0, NEW a \in 0..(2 * H - 1)
    PROVE  Signed(a, 2 * H) \in (-H)..(H - 1)
  BY DEF Signed, Negative

\* Every guard of the portable form is true exactly when the sum, formed
\* without a limit, leaves the range: none of its own sums can overflow.
THEOREM SignedSaturationsAgree ==
    ASSUME NEW H \in Nat, H > 0, NEW a \in 0..(2 * H - 1), NEW b \in 0..(2 * H - 1),
           NEW subtract \in BOOLEAN
    PROVE  GuardedSigned(a, b, subtract, 2 * H) = ComparedSigned(a, b, subtract, 2 * H)
  <1> DEFINE N == 2 * H
             x == Signed(a, N)
             y == Signed(b, N)
             e == Exact(x, y, subtract)
             guarded == GuardedSigned(a, b, subtract, N)
             compared == ComparedSigned(a, b, subtract, N)
  <1>1. x \in (-H)..(H - 1) /\ y \in (-H)..(H - 1)
    BY SignedRange
  <1>2. N \in Nat /\ N > 0 /\ N \div 2 = H
    OBVIOUS
  <1>3. e \in Int /\ e >= -N /\ e < N
    BY <1>1 DEF Exact
  <1>4. compared = Compared(Clamp(e, -H, H - 1), e, N)
    BY <1>2, Zenon DEF ComparedSigned
  <1>5. guarded = IF subtract
                  THEN IF y < 0 /\ x > (H - 1) + y THEN Saturation((H - 1) % N, TRUE)
                       ELSE IF y > 0 /\ x < -H + y THEN Saturation((-H) % N, TRUE)
                       ELSE Saturation((x - y) % N, FALSE)
                  ELSE IF y > 0 /\ x > (H - 1) - y THEN Saturation((H - 1) % N, TRUE)
                       ELSE IF y < 0 /\ x < -H - y THEN Saturation((-H) % N, TRUE)
                       ELSE Saturation((x + y) % N, FALSE)
    BY <1>2, Zenon DEF GuardedSigned
  <1>6. (H - 1) % N = H - 1 /\ (-H) % N = H
    BY <1>2, ModStep
  <1> HIDE DEF x, y, guarded, compared
  <1>7. CASE e \in (-H)..(H - 1)
    <2>1. compared = Saturation(e % N, FALSE)
      <3>1. Clamp(e, -H, H - 1) = e
        BY <1>7 DEF Clamp
      <3> QED BY <1>4, <3>1, Zenon DEF Compared
    <2>2. guarded = Saturation(e % N, FALSE)
      <3>1. CASE subtract
        <4>1. e = x - y /\ ~(y < 0 /\ x > (H - 1) + y) /\ ~(y > 0 /\ x < -H + y)
          BY <1>1, <1>7, <3>1 DEF Exact
        <4> QED BY <1>5, <1>6, <3>1, <4>1, Zenon
      <3>2. CASE ~subtract
        <4>1. e = x + y /\ ~(y > 0 /\ x > (H - 1) - y) /\ ~(y < 0 /\ x < -H - y)
          BY <1>1, <1>7, <3>2 DEF Exact
        <4> QED BY <1>5, <1>6, <3>2, <4>1, Zenon
      <3> QED BY <3>1, <3>2
    <2> QED BY <2>1, <2>2 DEF guarded, compared
  <1>8. CASE e > H - 1
    <2>1. compared = Saturation(H - 1, TRUE)
      <3>1. Clamp(e, -H, H - 1) = H - 1
        BY <1>3, <1>8 DEF Clamp
      <3>2. H - 1 # e % N
        BY <1>2, <1>3, <1>8, ModStep
      <3> QED BY <1>4, <1>6, <3>1, <3>2 DEF Compared
    <2>2. guarded = Saturation(H - 1, TRUE)
      <3>1. CASE subtract
        <4>1. y < 0 /\ x > (H - 1) + y
          BY <1>1, <1>8, <3>1 DEF Exact
        <4> QED BY <1>5, <1>6, <3>1, <4>1, Zenon
      <3>2. CASE ~subtract
        <4>1. y > 0 /\ x > (H - 1) - y
          BY <1>1, <1>8, <3>2 DEF Exact
        <4> QED BY <1>5, <1>6, <3>2, <4>1, Zenon
      <3> QED BY <3>1, <3>2
    <2> QED BY <2>1, <2>2 DEF guarded, compared
  <1>9. CASE e < -H
    <2>1. compared = Saturation(H, TRUE)
      <3>1. Clamp(e, -H, H - 1) = -H
        BY <1>3, <1>9 DEF Clamp
      <3>2. e % N = e + N
        BY <1>2, <1>3, <1>9, ModStep
      <3>3. H # e % N
        BY <1>9, <1>3, <3>2
      <3> QED BY <1>4, <1>6, <3>1, <3>3 DEF Compared
    <2>2. guarded = Saturation(H, TRUE)
      <3>1. CASE subtract
        <4>1. ~(y < 0 /\ x > (H - 1) + y) /\ y > 0 /\ x < -H + y
          BY <1>1, <1>9, <3>1 DEF Exact
        <4> QED BY <1>5, <1>6, <3>1, <4>1, Zenon
      <3>2. CASE ~subtract
        <4>1. ~(y > 0 /\ x > (H - 1) - y) /\ y < 0 /\ x < -H - y
          BY <1>1, <1>9, <3>2 DEF Exact
        <4> QED BY <1>5, <1>6, <3>2, <4>1, Zenon
      <3> QED BY <3>1, <3>2
    <2> QED BY <2>1, <2>2 DEF guarded, compared
  <1> QED BY <1>3, <1>7, <1>8, <1>9

\* The truncating narrowings, SHRN (rounding 0) and RSHRN, of the portable and
\* of the vector executor: a rounding narrow that wraps at the source width keeps the same half as
\* one computed with a bit to spare: what wraps away is above that half.
THEOREM NarrowingsAgree ==
    ASSUME NEW K \in Nat, K > 0, NEW P \in Nat, P > 0,
           NEW v \in 0..((K * P) * (K * P) - 1), NEW rounding \in 0..P
    PROVE  WrappedNarrow(v, P, rounding, K * P) = WideNarrow(v, P, rounding, K * P)
  <1> DEFINE D == K * P
             w == v + rounding
  <1>1. D \in Nat /\ D > 0 /\ P <= D /\ D <= D * D
    BY SMT
  <1>2. w \in 0..(2 * (D * D) - 1)
    BY <1>1
  <1>3. CASE w < D * D
    BY <1>1, <1>2, <1>3, ModStep DEF WrappedNarrow, WideNarrow
  <1>4. CASE w >= D * D
    <2>1. w % (D * D) = w - D * D
      BY <1>1, <1>2, <1>4, ModStep
    <2>2. w - D * D < P /\ w - D * D >= 0
      BY <1>1, <1>4
    <2>3. (w - D * D) \div P = 0
      BY <2>2
    <2>4. w \div P = K * D
      BY <2>2, SMT
    <2>5. (K * D) % D = 0 /\ 0 % D = 0
      <3> HIDE DEF D
      <3>1. K * D = D * K + 0
        BY <1>1
      <3> QED BY <1>1, <3>1, Remainder
    <2> QED BY <2>1, <2>3, <2>4, <2>5 DEF WrappedNarrow, WideNarrow
  <1> QED BY <1>2, <1>3, <1>4
===============================================================================
