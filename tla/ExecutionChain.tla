---------------------------- MODULE ExecutionChain ----------------------------
(***************************************************************************)
(* One slice of native execution: the loop that selects a block, a trace   *)
(* or a graph of assembly programs, runs it within three budgets (steps,   *)
(* blocks, and what the host allows until its next checkpoint), charges    *)
(* the steps to the guest's timer and reports them to the host.  How a     *)
(* block is found and kept current is BlockCache; here a selection may     *)
(* fail, and a proof may be lost at any boundary.                          *)
(***************************************************************************)
EXTENDS Integers, Sequences, FiniteSets, FiniteSetsExt

CONSTANTS
    Code,           \* per block: the kinds of its instructions, in order
    Succ,           \* per block: where its last instruction can lead
    Joined,         \* the blocks a graph joins
    First,          \* the block execution starts with
    MaxSteps, MaxBlocks, Interval,     \* the slice's budgets
    Limits,         \* what the host may allow until the next checkpoint
    MaxTrace,       \* blocks of a trace
    Deadlines,      \* when the guest's timer fires, in instructions
    Poll            \* instructions between two looks at the host's clock

VARIABLES
    phase,
    chain,          \* AVZNativeChainResult: steps, blocks, status
    ck,             \* steps and blocks since the last checkpoint, its limit
    guest,          \* position, interrupt mask, halted, retired instructions
    timer,          \* steps charged, and whether the compare value was reached
    host,           \* what the checkpoints told the host
    run             \* the block, trace or graph that is running

sliceVars == <<phase, chain, ck, guest, timer, host, run>>

Blocks == DOMAIN Code
Plain == {"alu", "slow", "code", "fault"}
Terminators == {"svc", "sys", "wfi"}

\* Only a terminator leaves the linear order, so a barrier is an end.
Ends(b) == Code[b][Len(Code[b])]
ChainBarrier(b) == Ends(b) \in Terminators
HostCheckpoint(b) == Ends(b) \in {"sys", "wfi"}
\* A decoded block holds an instruction at least and ends at its first
\* terminator; one that calls the host goes on behind it, and no barrier is
\* joined to a graph.
CodeIsWellFormed ==
    \A b \in Blocks :
        /\ Code[b] \in Seq(Plain \cup Terminators) \ {<<>>}
        /\ \A i \in 1..Len(Code[b]) - 1 : Code[b][i] \in Plain
        /\ Succ[b] \in (SUBSET Blocks) \ {{}}
        /\ HostCheckpoint(b) => b \notin Succ[b]
        /\ ChainBarrier(b) => b \notin Joined
ASSUME ChainAssumption ==
    /\ CodeIsWellFormed /\ First \in Blocks
    /\ {MaxSteps, MaxBlocks, Interval, MaxTrace} \cup Limits \cup Deadlines \subseteq Nat
    /\ Poll \in Nat \ {0}

Idle == [engine |-> "none", block |-> First, steps |-> 0, limit |-> 0, allowed |-> 0, visits |-> 0, maxVisits |-> 0, charged |-> 0,
         status |-> "outside", stop |-> "none", irq |-> FALSE, terminal |-> FALSE, veto |-> FALSE, enteredAt |-> 0]

SliceInit ==
    /\ phase = "head"
    /\ chain = [steps |-> 0, blocks |-> 0, status |-> "outside"]
    /\ \E l \in Limits : ck = [steps |-> 0, blocks |-> 0, limit |-> l]
    /\ guest = [block |-> First, at |-> 1, masked |-> FALSE, halted |-> FALSE, retired |-> 0, faults |-> 0]
    /\ \E d \in Deadlines, live \in BOOLEAN :
           timer = [charged |-> 0, compare |-> d, live |-> live, since |-> 0, fired |-> ~live /\ d = 0]
    /\ host = [total |-> 0, masked |-> FALSE]
    /\ run = Idle
-----------------------------------------------------------------------------
\* avz_native_memory_fast_path_advance_time: one tick for an instruction, or
\* the host's clock, which is read only once in a while.
AdvanceTime(steps) ==
    LET since == timer.since + steps
        charged == [timer EXCEPT !.charged = @ + steps]
    IN IF ~timer.live THEN timer' = [charged EXCEPT !.fired = charged.charged >= timer.compare]
       ELSE IF since < Poll THEN timer' = [charged EXCEPT !.since = since]
       ELSE \E passed \in {timer.fired, TRUE} : timer' = [charged EXCEPT !.since = 0, !.fired = passed]
Due == ~guest.masked /\ timer'.fired

\* The host's checkpoint: it learns the steps and the interrupt mask, and
\* answers how far to go, 0 to stop.
Checkpoint ==
    /\ host' = [total |-> host.total + ck.steps + guest.faults, masked |-> guest.masked]
    /\ guest' = [guest EXCEPT !.faults = 0]
    /\ \E answer \in (IF host'.total < MaxSteps /\ guest.faults = 0 THEN {0} \cup Limits ELSE {0}) :
           ck' = [steps |-> 0, blocks |-> 0, limit |-> answer]

\* The loop's condition and its first check.
LoopHead ==
    /\ phase = "head"
    /\ IF chain.steps < MaxSteps /\ chain.blocks < MaxBlocks /\ ~guest.halted
       THEN phase' = "select" /\ UNCHANGED chain
       ELSE /\ phase' = "finish"
            /\ chain' = IF chain.steps < MaxSteps /\ chain.blocks < MaxBlocks
                        THEN [chain EXCEPT !.status = "halted"] ELSE chain
    /\ UNCHANGED <<ck, guest, timer, host, run>>

\* Selection.  A trace holds no barrier; a graph replaces only what it joins.
Engines(b) ==
    {"c"} \cup (IF ChainBarrier(b) THEN {} ELSE {"assembly", "trace"})
        \cup (IF b \in Joined THEN {"graph", "bounded"} ELSE {})
Select ==
    /\ phase = "select"
    /\ \/ /\ \E status \in {"unsupported", "outside"} : chain' = [chain EXCEPT !.status = status]
          /\ phase' = "finish"
          /\ UNCHANGED run
       \/ /\ \E e \in Engines(guest.block) : run' = [Idle EXCEPT !.engine = e, !.block = guest.block]
          /\ phase' = "chosen"
          /\ UNCHANGED chain
    /\ UNCHANGED <<ck, guest, timer, host>>

\* Mutant of Early: system instructions run without a checkpoint before them.
EarlyWhenSpent == ck.limit <= ck.steps

\* A checkpoint before the selection may run: an instruction of the block
\* calls the host, or the host's allowance is spent.  What was selected may
\* be gone after it: the loop starts over.
Early == (run.engine # "trace" /\ HostCheckpoint(guest.block) /\ ck.steps # 0) \/ ck.limit <= ck.steps

CheckpointBefore ==
    /\ phase = "chosen" /\ Early
    /\ Checkpoint
    /\ phase' = IF ck'.limit = 0 THEN "finish" ELSE "head"
    /\ UNCHANGED <<chain, timer, run>>

Least(a, b) == IF a < b THEN a ELSE b
\* Steps and blocks that are left, of the slice and of the host's allowance.
StepsLeft == Least(ck.limit - ck.steps, MaxSteps - chain.steps)
BlocksLeft == Least(MaxBlocks - chain.blocks, IF Interval > ck.blocks THEN Interval - ck.blocks ELSE 1)
Dispatch ==
    /\ phase = "chosen" /\ ~Early
    /\ run' = [run EXCEPT !.limit = StepsLeft, !.visits = IF run.engine \in {"c", "assembly", "trace"} THEN 1 ELSE 0,
                          !.maxVisits = IF run.engine = "trace" THEN Least(BlocksLeft, MaxTrace) ELSE BlocksLeft]
    /\ phase' = IF run.engine \in {"graph", "bounded"} THEN "service" ELSE "step"
    /\ UNCHANGED <<chain, ck, guest, timer, host>>
-----------------------------------------------------------------------------
(* Instructions.                                                           *)

Kind == Code[guest.block][guest.at]
AtEnd == guest.at = Len(Code[guest.block])
Retire(masked, halted) ==
    \E b \in (IF AtEnd THEN Succ[guest.block] ELSE {guest.block}) :
        guest' = [guest EXCEPT !.block = b, !.at = IF AtEnd THEN 1 ELSE @ + 1, !.masked = masked, !.halted = halted,
                               !.retired = @ + 1]
RunTo(status) == run' = [run EXCEPT !.status = status, !.stop = "executor"]
Retired(status) == run' = [run EXCEPT !.steps = @ + 1, !.status = status, !.stop = "executor"]
Faulted == [guest EXCEPT !.faults = 1]

\* The C interpreter, on a block or a trace; a system instruction may set or
\* clear the interrupt mask, an exception sets it.  An outdated block ends.
StepC ==
    /\ phase = "step" /\ run.engine \in {"c", "trace"}
    /\ \/ /\ run.steps < run.limit /\ Kind \in {"alu", "slow", "code"}
          /\ Retire(guest.masked, FALSE)
          /\ run' = [run EXCEPT !.steps = @ + 1]
          /\ phase' = IF AtEnd THEN "boundary" ELSE "step"
       \/ /\ run.steps < run.limit /\ Kind = "svc"
          /\ Retire(TRUE, FALSE)
          /\ run' = [run EXCEPT !.steps = @ + 1]
          /\ phase' = "boundary"
       \/ /\ run.steps < run.limit /\ Kind = "sys"
          /\ \E masked \in BOOLEAN : Retire(masked, FALSE)
          /\ run' = [run EXCEPT !.steps = @ + 1]
          /\ phase' = "boundary"
       \/ /\ run.steps < run.limit /\ Kind = "wfi"
          /\ Retire(guest.masked, TRUE)
          /\ Retired("halted")
          /\ phase' = "ran"
       \/ /\ run.steps < run.limit /\ Kind = "fault"
          /\ guest' = Faulted
          /\ RunTo("unsupported")
          /\ phase' = "ran"
       \/ /\ run.steps >= run.limit
          /\ RunTo("max_steps")
          /\ phase' = "ran"
          /\ UNCHANGED guest
    /\ UNCHANGED <<chain, ck, timer, host>>
\* After the last instruction: a block goes on while it leads to itself, a
\* trace while its next member is reached and within the budget of blocks.
BoundaryC ==
    /\ phase = "boundary"
    /\ \/ /\ run.steps >= run.limit \/ (run.engine = "c" /\ guest.block = run.block)
          /\ phase' = "step"
          /\ UNCHANGED run
       \/ /\ run.engine = "trace" /\ run.visits < run.maxVisits /\ ~ChainBarrier(guest.block)
          /\ run.steps < run.limit
          /\ run' = [run EXCEPT !.visits = @ + 1]
          /\ phase' = "step"
       \/ /\ RunTo("outside")
          /\ phase' = "ran"
    /\ UNCHANGED <<chain, ck, guest, timer, host>>

\* A single assembly program: an access that needs C retires and returns.
StepAssembly ==
    /\ phase = "step" /\ run.engine = "assembly"
    /\ \/ /\ run.steps < run.limit /\ Kind = "alu"
          /\ Retire(guest.masked, FALSE)
          /\ IF AtEnd THEN Retired("outside") /\ phase' = "ran"
             ELSE run' = [run EXCEPT !.steps = @ + 1] /\ phase' = "step"
       \/ /\ run.steps < run.limit /\ Kind \in {"slow", "code"}
          /\ Retire(guest.masked, FALSE)
          /\ Retired("revalidate")
          /\ phase' = "ran"
       \/ /\ run.steps < run.limit /\ Kind = "fault"
          /\ guest' = Faulted
          /\ RunTo("memory_fault")
          /\ phase' = "ran"
       \/ /\ run.steps >= run.limit
          /\ RunTo("max_steps")
          /\ phase' = "ran"
          /\ UNCHANGED guest
    /\ UNCHANGED <<chain, ck, timer, host>>
-----------------------------------------------------------------------------
(* Graphs.  The service callback charges the timer with the steps since it *)
(* was last called and says how many may follow: none when an interrupt is *)
(* due, else those until the timer fires.                                  *)

Delta == run.steps - run.charged
Serviced == AdvanceTime(Delta)

\* Mutant of Allowance: the timer's deadline does not bound what follows.
Unlimited == MaxSteps

\* What may follow a service, from the timer it left; the bounded graph also
\* keeps to the interval at which the host's clock is read.
Allowance ==
    IF timer'.live THEN (IF run.engine = "bounded" THEN Poll - timer'.since ELSE MaxSteps)
    ELSE IF guest.masked THEN MaxSteps ELSE timer'.compare - timer'.charged
Stop(status, stop) ==
    /\ run' = [run EXCEPT !.charged = run.steps, !.status = status, !.stop = stop, !.irq = Due]
    /\ phase' = "ran"

\* service_boundary, the unbounded graph: before the first member and after
\* every member.  Its stops are tried in this order; a proof may be lost.
ServiceGraph ==
    /\ phase = "service" /\ run.engine = "graph"
    /\ Serviced
    /\ \/ /\ run.stop = "executor"
          /\ Stop(run.status, "executor")
       \/ /\ run.stop # "executor"
          /\ \/ Stop("revalidate", "proof")
             \/ Due /\ Stop("yielded", "callback")
             \/ /\ ~Due
                /\ \/ run.steps >= run.limit /\ Stop("max_steps", "steps")
                   \/ run.steps < run.limit /\ run.visits = run.maxVisits /\ Stop("max_steps", "visits")
                   \/ /\ run.steps < run.limit /\ run.visits < run.maxVisits /\ guest.block \notin Joined
                      /\ Stop("outside", "outside")
                   \/ /\ run.steps < run.limit /\ run.visits < run.maxVisits /\ guest.block \in Joined
                      /\ run' = [run EXCEPT !.charged = run.steps, !.visits = @ + 1, !.enteredAt = run.steps,
                                            !.allowed = Least(run.limit, run.steps + Allowance)]
                      /\ phase' = "member"
    /\ UNCHANGED <<chain, ck, guest, host>>

\* A visit of a member: a boundary follows its last instruction, the end of
\* its allowance, or an access that needs C.
StepMember ==
    /\ phase = "member" /\ run.engine = "graph"
    /\ \/ /\ run.steps < run.allowed /\ Kind = "alu"
          /\ Retire(guest.masked, FALSE)
          /\ run' = [run EXCEPT !.steps = @ + 1]
          /\ phase' = IF AtEnd \/ run.steps + 1 = run.allowed THEN "service" ELSE "member"
       \/ /\ run.steps < run.allowed /\ Kind \in {"slow", "code"}
          /\ Retire(guest.masked, FALSE)
          /\ Retired("revalidate")
          /\ phase' = "service"
       \/ /\ run.steps < run.allowed /\ Kind = "fault"
          /\ guest' = Faulted
          /\ RunTo("memory_fault")
          /\ phase' = "service"
       \/ /\ run.steps = run.enteredAt     \* a guard fails: not a visit
          /\ run' = [run EXCEPT !.visits = @ - 1, !.status = "revalidate", !.stop = "executor"]
          /\ phase' = "service"
          /\ UNCHANGED guest
    /\ UNCHANGED <<chain, ck, timer, host>>

\* The bounded graph: members follow each other without service; only an
\* access that needs C is serviced first, and can be refused.  Without memory
\* for its programs the root runs alone.
EnterBounded ==
    /\ phase = "service" /\ run.engine = "bounded" /\ run.stop = "none" /\ run.visits = 0
    /\ Serviced
    /\ \/ Due /\ Stop("yielded", "callback")
       \/ Stop("revalidate", "proof")
       \/ ~Due /\ run' = [run EXCEPT !.charged = run.steps, !.limit = Least(@, Allowance)] /\ phase' = "gate"
       \/ run' = [run EXCEPT !.engine = "assembly", !.visits = 1] /\ phase' = "step"
    /\ UNCHANGED <<chain, ck, guest, host>>
Gate ==
    /\ phase = "gate"
    /\ \/ /\ guest.block \in Joined /\ run.visits < run.maxVisits
          /\ run' = [run EXCEPT !.visits = @ + 1, !.enteredAt = run.steps]
          /\ phase' = "member"
       \/ /\ guest.block \notin Joined
          /\ run' = [run EXCEPT !.status = "outside"]
          /\ phase' = "final"
       \/ /\ guest.block \in Joined /\ run.visits = run.maxVisits
          /\ run' = [run EXCEPT !.status = "yielded"]
          /\ phase' = "final"
       \/ /\ run' = [run EXCEPT !.status = "revalidate"]
          /\ phase' = "final"
    /\ UNCHANGED <<chain, ck, guest, timer, host>>
StepBounded ==
    /\ phase = "member" /\ run.engine = "bounded"
    /\ \/ /\ run.steps < run.limit /\ Kind = "alu"
          /\ Retire(guest.masked, FALSE)
          /\ run' = [run EXCEPT !.steps = @ + 1]
          /\ phase' = IF AtEnd THEN "gate" ELSE "member"
       \/ /\ run.steps < run.limit /\ Kind = "code"
          /\ Retire(guest.masked, FALSE)
          /\ run' = [run EXCEPT !.steps = @ + 1, !.status = "revalidate", !.terminal = TRUE]
          /\ phase' = "final"
       \/ /\ run.steps < run.limit /\ Kind \in {"slow", "fault"}
          /\ phase' = "helper"
          /\ UNCHANGED <<guest, run>>
       \/ /\ run.steps >= run.limit
          /\ run' = [run EXCEPT !.status = "max_steps"]
          /\ phase' = "final"
          /\ UNCHANGED guest
    /\ UNCHANGED <<chain, ck, timer, host>>

\* ag_bounded_before_helper: nothing of the instruction has happened yet.
BeforeHelper ==
    /\ phase = "helper" /\ ~run.terminal
    /\ Serviced
    /\ \/ /\ \E lost \in {TRUE, ~Due} :
                run' = [run EXCEPT !.charged = run.steps, !.veto = TRUE, !.irq = Due,
                                   !.status = IF lost THEN "revalidate" ELSE "yielded",
                                   !.stop = IF lost THEN "proof" ELSE "callback"]
          /\ phase' = "final"
       \/ /\ ~Due
          /\ run' = [run EXCEPT !.charged = run.steps, !.terminal = TRUE]
          /\ UNCHANGED phase
    /\ UNCHANGED <<chain, ck, guest, host>>
Helper ==
    /\ phase = "helper" /\ run.terminal
    /\ \/ /\ Kind = "slow"
          /\ Retire(guest.masked, FALSE)
          /\ run' = [run EXCEPT !.steps = @ + 1, !.status = "revalidate"]
       \/ /\ Kind = "fault"
          /\ guest' = Faulted
          /\ run' = [run EXCEPT !.status = "memory_fault"]
    /\ phase' = "final"
    /\ UNCHANGED <<chain, ck, timer, host>>

\* A gate is a visit only once an instruction of its member retired or faulted.
Visits == IF run.visits # 0 /\ run.enteredAt = run.steps /\ run.status # "memory_fault" THEN run.visits - 1 ELSE run.visits

\* The last service: what the executor says stands, a refusal before it
\* stands unless something new went wrong, and then budgets decide.
FinalService ==
    /\ phase = "final"
    /\ Serviced
    /\ LET wrong == {<<"revalidate", "proof">>} \cup (IF Due THEN {<<"yielded", "callback">>} ELSE {})
           within == {<<IF run.status = "outside" THEN "outside" ELSE "max_steps", "limit">>}
           stands == {<<run.status, IF run.veto THEN run.stop ELSE "proof">>}
           verdicts ==
               IF run.terminal \/ run.status = "memory_fault" THEN {<<run.status, "executor">>}
               ELSE IF run.veto THEN (IF Due THEN wrong ELSE wrong \cup stands)
               ELSE IF run.status = "revalidate" THEN stands
               ELSE IF Due THEN wrong ELSE wrong \cup within
       IN \E v \in verdicts :
              run' = [run EXCEPT !.charged = run.steps, !.visits = Visits, !.status = v[1], !.stop = v[2],
                                 !.irq = IF run.veto /\ ~Due THEN @ ELSE Due]
    /\ phase' = "ran"
    /\ UNCHANGED <<chain, ck, guest, host>>
-----------------------------------------------------------------------------
(* After the run.                                                          *)

\* Mutant of Uncharged: a graph's steps are charged a second time.
AllSteps == run.steps

\* The steps the service callbacks have not charged yet.
Uncharged == run.steps - run.charged

\* The result is added up; the timer advances; a due interrupt ends the slice.
Account ==
    /\ phase = "ran"
    /\ AdvanceTime(Uncharged)
    /\ LET outcome == IF run.status = "revalidate" THEN "outside" ELSE run.status
           advanced == run.engine \notin {"graph", "bounded"} \/ Uncharged # 0
           irq == run.irq \/ (advanced /\ Due)
       IN chain' = [steps |-> chain.steps + run.steps, blocks |-> chain.blocks + run.visits,
                    status |-> IF irq /\ outcome \notin {"halted", "unsupported", "memory_fault"} THEN "yielded" ELSE outcome]
    /\ ck' = [ck EXCEPT !.steps = @ + run.steps, !.blocks = @ + run.visits]
    /\ phase' = "report"
    /\ UNCHANGED <<guest, host, run>>

EndsSlice == chain.status \in {"halted", "unsupported", "yielded", "memory_fault"} \/ run.steps = 0 \/ chain.steps >= MaxSteps
WasBarrier == run.engine # "trace" /\ HostCheckpoint(run.block)
MustCheckpoint ==
    \/ ck.steps >= ck.limit \/ ck.blocks >= Interval
    \/ run.status \in {"revalidate", "memory_fault"} \/ EndsSlice \/ WasBarrier
\* Mutant of Breaks: a run without progress does not end the slice.
BreaksOnStatus(answer) ==
    \/ chain.status \in {"halted", "unsupported", "yielded", "memory_fault"} \/ chain.steps >= MaxSteps
    \/ (MustCheckpoint /\ answer = 0) \/ (run.status # "max_steps" /\ WasBarrier)

Breaks(answer) ==
    \/ EndsSlice \/ (MustCheckpoint /\ answer = 0)
    \/ (run.status # "max_steps" /\ WasBarrier)
Report ==
    /\ phase = "report"
    /\ \/ /\ MustCheckpoint
          /\ Checkpoint
       \/ /\ ~MustCheckpoint
          /\ UNCHANGED <<host, ck, guest>>
    /\ phase' = IF Breaks(ck'.limit) THEN "finish" ELSE "head"
    /\ UNCHANGED <<chain, timer, run>>

\* What is left is reported when the loop ends.
Finish ==
    /\ phase = "finish"
    /\ \/ ck.steps # 0 /\ Checkpoint
       \/ ck.steps = 0 /\ UNCHANGED <<host, ck, guest>>
    /\ chain' = IF chain.steps >= MaxSteps /\ chain.status = "outside" THEN [chain EXCEPT !.status = "max_steps"] ELSE chain
    /\ phase' = "done"
    /\ UNCHANGED <<timer, run>>

SliceNext ==
    \/ LoopHead \/ Select \/ CheckpointBefore \/ Dispatch \/ StepC \/ BoundaryC \/ StepAssembly
    \/ ServiceGraph \/ StepMember \/ EnterBounded \/ Gate \/ StepBounded \/ BeforeHelper \/ Helper \/ FinalService
    \/ Account \/ Report \/ Finish

SliceSpec == SliceInit /\ [][SliceNext]_sliceVars /\ WF_sliceVars(SliceNext)
-----------------------------------------------------------------------------
(* Every instruction that retires is charged to the timer once and         *)
(* reported to the host once, whichever engines the slice went through.    *)
StepsAccountedOnce ==
    /\ phase \in {"head", "done"} => timer.charged = guest.retired /\ chain.steps = guest.retired
    /\ phase = "head" => host.total + ck.steps = guest.retired
    /\ phase = "done" => host.total \in {guest.retired, guest.retired + 1} /\ guest.faults = 0

(* When an instruction calls the host, the host knows the interrupt mask   *)
(* and every step before the block.                                        *)
HostIsCurrent ==
    phase = "step" /\ run.engine = "c" /\ run.steps < run.limit /\ Kind \in {"sys", "wfi"} =>
        host.masked = guest.masked /\ host.total = guest.retired - run.steps

(* A graph never runs past the instruction at which the timer fires while  *)
(* interrupts are enabled, a bounded one never past the next look at the   *)
(* host's clock, and no other dispatch starts once an interrupt is due.    *)
InterruptsOnTime ==
    /\ phase \in {"member", "gate", "helper", "final"} =>
           /\ ~timer.live /\ ~guest.masked => timer.charged + Delta <= timer.compare
           /\ timer.live /\ run.engine = "bounded" => timer.since + Delta <= Poll
    /\ phase = "head" /\ chain.steps > 0 => guest.masked \/ ~timer.fired

(* No slice runs further than its budget of steps, and none further than   *)
(* the host has allowed since it last looked.                              *)
BudgetsAreKept ==
    /\ guest.retired <= MaxSteps
    /\ phase \notin {"finish", "done"} => guest.retired <= host.total + ck.limit

(* Whichever engines a slice goes through, its steps are charged and        *)
(* reported once, the host is current when an instruction calls it, no graph *)
(* runs past the timer's deadline, and no engine past a budget.             *)
SliceAccounts == StepsAccountedOnce /\ HostIsCurrent /\ InterruptsOnTime /\ BudgetsAreKept

(* A slice ends: no round of the loop, and no refused graph, repeats       *)
(* without progress.                                                       *)
SliceEnds == <>(phase = "done")
=============================================================================
