------------------------------ MODULE WakeProofs ------------------------------
(***************************************************************************)
(* Who sleeps is woken: proofs about HostWake for any set of wait          *)
(* identifiers, any input queues and any bound on the signals, and about   *)
(* InterruptController and VCPUCluster for any set of virtual CPUs, any    *)
(* lines and any routes.  The runner never sleeps through input, traffic   *)
(* or an interrupt that has been signalled, and no worker of the cluster   *)
(* sleeps through an interrupt or on after it was told to stop.            *)
(***************************************************************************)
EXTENDS HostWake, VCPUCluster, SequenceTheorems, WellFoundedInduction, TLAPS

-----------------------------------------------------------------------------
(* The runner and its wake signal.                                         *)

\* The initial state satisfies the inductive invariant.
LEMMA InitWakes == Init => WakeInvariant
<1> SUFFICES ASSUME Init PROVE WakeInvariant
  OBVIOUS
<1>1. TypeOK
  <2>1. WaiterTypes
    BY DEF Init, WaiterInit, WaiterTypes
  <2>2. irq \in BOOLEAN /\ traffic \in BOOLEAN /\ pumping \in BOOLEAN /\ wfi \in BOOLEAN /\ idle \in BOOLEAN
    BY Zenon DEF Init
  <2>3. /\ generation \in Nat /\ pending \subseteq Inputs /\ observed \in Nat
        /\ toSignal \in [Producers -> 0..2] /\ pc \in Steps
    BY DEF Init, Steps
  <2> QED
    BY <2>1, <2>2, <2>3 DEF TypeOK
<1>2. ExactlyOneResumer
  BY DEF Init, WaiterInit, ExactlyOneResumer
<1>3. /\ wait = NoWait /\ ~suspended /\ pc = "loop" /\ waiters = {}
      /\ observed = 0 /\ generation = 0
  BY DEF Init, WaiterInit
<1> QED
  BY <1>1, <1>2, <1>3 DEF WakeInvariant, Decided

\* Every step preserves the inductive invariant, one step of the proof per
\* action.
LEMMA StepWakes == WakeInvariant /\ [Next]_vars => WakeInvariant'
<1> SUFFICES ASSUME WakeInvariant, [Next]_vars PROVE WakeInvariant'
  OBVIOUS
<1> USE NoWaitFresh
<1> USE DEF WakeInvariant, TypeOK, WaiterTypes, ExactlyOneResumer, Decided,
            SignalComing, Producers, Steps, waiterVars, hostVars, Goto
<1>1. ASSUME NEW k \in Inputs, QueueInput(k) PROVE WakeInvariant'
  BY <1>1 DEF QueueInput
<1>2. CASE RaiseInterrupt
  BY <1>2 DEF RaiseInterrupt
<1>3. CASE CommitFrame
  BY <1>3 DEF CommitFrame
<1>4. CASE ReceiveFrames
  BY <1>4 DEF ReceiveFrames
<1>5. CASE PumpFrames
  <2>1. PICK delivered \in BOOLEAN, open \in BOOLEAN :
          /\ irq' = (irq \/ delivered)
          /\ traffic' = (traffic /\ open)
          /\ toSignal' = [toSignal EXCEPT !["network"] = IF delivered THEN 2 ELSE 1]
    BY <1>5 DEF PumpFrames
  <2>2. irq' \in BOOLEAN /\ traffic' \in BOOLEAN
    BY <2>1, Zenon
  <2>3. toSignal' \in [Producers -> 0..2] /\ toSignal'["network"] > 0 /\ toSignal'["ui"] = toSignal["ui"]
    BY <2>1
  <2>4. UNCHANGED <<waiterVars, generation, pending, pc, wfi, observed, idle>> /\ pumping' = FALSE
    BY <1>5 DEF PumpFrames
  <2>5. TypeOK' /\ ExactlyOneResumer'
    BY <2>2, <2>3, <2>4
  <2>6. SignalComing' /\ toSignal'["ui"] = toSignal["ui"]
    BY <2>3
  <2> QED
    BY <2>4, <2>5, <2>6
<1>6. ASSUME NEW p \in Producers, Signal(p) PROVE WakeInvariant'
  BY <1>6 DEF Signal, TakeAll
<1>7. CASE BeginSlice
  BY <1>7 DEF BeginSlice
<1>8. CASE LeaveLoop
  BY <1>8 DEF LeaveLoop
<1>9. CASE EndSlice
  BY <1>9 DEF EndSlice
<1>10. CASE StopRunning
  BY <1>10 DEF StopRunning
<1>11. CASE ContinueBurst
  BY <1>11 DEF ContinueBurst
<1>12. CASE ObserveIdle
  BY <1>12 DEF ObserveIdle
<1>13. CASE CheckTraffic
  BY <1>13 DEF CheckTraffic
<1>14. CASE CheckInterrupts
  BY <1>14 DEF CheckInterrupts
<1>15. CASE ObservePacing
  <2>1. ~suspended /\ wait \notin waiters /\ pc = "pacing"
    BY <1>15 DEF ObservePacing
  <2>2. pc' \in {"pacingTraffic", "loop"} /\ (pc' = "pacingTraffic" => pending = {})
    BY <1>15 DEF ObservePacing
  <2>3. /\ observed' = generation /\ ~idle' /\ idle' \in BOOLEAN
        /\ UNCHANGED <<waiterVars, generation, pending, irq, traffic, toSignal, pumping, wfi>>
    BY <1>15, Zenon DEF ObservePacing
  <2> QED
    BY <2>1, <2>2, <2>3
<1>16. CASE CheckPacingTraffic
  <2>1. pc = "pacingTraffic" /\ ~suspended /\ wait \notin waiters
    BY <1>16 DEF CheckPacingTraffic
  <2>2. pc' \in {"enter", "loop"}
    BY <1>16 DEF CheckPacingTraffic
  <2>3. UNCHANGED <<waiterVars, generation, pending, irq, traffic, toSignal, pumping, wfi, observed, idle>>
    BY <1>16 DEF CheckPacingTraffic
  <2> QED
    BY <2>1, <2>2, <2>3
<1>17. CASE EnterWait
  BY <1>17 DEF EnterWait, BeginWait
<1>18. CASE Register
  <2>1. /\ pc = "register" /\ pc' = "waiting" /\ wait \in WaitIds
        /\ ~suspended /\ waiters = {}
        /\ UNCHANGED <<generation, pending, irq, traffic, toSignal, pumping, wfi, observed, idle>>
    BY <1>18 DEF Register
  <2>2. CASE generation = observed /\ Store(TRUE)
    <3>1. /\ waiters' = {wait} /\ suspended' /\ suspended' \in BOOLEAN
          /\ timers' \subseteq WaitIds
          /\ UNCHANGED <<hands, wait, cancelled, onCancel>>
      BY <2>1, <2>2 DEF Store
    <3> QED
      BY <2>1, <2>2, <3>1
  <2>3. CASE UNCHANGED waiterVars
    BY <2>1, <2>3
  <2> QED
    BY <1>18, <2>2, <2>3 DEF Register
<1>19. CASE LeaveWait
  BY <1>19 DEF LeaveWait, EndWait
<1>20. CASE StopRequested
  BY <1>20 DEF StopRequested, Cancel
<1>21. ASSUME NEW id \in WaitIds, CancelHandler(id) PROVE WakeInvariant'
  BY <1>21 DEF CancelHandler, RunCancelHandler, Take
<1>22. ASSUME NEW id \in WaitIds, Timeout(id) PROVE WakeInvariant'
  BY <1>22 DEF Timeout, TimeoutFires, Take
<1>23. ASSUME NEW id \in WaitIds, ResumeTask(id) PROVE WakeInvariant'
  <2>1. hands[id] > 0 /\ suspended
    BY <1>23 DEF ResumeTask, Resume
  <2>2. id = wait /\ hands[wait] = 1 /\ waiters = {}
    BY <2>1
  <2>3. /\ hands' = [hands EXCEPT ![id] = @ - 1]
        /\ suspended' = FALSE
        /\ UNCHANGED <<waiters, wait, timers, cancelled, onCancel, hostVars>>
    BY <1>23, <2>2 DEF ResumeTask, Resume
  <2>4. hands' \in [WaitIds -> Nat] /\ \A i \in WaitIds : hands'[i] = 0
    BY <2>1, <2>2, <2>3
  <2>5. pc = "waiting" /\ suspended' \in BOOLEAN
    BY <2>1, <2>3, Zenon
  <2> QED
    BY <2>2, <2>3, <2>4, <2>5
<1>24. CASE UNCHANGED vars
  BY <1>24 DEF vars
<1> QED
  BY <1>1, <1>2, <1>3, <1>4, <1>5, <1>6, <1>7, <1>8, <1>9, <1>10, <1>11, <1>12,
     <1>13, <1>14, <1>15, <1>16, <1>17, <1>18, <1>19, <1>20, <1>21, <1>22,
     <1>23, <1>24, Zenon
  DEF Next, Runner

\* The runner's sleep is governed by the inductive invariant, in every
\* reachable state.
THEOREM RunnerSleepsSafely == Spec => []WakeInvariant
  BY InitWakes, StepWakes, PTL DEF Spec

\* HostWakeSignal.signal, its timeout and its cancellation handler resume
\* every continuation exactly once.
THEOREM ResumedExactlyOnce == Spec => []ExactlyOneResumer
<1>1. WakeInvariant => ExactlyOneResumer
  BY DEF WakeInvariant
<1> QED BY <1>1, RunnerSleepsSafely, PTL

\* The runner never sleeps through input, an interrupt or network traffic
\* whose signal has already been given.
THEOREM NothingSleptThrough == Spec => []NoActivitySleptThrough
<1>1. WakeInvariant => NoActivitySleptThrough
  BY DEF WakeInvariant, NoActivitySleptThrough, Decided
<1> QED BY <1>1, RunnerSleepsSafely, PTL

-----------------------------------------------------------------------------
(* The queues of lines.                                                    *)

\* No line is queued twice.
Once(s) == \A i, j \in 1..Len(s) : s[i] = s[j] => i = j

\* The first index of a queue that holds one of some lines it has.
LEMMA FirstIndexIsFirst ==
    ASSUME NEW S, NEW s \in Seq(S), NEW lines, Elements(s) \cap lines # {}
    PROVE  /\ FirstIndex(s, lines) \in 1..Len(s)
           /\ FirstOf(s, lines) \in lines \cap Elements(s)
           /\ FirstOf(s, lines) \in S
<1> DEFINE less == {ss \in Nat \X Nat : ss[1] < ss[2]}
<1> DEFINE T == {i \in 1..Len(s) : s[i] \in lines}
<1>1. T # {} /\ T \subseteq Nat
  BY DEF Elements
<1>2. PICK i \in T : \A j \in T : ~ (<<j, i>> \in less)
  <2>1. IsWellFoundedOn(less, Nat)
    BY NatLessThanWellFounded, Zenon DEF OpToRel
  <2> HIDE DEF less, T
  <2> QED
    BY <1>1, <2>1, WFMin
<1>3. ASSUME NEW j \in 1..i-1 PROVE s[j] \notin lines
  <2>1. <<j, i>> \in Nat \X Nat /\ <<j, i>>[1] = j /\ <<j, i>>[2] = i
    BY <1>1
  <2>2. <<j, i>> \in less
    BY <2>1, j < i, Zenon
  <2>3. j \notin T
    BY <1>2, <2>2, Zenon
  <2> QED
    BY <2>3
<1>4. i \in 1..Len(s) /\ s[i] \in lines /\ \A j \in 1..i-1 : s[j] \notin lines
  BY <1>3
<1>5. /\ FirstIndex(s, lines) \in 1..Len(s)
      /\ s[FirstIndex(s, lines)] \in lines
  BY <1>4 DEF FirstIndex
<1> QED
  BY <1>5 DEF FirstOf, Elements

\* A line that is queued is in the queue once.
LEMMA WithLineQueues ==
    ASSUME NEW S, NEW s \in Seq(S), NEW line \in S
    PROVE  /\ WithLine(s, line) \in Seq(S)
           /\ Elements(WithLine(s, line)) = Elements(s) \cup {line}
           /\ Once(s) => Once(WithLine(s, line))
<1>1. CASE line \in Elements(s)
  BY <1>1 DEF WithLine
<1>2. CASE line \notin Elements(s)
  <2> DEFINE q == Append(s, line)
  <2>1. /\ WithLine(s, line) = q /\ q \in Seq(S) /\ Len(q) = Len(s) + 1
        /\ \A i \in 1..Len(s) : q[i] = s[i]
        /\ q[Len(s) + 1] = line
    BY <1>2 DEF WithLine
  <2>2. \A i \in 1..Len(s) : s[i] # line
    BY <1>2 DEF Elements
  <2>3. 1..Len(q) = 1..Len(s) \cup {Len(s) + 1}
    BY <2>1
  <2> HIDE DEF q
  <2>4. Elements(q) = Elements(s) \cup {line}
    BY <2>1, <2>3 DEF Elements
  <2>5. Once(s) => Once(q)
    BY <2>1, <2>2, <2>3 DEF Once
  <2> QED
    BY <2>1, <2>4, <2>5
<1> QED
  BY <1>1, <1>2

\* A line that is removed is gone, and the other lines stay.
LEMMA WithoutLineRemoves ==
    ASSUME NEW S, NEW s \in Seq(S), NEW line, Once(s)
    PROVE  /\ WithoutLine(s, line) \in Seq(S)
           /\ Elements(WithoutLine(s, line)) = Elements(s) \ {line}
           /\ Once(WithoutLine(s, line))
<1>1. CASE line \notin Elements(s)
  BY <1>1 DEF WithoutLine
<1>2. CASE line \in Elements(s)
  <2> DEFINE at == FirstIndex(s, {line})
             a == SubSeq(s, 1, at - 1)
             b == SubSeq(s, at + 1, Len(s))
             q == a \o b
  <2>1. at \in 1..Len(s) /\ s[at] = line
    BY <1>2, FirstIndexIsFirst DEF FirstOf
  <2>2. WithoutLine(s, line) = q
    BY <1>2 DEF WithoutLine
  <2> HIDE DEF at
  <2>3. Len(s) \in Nat /\ \A i \in 1..Len(s) : s[i] \in S
    OBVIOUS
  <2>4. /\ a \in Seq(S) /\ Len(a) = at - 1 /\ \A i \in 1..at-1 : a[i] = s[i]
    BY <2>1, <2>3, SubSeqProperties
  <2>5. /\ b \in Seq(S) /\ Len(b) = Len(s) - at /\ \A i \in 1..Len(s)-at : b[i] = s[at + i]
    BY <2>1, <2>3, SubSeqProperties
  <2> HIDE DEF a, b
  <2>6. /\ q \in Seq(S) /\ Len(q) = Len(s) - 1
        /\ \A i \in 1..Len(q) : q[i] = IF i < at THEN s[i] ELSE s[i + 1]
    <3>1. /\ q \in Seq(S) /\ Len(q) = Len(a) + Len(b)
          /\ \A i \in 1..Len(a) + Len(b) : q[i] = IF i <= Len(a) THEN a[i] ELSE b[i - Len(a)]
      BY <2>4, <2>5, ConcatProperties
    <3> HIDE DEF q
    <3>2. Len(q) = Len(s) - 1
      BY <2>1, <2>3, <2>4, <2>5, <3>1
    <3>3. ASSUME NEW i \in 1..Len(q) PROVE q[i] = IF i < at THEN s[i] ELSE s[i + 1]
      <4>1. CASE i < at
        BY <2>1, <2>3, <2>4, <2>5, <3>1, <3>2, <4>1
      <4>2. CASE i >= at
        <5>1. q[i] = b[i - (at - 1)] /\ i - (at - 1) \in 1..Len(s)-at
          BY <2>1, <2>3, <2>4, <2>5, <3>1, <3>2, <4>2
        <5>2. b[i - (at - 1)] = s[at + (i - (at - 1))] /\ at + (i - (at - 1)) = i + 1
          BY <2>1, <2>3, <2>5, <5>1
        <5> QED
          BY <2>1, <4>2, <5>1, <5>2
      <4> QED
        BY <2>1, <2>3, <3>2, <4>1, <4>2
    <3> QED
      BY <3>1, <3>2, <3>3
  <2> HIDE DEF q
  <2>7. Elements(q) \subseteq Elements(s) \ {line}
    <3>1. ASSUME NEW i \in 1..Len(q) PROVE q[i] \in Elements(s) /\ q[i] # line
      <4>1. PICK k \in 1..Len(s) : q[i] = s[k] /\ k # at
        <5>1. CASE i < at
          BY <2>1, <2>3, <2>6, <5>1
        <5>2. CASE i >= at
          <6>1. i + 1 \in 1..Len(s) /\ i + 1 # at /\ q[i] = s[i + 1]
            BY <2>1, <2>3, <2>6, <5>2
          <6> QED
            BY <6>1
        <5> QED
          BY <2>1, <2>3, <2>6, <5>1, <5>2
      <4> QED
        BY <2>1, <4>1 DEF Elements, Once
    <3> QED
      BY <3>1 DEF Elements
  <2>8. ASSUME NEW i \in 1..Len(s), s[i] # line PROVE s[i] \in Elements(q)
    <3>1. CASE i < at
      BY <2>1, <2>3, <2>6, <3>1 DEF Elements
    <3>2. CASE i > at
      <4>1. i - 1 \in 1..Len(q) /\ q[i - 1] = s[i]
        BY <2>1, <2>3, <2>6, <3>2
      <4> QED
        BY <4>1 DEF Elements
    <3> QED
      BY <2>1, <2>8, <3>1, <3>2
  <2>9. Once(q)
    BY <2>1, <2>3, <2>6 DEF Once
  <2>10. Elements(s) \ {line} \subseteq Elements(q)
    BY <2>8 DEF Elements
  <2> QED
    BY <2>2, <2>6, <2>7, <2>9, <2>10
<1> QED
  BY <1>1, <1>2

-----------------------------------------------------------------------------
(* The interrupt controller.                                               *)

\* The controller's state is well typed and no queue holds a line twice.
ControllerInvariant ==
    /\ ControllerTypes
    /\ Once(pendingLines)
    /\ \A v \in VCPUs : Once(targetedPending[v])

\* A step of the controller that makes an interrupt deliverable owes a call
\* of the wake handler, and no step drops a call that is owed.
SignalsArrivals ==
    /\ wakeHandler' = wakeHandler
    /\ waking \subseteq waking'
    /\ \/ \A v \in VCPUs : Deliverable(v)' => Deliverable(v)
       \/ wakeHandler => waking' # {}

\* A call that is owed.
LEMMA OwesACall ==
    ASSUME ControllerTypes, NEW t \in WakingThreads, NEW wake, Owes(t, wake)
    PROVE  /\ waking \subseteq waking'
           /\ waking' \subseteq WakingThreads
           /\ wake /\ wakeHandler => waking' # {}
BY DEF Owes, ControllerTypes

\* A raised shared line may be deliverable to several virtual CPUs.
LEMMA RaiseSignals ==
    ASSUME ControllerInvariant, NEW l \in SharedLines, NEW t \in WakingThreads, RaiseLine(l, t)
    PROVE  ControllerInvariant' /\ SignalsArrivals
<1>1. /\ pendingLines' \in Seq(SharedLines) /\ Once(pendingLines')
  BY WithLineQueues DEF RaiseLine, ControllerInvariant, ControllerTypes
<1>2. /\ waking \subseteq waking' /\ waking' \subseteq WakingThreads
      /\ wakeHandler => waking' # {}
  BY OwesACall DEF RaiseLine, ControllerInvariant
<1> QED
  BY <1>1, <1>2 DEF RaiseLine, ControllerInvariant, ControllerTypes, SignalsArrivals

\* A withdrawn line is deliverable to nobody.
LEMMA ClearSignals ==
    ASSUME ControllerInvariant, NEW l \in SharedLines, ClearLine(l)
    PROVE  ControllerInvariant' /\ SignalsArrivals
<1>1. /\ pendingLines' \in Seq(SharedLines) /\ Once(pendingLines')
      /\ Elements(pendingLines') \subseteq Elements(pendingLines)
  BY WithoutLineRemoves DEF ClearLine, ControllerInvariant, ControllerTypes
<1>2. \A v \in VCPUs : Deliverable(v)' => Deliverable(v)
  BY <1>1 DEF ClearLine, Deliverable, PendingFor, SharedFor
<1> QED
  BY <1>1, <1>2 DEF ClearLine, ControllerInvariant, ControllerTypes, SignalsArrivals

\* Enabling a line matters when it is pending.
LEMMA EnableSignals ==
    ASSUME ControllerInvariant, NEW l \in SharedLines, NEW on \in BOOLEAN,
           NEW t \in WakingThreads, SetEnabled(l, on, t)
    PROVE  ControllerInvariant' /\ SignalsArrivals
<1>1. /\ waking \subseteq waking' /\ waking' \subseteq WakingThreads
      /\ on /\ l \in Elements(pendingLines) /\ wakeHandler => waking' # {}
  BY OwesACall DEF SetEnabled, ControllerInvariant
<1>2. ~(on /\ l \in Elements(pendingLines)) => \A v \in VCPUs : Deliverable(v)' => Deliverable(v)
  BY DEF SetEnabled, Deliverable, PendingFor, SharedFor
<1>3. enabled' \subseteq SharedLines
  BY DEF SetEnabled, ControllerInvariant, ControllerTypes
<1> QED
  BY <1>1, <1>2, <1>3 DEF SetEnabled, ControllerInvariant, ControllerTypes, SignalsArrivals

\* Routing a line elsewhere matters when it is pending.
LEMMA RouteSignals ==
    ASSUME ControllerInvariant, NEW l \in SharedLines, NEW mask \in Routes,
           NEW t \in WakingThreads, SetTargetMask(l, mask, t)
    PROVE  ControllerInvariant' /\ SignalsArrivals
<1>1. /\ waking \subseteq waking' /\ waking' \subseteq WakingThreads
      /\ l \in Elements(pendingLines) /\ wakeHandler => waking' # {}
  BY OwesACall DEF SetTargetMask, ControllerInvariant
<1>2. /\ sharedTargetMasks' \in [SharedLines -> SUBSET VCPUs]
      /\ \A k \in SharedLines : k # l => sharedTargetMasks'[k] = sharedTargetMasks[k]
  BY ClusterAssumption DEF SetTargetMask, ControllerInvariant, ControllerTypes
<1>3. Elements(pendingLines) \subseteq SharedLines
  BY DEF Elements, ControllerInvariant, ControllerTypes
<1>4. l \notin Elements(pendingLines) => \A v \in VCPUs : Deliverable(v)' => Deliverable(v)
  BY <1>2, <1>3 DEF SetTargetMask, Deliverable, PendingFor, SharedFor
<1> QED
  BY <1>1, <1>2, <1>4 DEF SetTargetMask, ControllerInvariant, ControllerTypes, SignalsArrivals

\* A raised private line: a timer's, or a software interrupt.
LEMMA RaiseForSignals ==
    ASSUME ControllerInvariant, NEW l \in PrivateLines, NEW v \in VCPUs,
           NEW t \in WakingThreads, RaiseLineFor(l, v, t)
    PROVE  ControllerInvariant' /\ SignalsArrivals
<1> DEFINE q == WithLine(targetedPending[v], l)
<1>1. q \in Seq(PrivateLines) /\ Once(q)
  BY WithLineQueues DEF ControllerInvariant, ControllerTypes
<1>2. targetedPending' = [targetedPending EXCEPT ![v] = q]
  BY DEF RaiseLineFor
<1> HIDE DEF q
<1>3. /\ targetedPending' \in [VCPUs -> Seq(PrivateLines)]
      /\ \A u \in VCPUs : Once(targetedPending'[u])
  BY <1>1, <1>2 DEF ControllerInvariant, ControllerTypes
<1>4. /\ waking \subseteq waking' /\ waking' \subseteq WakingThreads
      /\ wakeHandler => waking' # {}
  BY OwesACall DEF RaiseLineFor, ControllerInvariant
<1> QED
  BY <1>3, <1>4 DEF RaiseLineFor, ControllerInvariant, ControllerTypes, SignalsArrivals

\* A withdrawn private line.
LEMMA ClearForSignals ==
    ASSUME ControllerInvariant, NEW l \in PrivateLines, NEW v \in VCPUs, ClearLineFor(l, v)
    PROVE  ControllerInvariant' /\ SignalsArrivals
<1> DEFINE q == WithoutLine(targetedPending[v], l)
<1>1. q \in Seq(PrivateLines) /\ Once(q) /\ Elements(q) \subseteq Elements(targetedPending[v])
  BY WithoutLineRemoves DEF ControllerInvariant, ControllerTypes
<1>2. targetedPending' = [targetedPending EXCEPT ![v] = q]
  BY DEF ClearLineFor
<1> HIDE DEF q
<1>3. /\ targetedPending' \in [VCPUs -> Seq(PrivateLines)]
      /\ \A u \in VCPUs : Once(targetedPending'[u])
      /\ \A u \in VCPUs : Elements(targetedPending'[u]) \subseteq Elements(targetedPending[u])
  BY <1>1, <1>2 DEF ControllerInvariant, ControllerTypes
<1>4. \A u \in VCPUs : Deliverable(u)' => Deliverable(u)
  BY <1>3 DEF ClearLineFor, Deliverable, PendingFor, SharedFor
<1> QED
  BY <1>3, <1>4 DEF ClearLineFor, ControllerInvariant, ControllerTypes, SignalsArrivals

\* Enabling a timer matters when its line is pending.
LEMMA EnableForSignals ==
    ASSUME ControllerInvariant, NEW l \in Timers, NEW on \in BOOLEAN, NEW v \in VCPUs,
           NEW t \in WakingThreads, SetEnabledFor(l, on, v, t)
    PROVE  ControllerInvariant' /\ SignalsArrivals
<1>1. /\ waking \subseteq waking' /\ waking' \subseteq WakingThreads
      /\ on /\ l \in Elements(targetedPending[v]) /\ wakeHandler => waking' # {}
  BY OwesACall DEF SetEnabledFor, ControllerInvariant
<1>2. /\ targetedEnabled' \in [VCPUs -> SUBSET Timers]
      /\ \A u \in VCPUs : u # v => targetedEnabled'[u] = targetedEnabled[u]
      /\ targetedEnabled'[v] \subseteq targetedEnabled[v] \cup {l}
      /\ ~on => targetedEnabled'[v] \subseteq targetedEnabled[v]
  BY DEF SetEnabledFor, ControllerInvariant, ControllerTypes
<1>3. ASSUME ~(on /\ l \in Elements(targetedPending[v])), NEW u \in VCPUs, Deliverable(u)'
      PROVE  Deliverable(u)
  BY <1>2, <1>3 DEF SetEnabledFor, Deliverable, PendingFor, SharedFor
<1> QED
  BY <1>1, <1>2, <1>3 DEF SetEnabledFor, ControllerInvariant, ControllerTypes, SignalsArrivals

\* An acknowledged line leaves its queue; nothing becomes deliverable.
LEMMA AcknowledgeSignals ==
    ASSUME ControllerInvariant, NEW v \in VCPUs, AcknowledgeLine(v)
    PROVE  ControllerInvariant' /\ SignalsArrivals
<1>1. CASE PendingFor(v) # {}
  <2> DEFINE l == FirstOf(targetedPending[v], PendingFor(v))
             q == WithoutLine(targetedPending[v], l)
  <2>1. l \in PrivateLines
    BY <1>1, FirstIndexIsFirst DEF PendingFor, ControllerInvariant, ControllerTypes
  <2> HIDE DEF l
  <2>2. q \in Seq(PrivateLines) /\ Once(q) /\ Elements(q) \subseteq Elements(targetedPending[v])
    BY WithoutLineRemoves DEF ControllerInvariant, ControllerTypes
  <2>3. /\ targetedPending' = [targetedPending EXCEPT ![v] = q]
        /\ targetedActive' = [targetedActive EXCEPT ![v] = @ \cup {l}]
        /\ UNCHANGED <<pendingLines, enabled, active, sharedTargetMasks, targetedEnabled,
                       waking, wakeHandler>>
    BY <1>1 DEF AcknowledgeLine, l
  <2> HIDE DEF q
  <2>4. /\ targetedPending' \in [VCPUs -> Seq(PrivateLines)]
        /\ \A u \in VCPUs : Once(targetedPending'[u])
        /\ \A u \in VCPUs : Elements(targetedPending'[u]) \subseteq Elements(targetedPending[u])
        /\ targetedActive' \in [VCPUs -> SUBSET PrivateLines]
        /\ \A u \in VCPUs : targetedActive[u] \subseteq targetedActive'[u]
    BY <2>1, <2>2, <2>3 DEF ControllerInvariant, ControllerTypes
  <2>5. \A u \in VCPUs : Deliverable(u)' => Deliverable(u)
    BY <2>3, <2>4 DEF Deliverable, PendingFor, SharedFor
  <2> QED
    BY <2>3, <2>4, <2>5 DEF ControllerInvariant, ControllerTypes, SignalsArrivals
<1>2. CASE PendingFor(v) = {}
  <2> DEFINE l == FirstOf(pendingLines, SharedFor(v))
  <2>1. l \in SharedLines
    BY <1>2, FirstIndexIsFirst DEF AcknowledgeLine, SharedFor, ControllerInvariant, ControllerTypes
  <2> HIDE DEF l
  <2>2. /\ pendingLines' = WithoutLine(pendingLines, l)
        /\ active' = active \cup {l}
        /\ UNCHANGED <<enabled, sharedTargetMasks, targetedPending, targetedEnabled,
                       targetedActive, waking, wakeHandler>>
    BY <1>2 DEF AcknowledgeLine, l
  <2>3. /\ pendingLines' \in Seq(SharedLines) /\ Once(pendingLines')
        /\ Elements(pendingLines') \subseteq Elements(pendingLines)
    BY <2>2, WithoutLineRemoves DEF ControllerInvariant, ControllerTypes
  <2>4. \A u \in VCPUs : Deliverable(u)' => Deliverable(u)
    BY <2>2, <2>3 DEF Deliverable, PendingFor, SharedFor
  <2> QED
    BY <2>1, <2>2, <2>3, <2>4 DEF ControllerInvariant, ControllerTypes, SignalsArrivals
<1> QED
  BY <1>1, <1>2

\* The end of an interrupt matters when its line was raised again.
LEMMA CompleteSignals ==
    ASSUME ControllerInvariant, NEW v \in VCPUs, NEW l \in active \cup targetedActive[v],
           Complete(l, v, v)
    PROVE  ControllerInvariant' /\ SignalsArrivals
<1>1. v \in WakingThreads
  BY DEF WakingThreads
<1>2. /\ waking \subseteq waking' /\ waking' \subseteq WakingThreads
      /\ l \in Elements(pendingLines) \cup Elements(targetedPending[v]) /\ wakeHandler
           => waking' # {}
  BY <1>1, OwesACall DEF Complete, ControllerInvariant
<1>3. /\ targetedActive' \in [VCPUs -> SUBSET PrivateLines]
      /\ \A u \in VCPUs : u # v => targetedActive'[u] = targetedActive[u]
      /\ targetedActive[v] \subseteq targetedActive'[v] \cup {l}
      /\ active' \subseteq active /\ active \subseteq active' \cup {l}
  BY DEF Complete, ControllerInvariant, ControllerTypes
<1>4. ASSUME l \notin Elements(pendingLines) \cup Elements(targetedPending[v]),
             NEW u \in VCPUs, Deliverable(u)'
      PROVE  Deliverable(u)
  BY <1>3, <1>4 DEF Complete, Deliverable, PendingFor, SharedFor
<1> QED
  BY <1>2, <1>3, <1>4 DEF Complete, ControllerInvariant, ControllerTypes, SignalsArrivals

-----------------------------------------------------------------------------
(* The workers.                                                            *)

\* What holds of the workers whatever the controller does.  The last part
\* is what the wait in WFI rests on: the published copy of the lifecycle is
\* what the loop tests, the copy in the virtual machine is what run() finds.
WorkerInvariant ==
    /\ workerPC \in [Workers -> WorkerSteps]
    /\ state \in [Workers -> Lifecycle]
    /\ vmLife \in [Workers -> Lifecycle]
    /\ workerTimer \in [Workers -> {"off", "armed", "expired"}]
    /\ shouldStop \subseteq Workers
    /\ powerTable \in [Workers -> Lifecycle]
    /\ joined \subseteq shouldStop
    /\ stopped \in BOOLEAN
    /\ ActivationIsExclusive /\ PowerOnTakesEffect /\ StoppedWorkersAwake
    /\ \A w \in Workers :
          workerPC[w] \in {"top", "parked", "pacing", "failSignal"} /\ state[w] = "wfi"
            => vmLife[w] = "wfi"

\* The inductive invariant: the handler is installed until stop(), and no
\* interrupt is slept through.
ClusterInvariant ==
    /\ ControllerInvariant
    /\ WorkerInvariant
    /\ wakeHandler <=> ~stopped
    /\ NoInterruptSleptThrough

\* A step that puts no thread to sleep.
NoneFallsAsleep ==
    \A w \in Workers :
        /\ workerPC'[w] \in {"untimed", "timed"} => workerPC[w] \in {"untimed", "timed"}
        /\ workerPC'[w] = "pacing" => workerPC[w] = "pacing"

\* A thread that sleeps on has the notification of what arrived to come.
LEMMA SleepersAreSignalled ==
    ASSUME ClusterInvariant, SignalsArrivals, stopped' = stopped, NoneFallsAsleep
    PROVE  NoInterruptSleptThrough'
<1> SUFFICES ASSUME ~stopped, waking' = {} PROVE NoInterruptSleptThrough'
  BY DEF NoInterruptSleptThrough
<1>1. waking = {} /\ \A v \in VCPUs : Deliverable(v)' => Deliverable(v)
  BY DEF SignalsArrivals, ClusterInvariant
<1>2. Workers \subseteq VCPUs
  BY DEF Workers
<1>3. \A w \in Workers :
         /\ ~(workerPC[w] \in {"untimed", "timed"} /\ Deliverable(w))
         /\ ~(workerPC[w] = "pacing" /\ \E v \in VCPUs : Deliverable(v))
  BY <1>1 DEF ClusterInvariant, NoInterruptSleptThrough
<1> QED
  BY <1>1, <1>2, <1>3 DEF NoInterruptSleptThrough, NoneFallsAsleep

\* A controller that is left alone makes nothing deliverable.
LEMMA IdleController ==
    ASSUME ControllerInvariant, UNCHANGED controllerVars
    PROVE  ControllerInvariant' /\ SignalsArrivals
BY DEF controllerVars, ControllerInvariant, ControllerTypes, SignalsArrivals, Deliverable,
       PendingFor, SharedFor

\* A refresh of the timer's line.
LEMMA RefreshSignals ==
    ASSUME ControllerInvariant, NEW w \in Workers, RefreshTimer(w)
    PROVE  ControllerInvariant' /\ SignalsArrivals
<1>1. PICK l \in Timers : IF workerTimer[w] = "expired" THEN RaiseLineFor(l, w, w)
                                                        ELSE ClearLineFor(l, w)
  BY DEF RefreshTimer
<1>2. w \in VCPUs /\ w \in WakingThreads /\ l \in PrivateLines
  BY DEF Workers, WakingThreads, PrivateLines
<1> QED
  BY <1>1, <1>2, RaiseForSignals, ClearForSignals

\* The effect of a broadcast on the threads.
LEMMA BroadcastWakes ==
    ASSUME WorkerInvariant
    PROVE  /\ Broadcast \in [Workers -> WorkerSteps]
           /\ \A w \in Workers :
                /\ Broadcast[w] \notin Asleep
                /\ workerPC[w] \in {"parked", "pacing"} => Broadcast[w] = "top"
                /\ workerPC[w] \in {"untimed", "timed"} => Broadcast[w] = "woken"
                /\ workerPC[w] \notin Asleep => Broadcast[w] = workerPC[w]
BY DEF Broadcast, Awakened, WorkerInvariant, Asleep, RunSteps, WorkerSteps

\* A broadcast alone, as a wake, a new budget and stop() make it.
LEMMA BroadcastKeeps ==
    ASSUME WorkerInvariant, workerPC' = Broadcast,
           shouldStop \subseteq shouldStop', shouldStop' \subseteq Workers,
           UNCHANGED <<state, vmLife, workerTimer, powerTable, joined, stopped>>
    PROVE  WorkerInvariant' /\ NoneFallsAsleep
<1>1. \A w \in Workers :
         /\ Broadcast[w] \in RunSteps => workerPC[w] \in RunSteps
         /\ Broadcast[w] = "woken" => workerPC[w] \in {"woken", "untimed", "timed"}
         /\ Broadcast[w] \in {"top", "failSignal"}
              => workerPC[w] \in {"top", "parked", "pacing", "failSignal"}
         /\ Broadcast[w] \notin {"parked", "pacing", "untimed", "timed"}
  BY BroadcastWakes DEF Asleep, RunSteps, WorkerSteps
<1>2. NoneFallsAsleep
  BY <1>1 DEF NoneFallsAsleep
<1>3. ActivationIsExclusive'
  BY <1>1 DEF ActivationIsExclusive, WorkerInvariant
<1>4. PowerOnTakesEffect'
  BY <1>1 DEF PowerOnTakesEffect, WorkerInvariant
<1>5. StoppedWorkersAwake'
  BY BroadcastWakes DEF StoppedWorkersAwake, WorkerInvariant
<1>6. \A w \in Workers :
          workerPC'[w] \in {"top", "parked", "pacing", "failSignal"} /\ state'[w] = "wfi"
            => vmLife'[w] = "wfi"
  BY <1>1 DEF WorkerInvariant
<1> QED
  BY <1>2, <1>3, <1>4, <1>5, <1>6, BroadcastWakes DEF WorkerInvariant

\* A step of one worker's thread: what has to hold where it arrives.
LEMMA ThreadMoves ==
    ASSUME WorkerInvariant, NEW w \in Workers, NEW step \in WorkerSteps, Moves(w, step),
           NEW s \in Lifecycle, state' = [state EXCEPT ![w] = s],
           NEW m \in Lifecycle, vmLife' = [vmLife EXCEPT ![w] = m],
           UNCHANGED <<workerTimer, shouldStop, powerTable, joined, stopped>>,
           step \in RunSteps \cup {"woken", "untimed", "timed"} => s \in PoweredOn,
           step \in {"untimed", "timed", "woken"} => m = "wfi",
           step \in RunSteps \/ s \in PoweredOn => powerTable[w] \in PoweredOn,
           step = "parked" => s \notin PoweredOn,
           step \in Asleep => w \notin shouldStop,
           step \in {"top", "parked", "pacing", "failSignal"} /\ s = "wfi" => m = "wfi"
    PROVE  WorkerInvariant'
<1>1. /\ workerPC' \in [Workers -> WorkerSteps] /\ state' \in [Workers -> Lifecycle]
      /\ vmLife' \in [Workers -> Lifecycle]
      /\ workerPC'[w] = step /\ state'[w] = s /\ vmLife'[w] = m
      /\ \A u \in Workers : u # w => /\ workerPC'[u] = workerPC[u] /\ state'[u] = state[u]
                                     /\ vmLife'[u] = vmLife[u]
  BY DEF Moves, WorkerInvariant
<1>2. ActivationIsExclusive'
  BY <1>1 DEF ActivationIsExclusive, WorkerInvariant
<1>3. PowerOnTakesEffect'
  BY <1>1 DEF PowerOnTakesEffect, WorkerInvariant
<1>4. StoppedWorkersAwake'
  BY <1>1 DEF StoppedWorkersAwake, WorkerInvariant
<1>5. \A u \in Workers :
          workerPC'[u] \in {"top", "parked", "pacing", "failSignal"} /\ state'[u] = "wfi"
            => vmLife'[u] = "wfi"
  BY <1>1 DEF WorkerInvariant
<1> QED
  BY <1>1, <1>2, <1>3, <1>4, <1>5 DEF WorkerInvariant

\* What the invariant says of one worker.
LEMMA OneWorker ==
    ASSUME WorkerInvariant, NEW w \in Workers
    PROVE  /\ workerPC[w] \in WorkerSteps /\ state[w] \in Lifecycle /\ vmLife[w] \in Lifecycle
           /\ state = [state EXCEPT ![w] = state[w]]
           /\ vmLife = [vmLife EXCEPT ![w] = vmLife[w]]
           /\ workerPC[w] \in RunSteps \cup {"woken", "untimed", "timed"} => state[w] \in PoweredOn
           /\ workerPC[w] \in {"untimed", "timed", "woken"} => vmLife[w] = "wfi"
           /\ workerPC[w] \in RunSteps \/ state[w] \in PoweredOn => powerTable[w] \in PoweredOn
           /\ workerPC[w] = "parked" => state[w] \notin PoweredOn
           /\ workerPC[w] \in Asleep => w \notin shouldStop
           /\ workerPC[w] \in {"top", "parked", "pacing", "failSignal"} /\ state[w] = "wfi"
                => vmLife[w] = "wfi"
BY DEF WorkerInvariant, ActivationIsExclusive, PowerOnTakesEffect, StoppedWorkersAwake

\* A thread that goes on without going to sleep, by itself.
LEMMA ThreadGoesOn ==
    ASSUME WorkerInvariant, NEW w \in Workers, NEW step \in WorkerSteps \ Asleep,
           Moves(w, step)
    PROVE  NoneFallsAsleep
BY DEF Moves, NoneFallsAsleep, WorkerInvariant, Asleep

\* The loop's first critical section, which may put the thread to sleep.
LEMMA TopKeeps ==
    ASSUME ClusterInvariant, NEW w \in Workers, Top(w)
    PROVE  ClusterInvariant'
<1> DEFINE step == IF w \in shouldStop THEN "finished"
                    ELSE CASE state[w] \in {"offline", "halted"} -> "parked"
                           [] state[w] = "wfi"                   -> HostTimerWait(w)
                           [] OTHER                              -> "start"
<1>1. /\ workerPC[w] = "top" /\ Moves(w, step)
      /\ UNCHANGED <<controllerVars, state, vmLife, workerTimer, shouldStop, powerTable,
                     joined, stopped>>
  BY DEF Top
<1>2. /\ HostTimerWait(w) \in {"start", "untimed", "timed"}
      /\ HostTimerWait(w) # "start" => ~Deliverable(w)
  BY DEF HostTimerWait, WaitForTimer, ClusterInvariant, WorkerInvariant
<1>3. /\ step \in {"finished", "parked", "start", "untimed", "timed"}
      /\ step = "parked" => w \notin shouldStop /\ state[w] \notin PoweredOn
      /\ step \in {"untimed", "timed"}
           => w \notin shouldStop /\ state[w] = "wfi" /\ ~Deliverable(w)
      /\ step = "start" => state[w] \in PoweredOn
  BY <1>2, OneWorker DEF ClusterInvariant, PoweredOn, Lifecycle
<1> HIDE DEF step
<1>4. WorkerInvariant'
  BY <1>1, <1>3, OneWorker, ThreadMoves
     DEF ClusterInvariant, WorkerSteps, RunSteps, Asleep, PoweredOn
<1>5. ControllerInvariant' /\ (wakeHandler' <=> ~stopped')
  BY <1>1, IdleController DEF ClusterInvariant, controllerVars
<1>6. NoInterruptSleptThrough'
  <2>1. \A v \in VCPUs : Deliverable(v)' <=> Deliverable(v)
    BY <1>1 DEF controllerVars, Deliverable, PendingFor, SharedFor
  <2>2. /\ workerPC'[w] = step
        /\ \A u \in Workers : u # w => workerPC'[u] = workerPC[u]
    BY <1>1 DEF Moves, ClusterInvariant, WorkerInvariant
  <2>3. waking' = waking /\ Workers \subseteq VCPUs /\ stopped' = stopped
    BY <1>1 DEF controllerVars, Workers
  <2> QED
    BY <1>3, <2>1, <2>2, <2>3 DEF ClusterInvariant, NoInterruptSleptThrough
<1> QED
  BY <1>4, <1>5, <1>6 DEF ClusterInvariant

\* The second critical section, which may pace the thread.
LEMMA PublishKeeps ==
    ASSUME ClusterInvariant, NEW w \in Workers, Publish(w)
    PROVE  ClusterInvariant'
<1>1. PICK step \in {"top", "pacing"} :
        /\ workerPC[w] = "publish" /\ Moves(w, step)
        /\ state' = [state EXCEPT ![w] = vmLife[w]]
        /\ step = "pacing" => /\ vmLife[w] = "runnable" /\ w \notin shouldStop
                              /\ \A v \in VCPUs : ~Deliverable(v)
        /\ UNCHANGED <<controllerVars, vmLife, workerTimer, shouldStop, powerTable,
                       joined, stopped>>
  BY DEF Publish
<1>2. WorkerInvariant'
  <2>1. WorkerInvariant
    BY DEF ClusterInvariant
  <2>2. /\ step \in WorkerSteps /\ step \notin RunSteps \cup {"woken", "untimed", "timed"} /\ step # "parked"
        /\ step \in Asleep => w \notin shouldStop
    BY <1>1 DEF WorkerSteps, RunSteps, Asleep
  <2>3. vmLife[w] \in Lifecycle /\ vmLife = [vmLife EXCEPT ![w] = vmLife[w]]
    BY <2>1, OneWorker
  <2>4. powerTable[w] \in PoweredOn
    BY <1>1, <2>1, OneWorker DEF RunSteps
  <2>5. UNCHANGED <<workerTimer, shouldStop, powerTable, joined, stopped>> /\ vmLife' = vmLife
    BY <1>1
  <2> QED
    BY <1>1, <2>1, <2>2, <2>3, <2>4, <2>5, ThreadMoves
<1>3. ControllerInvariant' /\ (wakeHandler' <=> ~stopped')
  BY <1>1, IdleController DEF ClusterInvariant, controllerVars
<1>4. NoInterruptSleptThrough'
  <2>1. \A v \in VCPUs : Deliverable(v)' <=> Deliverable(v)
    BY <1>1 DEF controllerVars, Deliverable, PendingFor, SharedFor
  <2>2. /\ workerPC'[w] = step
        /\ \A u \in Workers : u # w => workerPC'[u] = workerPC[u]
    BY <1>1 DEF Moves, ClusterInvariant, WorkerInvariant
  <2>3. waking' = waking /\ Workers \subseteq VCPUs /\ stopped' = stopped
    BY <1>1 DEF controllerVars, Workers
  <2> QED
    BY <1>1, <2>1, <2>2, <2>3 DEF ClusterInvariant, NoInterruptSleptThrough
<1> QED
  BY <1>2, <1>3, <1>4 DEF ClusterInvariant

\* Any other step of a thread that leaves the controller alone, or does to
\* it what SignalsArrivals allows.
LEMMA ThreadKeeps ==
    ASSUME ClusterInvariant, ControllerInvariant', SignalsArrivals, WorkerInvariant',
           NoneFallsAsleep, stopped' = stopped
    PROVE  ClusterInvariant'
BY SleepersAreSignalled DEF ClusterInvariant, SignalsArrivals

\* The steps of a thread that leave the controller alone and do not put it
\* to sleep.
LEMMA QuietThreadKeeps ==
    ASSUME ClusterInvariant, NEW w \in Workers,
           Woken(w) \/ TimedOut(w) \/ Recheck(w) \/ Suspend(w) \/ EndRun(w) \/ Throw(w) \/ Fail(w)
    PROVE  ClusterInvariant'
<1>1. PICK step \in WorkerSteps \ Asleep, s \in Lifecycle, m \in Lifecycle :
        /\ Moves(w, step)
        /\ state' = [state EXCEPT ![w] = s] /\ vmLife' = [vmLife EXCEPT ![w] = m]
        /\ UNCHANGED <<controllerVars, workerTimer, shouldStop, powerTable, joined, stopped>>
        /\ step \in RunSteps \cup {"woken"} => s \in PoweredOn
        /\ step = "woken" => m = "wfi"
        /\ step \in RunSteps \/ s \in PoweredOn => powerTable[w] \in PoweredOn
        /\ step \in {"top", "failSignal"} /\ s = "wfi" => m = "wfi"
  <2> USE OneWorker DEF ClusterInvariant, WorkerSteps, RunSteps, Asleep, PoweredOn, Lifecycle
  <2>1. CASE Woken(w)
    BY <2>1 DEF Woken
  <2>2. CASE TimedOut(w)
    <3>1. Awakened(workerPC[w]) = IF workerPC[w] = "pacing" THEN "top" ELSE "woken"
      BY <2>2 DEF TimedOut, Awakened
    <3> QED
      BY <2>2, <3>1 DEF TimedOut
  <2>3. CASE Recheck(w)
    BY <2>3 DEF Recheck
  <2>4. CASE Suspend(w)
    BY <2>4 DEF Suspend
  <2>5. CASE EndRun(w)
    BY <2>5 DEF EndRun
  <2>6. CASE Throw(w)
    BY <2>6 DEF Throw
  <2>7. CASE Fail(w)
    BY <2>7 DEF Fail
  <2> QED
    BY <2>1, <2>2, <2>3, <2>4, <2>5, <2>6, <2>7
<1>2. WorkerInvariant'
  BY <1>1, ThreadMoves DEF ClusterInvariant, Asleep
<1>3. NoneFallsAsleep
  BY <1>1, ThreadGoesOn DEF ClusterInvariant
<1>4. ControllerInvariant' /\ SignalsArrivals
  BY <1>1, IdleController DEF ClusterInvariant
<1> QED
  BY <1>1, <1>2, <1>3, <1>4, ThreadKeeps

\* The steps of a thread that refresh the timer's line first.
LEMMA RefreshingThreadKeeps ==
    ASSUME ClusterInvariant, NEW w \in Workers, Start(w) \/ WaitForInterrupt(w)
    PROVE  ClusterInvariant'
<1>1. PICK step \in {"recheck", "exec", "suspend"} :
        /\ workerPC[w] \in RunSteps /\ Moves(w, step)
        /\ RefreshTimer(w) \/ UNCHANGED controllerVars
        /\ UNCHANGED <<state, vmLife, workerTimer, shouldStop, powerTable, joined, stopped>>
  BY DEF Start, WaitForInterrupt, Executing, RunSteps, Workers
<1>2. step \in WorkerSteps \ Asleep /\ step \in RunSteps
  BY DEF WorkerSteps, RunSteps, Asleep
<1>3. WorkerInvariant'
  BY <1>1, <1>2, OneWorker, ThreadMoves DEF ClusterInvariant
<1>4. NoneFallsAsleep
  BY <1>1, <1>2, ThreadGoesOn DEF ClusterInvariant
<1>5. ControllerInvariant' /\ SignalsArrivals
  BY <1>1, IdleController, RefreshSignals DEF ClusterInvariant
<1> QED
  BY <1>1, <1>3, <1>4, <1>5, ThreadKeeps

\* A step that leaves the workers alone.
LEMMA SteadyWorkers ==
    ASSUME WorkerInvariant, UNCHANGED workerVars
    PROVE  WorkerInvariant' /\ NoneFallsAsleep /\ stopped' = stopped
BY DEF workerVars, WorkerInvariant, NoneFallsAsleep, ActivationIsExclusive, PowerOnTakesEffect,
       StoppedWorkersAwake

\* What the guest does to the controller.
LEMMA GuestKeeps ==
    ASSUME ClusterInvariant, NEW v \in VCPUs, GuestSteps(v)
    PROVE  ClusterInvariant'
<1>1. v \in WakingThreads
  BY DEF WakingThreads
<1>2. CASE GuestAcknowledge(v)
  BY <1>2, AcknowledgeSignals, SteadyWorkers, ThreadKeeps DEF GuestAcknowledge, ClusterInvariant
<1>3. CASE GuestComplete(v)
  BY <1>3, CompleteSignals, SteadyWorkers, ThreadKeeps DEF GuestComplete, ClusterInvariant
<1>4. CASE GuestEnableShared(v)
  <2>1. PICK l \in SharedLines : SetEnabled(l, l \notin enabled, v) /\ UNCHANGED workerVars
    BY <1>4 DEF GuestEnableShared
  <2>2. (l \notin enabled) \in BOOLEAN
    BY Zenon
  <2> QED
    BY <1>1, <2>1, <2>2, EnableSignals, SteadyWorkers, ThreadKeeps DEF ClusterInvariant
<1>5. CASE GuestSetTargets(v)
  BY <1>1, <1>5, RouteSignals, SteadyWorkers, ThreadKeeps DEF GuestSetTargets, ClusterInvariant
<1>6. CASE GuestEnableTimer(v)
  <2>1. PICK l \in Timers :
          SetEnabledFor(l, l \notin targetedEnabled[v], v, v) /\ UNCHANGED workerVars
    BY <1>6 DEF GuestEnableTimer
  <2>2. (l \notin targetedEnabled[v]) \in BOOLEAN
    BY Zenon
  <2> QED
    BY <1>1, <2>1, <2>2, EnableForSignals, SteadyWorkers, ThreadKeeps DEF ClusterInvariant
<1>7. CASE GuestSendSGI(v)
  <2>1. PICK l \in SGIs, target \in VCPUs : RaiseLineFor(l, target, v) /\ UNCHANGED workerVars
    BY <1>7 DEF GuestSendSGI
  <2>2. l \in PrivateLines
    BY DEF PrivateLines
  <2> QED
    BY <1>1, <2>1, <2>2, RaiseForSignals, SteadyWorkers, ThreadKeeps DEF ClusterInvariant
<1> QED
  BY <1>2, <1>3, <1>4, <1>5, <1>6, <1>7 DEF GuestSteps

\* What devices do to the controller.
LEMMA DeviceKeeps ==
    ASSUME ClusterInvariant, DeviceRaise \/ DeviceClear
    PROVE  ClusterInvariant'
<1>1. Device \in WakingThreads
  BY DEF WakingThreads
<1>2. CASE DeviceRaise
  BY <1>1, <1>2, RaiseSignals, SteadyWorkers, ThreadKeeps DEF DeviceRaise, ClusterInvariant
<1>3. CASE DeviceClear
  BY <1>3, ClearSignals, SteadyWorkers, ThreadKeeps DEF DeviceClear, ClusterInvariant
<1> QED
  BY <1>2, <1>3

\* A worker's timer, which reaches the controller when it is refreshed.
LEMMA TimerKeeps ==
    ASSUME ClusterInvariant, NEW w \in Workers,
           ProgramTimer(w) \/ TimerExpires(w) \/ TimerTick(w)
    PROVE  ClusterInvariant'
<1>1. CASE TimerTick(w)
  BY <1>1, RefreshSignals, SteadyWorkers, ThreadKeeps DEF TimerTick, ClusterInvariant
<1>2. CASE ProgramTimer(w) \/ TimerExpires(w)
  <2>1. PICK t \in {"off", "armed", "expired"} :
          /\ workerTimer' = [workerTimer EXCEPT ![w] = t]
          /\ UNCHANGED <<controllerVars, workerPC, state, vmLife, shouldStop, powerTable,
                         joined, stopped>>
    BY <1>2 DEF ProgramTimer, TimerExpires
  <2>2. WorkerInvariant' /\ NoneFallsAsleep /\ stopped' = stopped
    BY <2>1 DEF ClusterInvariant, WorkerInvariant, NoneFallsAsleep, ActivationIsExclusive,
                PowerOnTakesEffect, StoppedWorkersAwake
  <2>3. ControllerInvariant' /\ SignalsArrivals
    BY <2>1, IdleController DEF ClusterInvariant
  <2> QED
    BY <2>2, <2>3, ThreadKeeps
<1> QED
  BY <1>1, <1>2

\* CPU_ON: nobody runs on the state that activate() installs.
LEMMA CPUOnKeeps ==
    ASSUME ClusterInvariant, NEW w \in Workers, CPUOn(w)
    PROVE  ClusterInvariant'
<1>1. /\ UNCHANGED <<controllerVars, shouldStop, joined, stopped>>
      /\ workerPC[w] \notin RunSteps \cup {"woken", "untimed", "timed"}
      /\ state[w] \notin PoweredOn
  BY OneWorker DEF CPUOn, ClusterInvariant
<1>2. ControllerInvariant' /\ SignalsArrivals
  BY <1>1, IdleController DEF ClusterInvariant
<1>3. CASE w \notin shouldStop /\ state[w] \in {"offline", "halted"}
  <2>1. /\ powerTable' = [powerTable EXCEPT ![w] = "runnable"]
        /\ vmLife' = [vmLife EXCEPT ![w] = "runnable"]
        /\ state' = [state EXCEPT ![w] = "runnable"]
        /\ workerTimer' = [workerTimer EXCEPT ![w] = "off"]
        /\ workerPC' = Broadcast
    BY <1>3 DEF CPUOn, Activate
  <2>2. /\ powerTable' \in [Workers -> Lifecycle] /\ state' \in [Workers -> Lifecycle]
        /\ vmLife' \in [Workers -> Lifecycle]
        /\ workerTimer' \in [Workers -> {"off", "armed", "expired"}]
        /\ state'[w] = "runnable" /\ vmLife'[w] = "runnable" /\ powerTable'[w] = "runnable"
        /\ \A u \in Workers : u # w => /\ state'[u] = state[u] /\ vmLife'[u] = vmLife[u]
                                       /\ powerTable'[u] = powerTable[u]
    BY <2>1 DEF ClusterInvariant, WorkerInvariant, Lifecycle
  <2>3. \A u \in Workers :
           /\ Broadcast[u] \in RunSteps => workerPC[u] \in RunSteps
           /\ Broadcast[u] = "woken" => workerPC[u] \in {"woken", "untimed", "timed"}
           /\ Broadcast[u] \in {"top", "failSignal"}
                => workerPC[u] \in {"top", "parked", "pacing", "failSignal"}
           /\ Broadcast[u] \notin Asleep
    BY BroadcastWakes DEF Asleep, RunSteps, WorkerSteps, ClusterInvariant
  <2>4. Broadcast \in [Workers -> WorkerSteps]
    BY BroadcastWakes DEF ClusterInvariant
  <2> HIDE DEF Broadcast
  <2>5. ActivationIsExclusive'
    BY <1>1, <2>1, <2>2, <2>3 DEF ActivationIsExclusive, ClusterInvariant, WorkerInvariant, Asleep
  <2>6. PowerOnTakesEffect'
    BY <2>1, <2>2, <2>3 DEF PowerOnTakesEffect, ClusterInvariant, WorkerInvariant, Asleep, PoweredOn
  <2>7. StoppedWorkersAwake'
    BY <1>1, <2>1, <2>3 DEF StoppedWorkersAwake, ClusterInvariant, WorkerInvariant
  <2>8. \A u \in Workers :
            workerPC'[u] \in {"top", "parked", "pacing", "failSignal"} /\ state'[u] = "wfi"
              => vmLife'[u] = "wfi"
    BY <2>1, <2>2, <2>3 DEF ClusterInvariant, WorkerInvariant, Asleep
  <2>9. NoneFallsAsleep
    BY <2>1, <2>3 DEF NoneFallsAsleep, Asleep
  <2>10. WorkerInvariant'
    BY <1>1, <2>1, <2>2, <2>4, <2>5, <2>6, <2>7, <2>8 DEF ClusterInvariant, WorkerInvariant
  <2> QED
    BY <1>1, <1>2, <2>9, <2>10, ThreadKeeps
<1>4. CASE ~(w \notin shouldStop /\ state[w] \in {"offline", "halted"})
  <2>1. /\ powerTable' = [powerTable EXCEPT ![w] = "offline"]
        /\ UNCHANGED <<workerPC, state, vmLife, workerTimer>>
    BY <1>4 DEF CPUOn
  <2>2. /\ powerTable' \in [Workers -> Lifecycle]
        /\ \A u \in Workers : u # w => powerTable'[u] = powerTable[u]
    BY <2>1 DEF ClusterInvariant, WorkerInvariant, Lifecycle
  <2>3. PowerOnTakesEffect'
    BY <1>1, <2>1, <2>2 DEF PowerOnTakesEffect, ClusterInvariant, WorkerInvariant
  <2>4. WorkerInvariant' /\ NoneFallsAsleep
    BY <1>1, <2>1, <2>2, <2>3 DEF ClusterInvariant, WorkerInvariant, NoneFallsAsleep,
       ActivationIsExclusive, StoppedWorkersAwake
  <2> QED
    BY <1>1, <1>2, <2>4, ThreadKeeps
<1> QED
  BY <1>3, <1>4

\* stop() tells a worker.
LEMMA StopWorkerKeeps ==
    ASSUME ClusterInvariant, NEW w \in Workers, StopWorker(w)
    PROVE  ClusterInvariant'
<1>1. /\ workerPC' = Broadcast
      /\ shouldStop \subseteq shouldStop' /\ shouldStop' \subseteq Workers
      /\ UNCHANGED <<controllerVars, state, vmLife, workerTimer, powerTable, joined, stopped>>
  BY DEF StopWorker, ClusterInvariant, WorkerInvariant
<1>2. WorkerInvariant' /\ NoneFallsAsleep
  BY <1>1, BroadcastKeeps DEF ClusterInvariant
<1>3. ControllerInvariant' /\ SignalsArrivals
  BY <1>1, IdleController DEF ClusterInvariant
<1> QED
  BY <1>1, <1>2, <1>3, ThreadKeeps

\* The wake handler: it drops the call that was owed, and nobody sleeps.
LEMMA SignalKeeps ==
    ASSUME ClusterInvariant, NEW t \in WakingThreads, SignalWorkers(t)
    PROVE  ClusterInvariant'
<1>1. /\ workerPC' = Broadcast /\ waking' = waking \ {t}
      /\ UNCHANGED <<pendingLines, enabled, active, sharedTargetMasks, targetedPending,
                     targetedEnabled, targetedActive, wakeHandler, state, vmLife,
                     workerTimer, shouldStop, powerTable, joined, stopped>>
  BY DEF SignalWorkers
<1>2. shouldStop \subseteq shouldStop' /\ shouldStop' \subseteq Workers
  BY <1>1 DEF ClusterInvariant, WorkerInvariant
<1>3. WorkerInvariant'
  BY <1>1, <1>2, BroadcastKeeps DEF ClusterInvariant
<1>4. ControllerInvariant'
  BY <1>1 DEF ClusterInvariant, ControllerInvariant, ControllerTypes
<1>5. NoInterruptSleptThrough'
  BY <1>1, BroadcastWakes DEF NoInterruptSleptThrough, ClusterInvariant, Asleep
<1> QED
  BY <1>1, <1>3, <1>4, <1>5 DEF ClusterInvariant

\* The last step of a worker that failed.
LEMMA FailSignalKeeps ==
    ASSUME ClusterInvariant, NEW w \in Workers, FailSignal(w)
    PROVE  ClusterInvariant'
<1>1. /\ workerPC[w] = "failSignal"
      /\ workerPC' = [Broadcast EXCEPT ![w] = "top"]
      /\ UNCHANGED <<controllerVars, state, vmLife, workerTimer, shouldStop, powerTable,
                     joined, stopped>>
  BY DEF FailSignal
<1>2. /\ workerPC' \in [Workers -> WorkerSteps]
      /\ \A u \in Workers :
           /\ workerPC'[u] \in RunSteps => workerPC[u] \in RunSteps
           /\ workerPC'[u] = "woken" => workerPC[u] \in {"woken", "untimed", "timed"}
           /\ workerPC'[u] \in {"top", "failSignal"}
                => workerPC[u] \in {"top", "parked", "pacing", "failSignal"}
           /\ workerPC'[u] \notin Asleep
  BY <1>1, BroadcastWakes DEF Asleep, RunSteps, WorkerSteps, ClusterInvariant
<1> HIDE DEF Broadcast
<1>3. ActivationIsExclusive'
  BY <1>1, <1>2 DEF ActivationIsExclusive, ClusterInvariant, WorkerInvariant, Asleep
<1>4. PowerOnTakesEffect'
  BY <1>1, <1>2 DEF PowerOnTakesEffect, ClusterInvariant, WorkerInvariant, Asleep
<1>5. StoppedWorkersAwake'
  BY <1>1, <1>2 DEF StoppedWorkersAwake, ClusterInvariant, WorkerInvariant
<1>6. \A u \in Workers :
          workerPC'[u] \in {"top", "parked", "pacing", "failSignal"} /\ state'[u] = "wfi"
            => vmLife'[u] = "wfi"
  BY <1>1, <1>2 DEF ClusterInvariant, WorkerInvariant, Asleep
<1>7. NoneFallsAsleep
  BY <1>2 DEF NoneFallsAsleep, Asleep
<1>8. WorkerInvariant'
  BY <1>1, <1>2, <1>3, <1>4, <1>5, <1>6 DEF ClusterInvariant, WorkerInvariant
<1>9. ControllerInvariant' /\ SignalsArrivals
  BY <1>1, IdleController DEF ClusterInvariant
<1> QED
  BY <1>1, <1>7, <1>8, <1>9, ThreadKeeps

\* stop() removes the handler, and waits for threads that have finished.
LEMMA StopKeeps ==
    ASSUME ClusterInvariant, Stop
    PROVE  ClusterInvariant'
<1>1. stopped' = TRUE /\ wakeHandler' = FALSE
  BY DEF Stop, RemoveHandler
<1>2. ControllerInvariant'
  BY <1>1 DEF Stop, RemoveHandler, ClusterInvariant, ControllerInvariant, ControllerTypes
<1>3. WorkerInvariant'
  BY <1>1 DEF Stop, ClusterInvariant, WorkerInvariant, ActivationIsExclusive, PowerOnTakesEffect,
              StoppedWorkersAwake
<1>4. NoInterruptSleptThrough'
  BY <1>1 DEF NoInterruptSleptThrough
<1> QED
  BY <1>1, <1>2, <1>3, <1>4 DEF ClusterInvariant

LEMMA JoinKeeps ==
    ASSUME ClusterInvariant, NEW w \in Workers, WaitUntilStopped(w)
    PROVE  ClusterInvariant'
<1>1. /\ joined' = joined \cup {w} /\ shouldStop = Workers
      /\ UNCHANGED <<controllerVars, workerPC, state, vmLife, workerTimer, shouldStop,
                     powerTable, stopped>>
  BY DEF WaitUntilStopped
<1>2. WorkerInvariant' /\ NoneFallsAsleep
  BY <1>1 DEF ClusterInvariant, WorkerInvariant, ActivationIsExclusive, PowerOnTakesEffect,
              StoppedWorkersAwake, NoneFallsAsleep
<1>3. ControllerInvariant' /\ SignalsArrivals
  BY <1>1, IdleController DEF ClusterInvariant
<1> QED
  BY <1>1, <1>2, <1>3, ThreadKeeps

-----------------------------------------------------------------------------
\* The initial state satisfies the inductive invariant.
LEMMA InitCluster == ClusterInit => ClusterInvariant
<1> SUFFICES ASSUME ClusterInit PROVE ClusterInvariant
  OBVIOUS
<1>1. ControllerInvariant
  BY ClusterAssumption, EmptySeq DEF ClusterInit, ControllerInit, ControllerInvariant,
     ControllerTypes, Once
<1>2. WorkerInvariant
  BY DEF ClusterInit, WorkerInvariant, WorkerSteps, RunSteps, Asleep, Lifecycle, PoweredOn,
         ActivationIsExclusive, PowerOnTakesEffect, StoppedWorkersAwake
<1>3. NoInterruptSleptThrough
  BY DEF ClusterInit, NoInterruptSleptThrough
<1> QED
  BY <1>1, <1>2, <1>3 DEF ClusterInit, ControllerInit, ClusterInvariant

\* Every step preserves the inductive invariant.
LEMMA StepCluster == ClusterInvariant /\ [ClusterNext]_clusterVars => ClusterInvariant'
<1> SUFFICES ASSUME ClusterInvariant, [ClusterNext]_clusterVars PROVE ClusterInvariant'
  OBVIOUS
<1>1. ASSUME NEW t \in WakingThreads, SignalWorkers(t) PROVE ClusterInvariant'
  BY <1>1, SignalKeeps
<1>2. ASSUME NEW w \in Workers, HostSteps(w) PROVE ClusterInvariant'
  BY <1>2, TopKeeps, QuietThreadKeeps, RefreshingThreadKeeps, PublishKeeps, FailSignalKeeps
     DEF HostSteps
<1>3. ASSUME NEW w \in Workers, TimedOut(w) \/ EndRun(w) \/ Throw(w) PROVE ClusterInvariant'
  BY <1>3, QuietThreadKeeps
<1>4. ASSUME NEW w \in Workers, ProgramTimer(w) \/ TimerExpires(w) \/ TimerTick(w)
      PROVE  ClusterInvariant'
  BY <1>4, TimerKeeps
<1>5. ASSUME NEW w \in Workers, WaitForInterrupt(w) PROVE ClusterInvariant'
  BY <1>5, RefreshingThreadKeeps
<1>6. ASSUME NEW w \in Workers, CPUOn(w) PROVE ClusterInvariant'
  BY <1>6, CPUOnKeeps
<1>7. ASSUME NEW w \in Workers, StopWorker(w) PROVE ClusterInvariant'
  BY <1>7, StopWorkerKeeps
<1>8. ASSUME NEW w \in Workers, WaitUntilStopped(w) PROVE ClusterInvariant'
  BY <1>8, JoinKeeps
<1>9. ASSUME NEW v \in VCPUs, GuestSteps(v) PROVE ClusterInvariant'
  BY <1>9, GuestKeeps
<1>10. CASE DeviceRaise \/ DeviceClear
  BY <1>10, DeviceKeeps
<1>11. CASE Reconfigure
  <2>1. /\ workerPC' = Broadcast /\ shouldStop' = shouldStop /\ shouldStop \subseteq Workers
        /\ UNCHANGED <<controllerVars, state, vmLife, workerTimer, powerTable, joined, stopped>>
    BY <1>11 DEF Reconfigure, ClusterInvariant, WorkerInvariant
  <2>2. WorkerInvariant' /\ NoneFallsAsleep
    BY <2>1, BroadcastKeeps DEF ClusterInvariant
  <2> QED
    BY <2>1, <2>2, IdleController, ThreadKeeps DEF ClusterInvariant
<1>12. CASE Stop
  BY <1>12, StopKeeps
<1>13. CASE UNCHANGED clusterVars
  BY <1>13, IdleController, SteadyWorkers, ThreadKeeps DEF clusterVars, ClusterInvariant
<1> QED
  BY <1>1, <1>2, <1>3, <1>4, <1>5, <1>6, <1>7, <1>8, <1>9, <1>10, <1>11, <1>12, <1>13
     DEF ClusterNext

\* In every reachable state the cluster satisfies the inductive invariant.
THEOREM ClusterIsInductive == ClusterSpec => []ClusterInvariant
BY InitCluster, StepCluster, PTL DEF ClusterSpec

\* The state of the controller and of the workers is well typed.
THEOREM ClusterIsWellTyped == ClusterSpec => []ClusterTypes
<1>1. ClusterInvariant => ClusterTypes
  BY DEF ClusterInvariant, ControllerInvariant, WorkerInvariant, ClusterTypes
<1> QED
  BY <1>1, ClusterIsInductive, PTL

\* SimpleInterruptController and ParallelVCPUCluster: no worker sleeps
\* through an interrupt or through stop(), the copies of a lifecycle agree
\* where activate() and CPU_ON rest on them, and a CPU that is started runs.
THEOREM ClusterStaysAwake == ClusterSpec => []ClusterAwake
<1>1. ClusterInvariant => ClusterAwake
  BY DEF ClusterInvariant, WorkerInvariant, ClusterAwake
<1> QED
  BY <1>1, ClusterIsInductive, PTL
=============================================================================
