------------------------- MODULE InterruptController -------------------------
(***************************************************************************)
(* SimpleInterruptController, the state behind the GIC: shared lines that  *)
(* one of the virtual CPUs in their target mask takes, and lines private   *)
(* to a virtual CPU, which are its timers and the software generated       *)
(* interrupts that other CPUs send.  Every operation runs under the        *)
(* controller's lock; an operation that may have made an interrupt         *)
(* deliverable then calls the wake handler, after unlocking.  The thread   *)
(* that owes that call is kept in `waking`.                                *)
(*                                                                         *)
(* The event counters, which only diagnostics read, are left out, and so   *)
(* are the enable bits and priority masks that VirtualGIC stores and that  *)
(* delivery ignores.                                                       *)
(***************************************************************************)
EXTENDS Naturals, Sequences, FiniteSets

CONSTANTS
    VCPUs,          \* virtual CPUs; 0 is the primary
    SharedLines,    \* lines from 32, raised by devices
    Timers,         \* lines 16 to 31, enabled per virtual CPU
    SGIs,           \* lines below 16, always enabled
    Routes,         \* the target masks that a guest sets
    Device          \* the threads of the device models

ASSUME ClusterAssumption ==
    /\ 0 \in VCPUs /\ VCPUs \subseteq Nat
    /\ Device \notin VCPUs
    /\ Routes \subseteq SUBSET VCPUs
    /\ Timers \cap SGIs = {}

PrivateLines == Timers \cup SGIs
WakingThreads == VCPUs \cup {Device}

VARIABLES
    pendingLines,            \* shared lines, oldest first
    enabled,            \* enabled shared lines
    active,             \* acknowledged shared lines
    sharedTargetMasks,  \* per shared line: the virtual CPUs it may go to
    targetedPending,    \* per virtual CPU: private lines, oldest first
    targetedEnabled,    \* per virtual CPU: enabled timers
    targetedActive,     \* per virtual CPU: acknowledged private lines
    waking,             \* threads about to call the wake handler
    wakeHandler             \* a wake handler is installed

controllerVars == <<pendingLines, enabled, active, sharedTargetMasks,
                    targetedPending, targetedEnabled, targetedActive,
                    waking, wakeHandler>>

Elements(s) == {s[i] : i \in 1..Len(s)}
WithLine(s, line) == IF line \in Elements(s) THEN s ELSE Append(s, line)

\* first(where:) and firstIndex(where:), for a condition that `lines` satisfy.
FirstIndex(s, lines) ==
    CHOOSE i \in 1..Len(s) : s[i] \in lines /\ \A j \in 1..i-1 : s[j] \notin lines
FirstOf(s, lines) == s[FirstIndex(s, lines)]

\* A line is queued once, so that removing all of its entries and removing
\* the first are the same.
WithoutLine(s, line) ==
    IF line \notin Elements(s) THEN s
      ELSE LET at == FirstIndex(s, {line})
           IN  SubSeq(s, 1, at - 1) \o SubSeq(s, at + 1, Len(s))

ControllerTypes ==
    /\ pendingLines \in Seq(SharedLines)
    /\ enabled \subseteq SharedLines
    /\ active \subseteq SharedLines
    /\ sharedTargetMasks \in [SharedLines -> SUBSET VCPUs]
    /\ targetedPending \in [VCPUs -> Seq(PrivateLines)]
    /\ targetedEnabled \in [VCPUs -> SUBSET Timers]
    /\ targetedActive \in [VCPUs -> SUBSET PrivateLines]
    /\ waking \subseteq WakingThreads
    /\ wakeHandler \in BOOLEAN

ControllerInit ==
    /\ pendingLines = <<>>
    /\ enabled = {}
    /\ active = {}
    /\ sharedTargetMasks = [l \in SharedLines |-> {0}]
    /\ targetedPending = [v \in VCPUs |-> <<>>]
    /\ targetedEnabled = [v \in VCPUs |-> {}]
    /\ targetedActive = [v \in VCPUs |-> {}]
    /\ waking = {}
    /\ wakeHandler = TRUE

\* The lines that pendingLine(targetVCPU:) and globalPendingLine(targetVCPU:)
\* accept: those a virtual CPU may acknowledge.
PendingFor(v) ==
    {l \in Elements(targetedPending[v]) :
        l \in SGIs \cup targetedEnabled[v] /\ l \notin targetedActive[v]}
SharedFor(v) ==
    {l \in Elements(pendingLines) :
        l \in enabled /\ l \notin active /\ v \in sharedTargetMasks[l]}

\* peekPending(targetVCPU:) is not nil.
Deliverable(v) == PendingFor(v) \cup SharedFor(v) # {}

\* The handler call an operation owes once it has unlocked.
Owes(t, wake) == waking' = IF wake /\ wakeHandler THEN waking \cup {t} ELSE waking

-----------------------------------------------------------------------------
(* Operations of devices and of the guest through the GIC.  `t` is the     *)
(* calling thread.                                                         *)

RaiseLine(l, t) ==
    /\ pendingLines' = WithLine(pendingLines, l)
    /\ Owes(t, TRUE)
    /\ UNCHANGED <<enabled, active, sharedTargetMasks, targetedPending,
                   targetedEnabled, targetedActive, wakeHandler>>

ClearLine(l) ==
    /\ pendingLines' = WithoutLine(pendingLines, l)
    /\ UNCHANGED <<enabled, active, sharedTargetMasks, targetedPending,
                   targetedEnabled, targetedActive, waking, wakeHandler>>

SetEnabled(l, on, t) ==
    /\ enabled' = IF on THEN enabled \cup {l} ELSE enabled \ {l}
    /\ Owes(t, on /\ l \in Elements(pendingLines))
    /\ UNCHANGED <<pendingLines, active, sharedTargetMasks, targetedPending,
                   targetedEnabled, targetedActive, wakeHandler>>

SetTargetMask(l, mask, t) ==
    /\ sharedTargetMasks' = [sharedTargetMasks EXCEPT ![l] = mask]
    /\ Owes(t, l \in Elements(pendingLines))
    /\ UNCHANGED <<pendingLines, enabled, active, targetedPending,
                   targetedEnabled, targetedActive, wakeHandler>>

RaiseLineFor(l, v, t) ==
    /\ targetedPending' = [targetedPending EXCEPT ![v] = WithLine(@, l)]
    /\ Owes(t, TRUE)
    /\ UNCHANGED <<pendingLines, enabled, active, sharedTargetMasks,
                   targetedEnabled, targetedActive, wakeHandler>>

ClearLineFor(l, v) ==
    /\ targetedPending' = [targetedPending EXCEPT ![v] = WithoutLine(@, l)]
    /\ UNCHANGED <<pendingLines, enabled, active, sharedTargetMasks,
                   targetedEnabled, targetedActive, waking, wakeHandler>>

SetEnabledFor(l, on, v, t) ==
    /\ targetedEnabled' = [targetedEnabled EXCEPT ![v] = IF on THEN @ \cup {l} ELSE @ \ {l}]
    /\ Owes(t, on /\ l \in Elements(targetedPending[v]))
    /\ UNCHANGED <<pendingLines, enabled, active, sharedTargetMasks,
                   targetedPending, targetedActive, wakeHandler>>

\* acknowledge(targetVCPU:): a private line first, else a shared one.
AcknowledgeLine(v) ==
    IF PendingFor(v) # {}
      THEN LET l == FirstOf(targetedPending[v], PendingFor(v)) IN
           /\ targetedPending' = [targetedPending EXCEPT ![v] = WithoutLine(@, l)]
           /\ targetedActive' = [targetedActive EXCEPT ![v] = @ \cup {l}]
           /\ UNCHANGED <<pendingLines, enabled, active, sharedTargetMasks,
                          targetedEnabled, waking, wakeHandler>>
      ELSE /\ SharedFor(v) # {}
           /\ LET l == FirstOf(pendingLines, SharedFor(v)) IN
              /\ pendingLines' = WithoutLine(pendingLines, l)
              /\ active' = active \cup {l}
           /\ UNCHANGED <<enabled, sharedTargetMasks, targetedPending,
                          targetedEnabled, targetedActive, waking, wakeHandler>>

\* complete(line:targetVCPU:): the end of interrupt.  A line that was raised
\* again while it was active is deliverable now.  Broken: without the wake.
CompleteQuietly(l, v, t) ==
    /\ targetedActive' = [targetedActive EXCEPT ![v] = @ \ {l}]
    /\ active' = IF l \in targetedActive[v] THEN active ELSE active \ {l}
    /\ UNCHANGED <<pendingLines, enabled, sharedTargetMasks, targetedPending,
                   targetedEnabled, waking, wakeHandler>>

Complete(l, v, t) ==
    /\ targetedActive' = [targetedActive EXCEPT ![v] = @ \ {l}]
    /\ active' = IF l \in targetedActive[v] THEN active ELSE active \ {l}
    /\ Owes(t, l \in Elements(pendingLines) \cup Elements(targetedPending[v]))
    /\ UNCHANGED <<pendingLines, enabled, sharedTargetMasks, targetedPending,
                   targetedEnabled, wakeHandler>>

\* setWakeHandler(nil), by the cluster when it stops.
RemoveHandler ==
    /\ wakeHandler' = FALSE
    /\ UNCHANGED <<pendingLines, enabled, active, sharedTargetMasks,
                   targetedPending, targetedEnabled, targetedActive, waking>>
=============================================================================
