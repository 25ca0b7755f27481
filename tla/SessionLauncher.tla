--------------------------- MODULE SessionLauncher ---------------------------
(***************************************************************************)
(* The guest's graphical session (scripts/rootfs/pinecone-session-         *)
(* launcher.c).  The session process makes sure that the system bus        *)
(* answers and that the input devices are known, with bounded waits, and   *)
(* becomes the compositor.  The client process runs Phosh with its output  *)
(* in a pipe, looks for the marker of a finished start in what it reads,   *)
(* announces it and starts the keyboard and the prewarmed settings, and    *)
(* takes everything down when the pipe has ended.  rcS starts a bus daemon *)
(* of its own when it sees no socket, whatever the launcher does meanwhile.*)
(***************************************************************************)
EXTENDS Integers, Sequences

CONSTANTS
    Marker,     \* "Phosh ready after": its first byte occurs nowhere else in it
    Bytes,      \* the bytes of Phosh's output
    MaxStream,  \* bytes of output
    ReadSize,   \* bytes of one read
    Grace       \* attempts of a bounded wait

VARIABLES
    session,    \* the session process: phase and attempt
    bus,        \* the socket's owner, who listens, and what rcS's daemon has still to do
    input,      \* udevd, its database of the touchscreen
    client,     \* the client process: phase, marker_progress, announced_ready
    children,   \* Phosh, the keyboard, the prewarmed settings; one that may not be signalled is "refused"
    pipe,       \* bytes written and not read, and the programs of Phosh that hold it open
    stream      \* ghost: what has been read

sessionVars == <<session, bus, input>>
clientVars == <<client, children, pipe, stream>>
vars == <<sessionVars, clientVars>>

Init ==
    /\ session = [phase |-> "check", attempt |-> 0]
    /\ bus \in [path : {"none", "boot"}, listening : {{}, {"boot"}}, boot : {"none", "checks", "binds", "listens"}]
    /\ bus.boot # "none" \/ bus.path = "none" => bus.listening = {}
    /\ bus.boot = "binds" => bus.path = "none"
    /\ bus.boot = "listens" => bus.path = "boot"
    /\ input \in [udevd : BOOLEAN, known : BOOLEAN]
    /\ client = [phase |-> "none", progress |-> 0, announced |-> FALSE]
    /\ children = [phosh |-> "none", osk |-> "none", settings |-> "none"]
    /\ pipe = [bytes |-> <<>>, held |-> FALSE]
    /\ stream = <<>>
-----------------------------------------------------------------------------
(* The session process.                                                    *)

Enter(phase) == session' = [phase |-> phase, attempt |-> 0]
\* system_bus_ready: connect succeeds when the socket's owner listens.
SystemBusReady == bus.path \in bus.listening

CheckBus ==
    /\ session.phase = "check"
    /\ IF SystemBusReady THEN Enter("input")
       ELSE IF bus.path # "none" THEN Enter("grace") ELSE Enter("start")
    /\ UNCHANGED <<bus, input, clientVars>>
\* A socket that does not answer may be that of a daemon that is coming up.
AwaitBootBus ==
    /\ session.phase = "grace"
    /\ IF SystemBusReady THEN Enter("input")
       ELSE IF session.attempt + 1 < Grace THEN session' = [session EXCEPT !.attempt = @ + 1]
       ELSE Enter("start")
    /\ UNCHANGED <<bus, input, clientVars>>
RemoveSocket ==
    /\ session.phase = "start"
    /\ bus' = [bus EXCEPT !.path = "none"] /\ Enter("spawn")
    /\ UNCHANGED <<input, clientVars>>
\* A daemon of its own, which takes the path whoever has bound it meanwhile; that
\* it cannot be started, or that there is no machine ID, is fatal.
StartBus ==
    /\ session.phase = "spawn"
    /\ \/ Enter("failed") /\ UNCHANGED bus
       \/ Enter("poll") /\ \E listening \in {bus.listening, bus.listening \cup {"own"}} :
                                bus' = [bus EXCEPT !.path = "own", !.listening = listening]
    /\ UNCHANGED <<input, clientVars>>
\* Mutant: the last attempt goes on without an answer.
AfterLastPoll == "input"
\* fatal("wait for system D-Bus").
AfterPolls == "failed"
PollBus ==
    /\ session.phase = "poll"
    /\ IF SystemBusReady THEN Enter("input")
       ELSE IF session.attempt + 1 < Grace THEN session' = [session EXCEPT !.attempt = @ + 1]
       ELSE Enter(AfterPolls)
    /\ UNCHANGED <<bus, input, clientVars>>
\* input_database_ready: udev has marked the touchscreen; udevd_is_running.
InputKnown == input.known
UdevdIsRunning == input.udevd
\* prepare_input: a running udevd gets a short chance; then one is started if
\* there is none, triggered, and its settling awaited for two seconds at most.
PrepareInput ==
    /\ session.phase = "input"
    /\ IF InputKnown THEN Enter("exec")
       ELSE IF UdevdIsRunning /\ session.attempt < Grace THEN session' = [session EXCEPT !.attempt = @ + 1]
       ELSE Enter("exec")
    /\ input' = IF session'.phase = "exec" /\ ~InputKnown THEN [input EXCEPT !.udevd = TRUE] ELSE input
    /\ UNCHANGED <<bus, clientVars>>
\* run_client up to the fork of Phosh; no pipe or no fork is fatal.
StartPhosh ==
    \/ client' = [client EXCEPT !.phase = "failed"] /\ UNCHANGED children
    \/ client' = [client EXCEPT !.phase = "open"] /\ children' = [children EXCEPT !.phosh = "running"]
\* start_network_manager leaves nothing to wait for; the log cannot be opened,
\* or the process becomes the compositor, which runs the client.
Exec ==
    /\ session.phase = "exec"
    /\ \/ Enter("failed") /\ UNCHANGED <<client, children>>
       \/ Enter("running") /\ StartPhosh
    /\ UNCHANGED <<bus, input, pipe, stream>>

\* rcS starts the daemon if it sees no socket.  The daemon replaces a socket that
\* is in its way or gives up, and listens.
BootBus ==
    /\ \/ /\ bus.boot = "checks"
          /\ bus' = [bus EXCEPT !.boot = IF bus.path = "none" THEN "binds" ELSE "none"]
       \/ bus.boot = "binds" /\ bus' = [bus EXCEPT !.path = "boot", !.boot = "listens"]
       \/ bus.boot = "binds" /\ bus' = [bus EXCEPT !.boot = "none"]
       \/ bus.boot = "listens" /\ bus' = [bus EXCEPT !.listening = @ \cup {"boot"}, !.boot = "none"]
    /\ UNCHANGED <<session, input, clientVars>>
OwnBusListens ==
    /\ bus.path = "own" /\ "own" \notin bus.listening /\ bus' = [bus EXCEPT !.listening = @ \cup {"own"}]
    /\ UNCHANGED <<session, input, clientVars>>
UdevKnows ==
    /\ input.udevd /\ ~input.known /\ input' = [input EXCEPT !.known = TRUE]
    /\ UNCHANGED <<session, bus, clientVars>>
-----------------------------------------------------------------------------
(* The client process.                                                     *)

\* The session log is opened when Phosh runs already; that it cannot be is fatal,
\* and then the client is gone, with its end of the pipe, and Phosh is not.
OpenLog ==
    /\ client.phase = "open"
    /\ \/ client' = [client EXCEPT !.phase = "reading"] /\ UNCHANGED pipe
       \/ client' = [client EXCEPT !.phase = "failed"] /\ pipe' = [pipe EXCEPT !.bytes = <<>>]
    /\ UNCHANGED <<sessionVars, children, stream>>

\* How far the marker has matched after one more byte.
MarkerStep(progress, byte) ==
    IF byte = Marker[progress + 1] THEN progress + 1 ELSE IF byte = Marker[1] THEN 1 ELSE 0
\* The bytes of one read; those after the marker are not looked at.
MarkerProgress(chunk) ==
    LET f[i \in 0..Len(chunk)] ==
          IF i = 0 THEN client.progress
          ELSE IF f[i - 1] = Len(Marker) THEN f[i - 1] ELSE MarkerStep(f[i - 1], chunk[i])
    IN f[Len(chunk)]

\* start_osk and start_settings_prewarm: each starts, or is absent, disabled or
\* not forked.
StartOSK == {"none", "running"}
StartSettingsPrewarm == {"none", "running"}
ReadOutput ==
    /\ client.phase = "reading"
    /\ \E n \in 1..ReadSize :
        /\ n <= Len(pipe.bytes)
        /\ LET chunk == SubSeq(pipe.bytes, 1, n)
               progress == IF client.announced THEN client.progress ELSE MarkerProgress(chunk)
               ready == ~client.announced /\ progress = Len(Marker)
           IN /\ client' = [client EXCEPT !.progress = progress, !.announced = @ \/ ready]
              /\ stream' = stream \o chunk
              /\ IF ready
                 THEN \E osk \in StartOSK, settings \in StartSettingsPrewarm :
                        children' = [children EXCEPT !.osk = osk, !.settings = settings]
                 ELSE UNCHANGED children
        /\ pipe' = [pipe EXCEPT !.bytes = SubSeq(@, n + 1, Len(@))]
    /\ UNCHANGED sessionVars
\* The end of the pipe: nobody holds it open any more.
EndOfOutput ==
    /\ client.phase = "reading" /\ pipe.bytes = <<>> /\ ~pipe.held /\ children.phosh # "running"
    /\ client' = [client EXCEPT !.phase = "wait"]
    /\ UNCHANGED <<sessionVars, children, pipe, stream>>
\* A read that fails ends the loop too, whoever still writes.
ReadFails ==
    /\ client.phase = "reading"
    /\ client' = [client EXCEPT !.phase = "wait"]
    /\ UNCHANGED <<sessionVars, children, pipe, stream>>
ReapPhosh ==
    /\ client.phase = "wait" /\ children.phosh = "exited"
    /\ children' = [children EXCEPT !.phosh = "none"]
    /\ client' = [client EXCEPT !.phase = "settings"]
    /\ UNCHANGED <<sessionVars, pipe, stream>>

\* Mutant: only a child that still runs is awaited.
AwaitsRunning(child) == children[child] = "running"
\* terminate_child: the signal is sent, to a child that has exited too, and the
\* child awaited; it is not when the signal may not be sent.
Awaits(child) == children[child] # "none"
Signalled(child) == [children EXCEPT ![child] = IF @ = "running" THEN "signalled" ELSE @]
TerminateChild(child, next) ==
    /\ client.phase = child
    /\ \/ Awaits(child) /\ children[child] = "running" /\ children' = Signalled(child) /\ UNCHANGED client
       \/ /\ Awaits(child)
          /\ \/ children[child] = "exited" /\ children' = [children EXCEPT ![child] = "none"]
             \/ children[child] = "running" /\ children' = [children EXCEPT ![child] = "refused"]
          /\ client' = [client EXCEPT !.phase = next]
       \/ ~Awaits(child) /\ client' = [client EXCEPT !.phase = next] /\ UNCHANGED children
    /\ UNCHANGED <<sessionVars, pipe, stream>>
Terminate == TerminateChild("settings", "osk") \/ TerminateChild("osk", "done")

\* Phosh and its programs.
Output ==
    /\ children.phosh = "running" \/ pipe.held
    /\ client.phase # "failed" \* nobody reads: the writer ends
    /\ Len(stream) + Len(pipe.bytes) < MaxStream
    /\ \E byte \in Bytes : pipe' = [pipe EXCEPT !.bytes = Append(@, byte)]
    /\ UNCHANGED <<sessionVars, client, children, stream>>
LaunchProgram ==
    /\ children.phosh = "running" /\ ~pipe.held /\ pipe' = [pipe EXCEPT !.held = TRUE]
    /\ UNCHANGED <<sessionVars, client, children, stream>>
ProgramExits ==
    /\ pipe.held /\ pipe' = [pipe EXCEPT !.held = FALSE]
    /\ UNCHANGED <<sessionVars, client, children, stream>>
ChildExits ==
    /\ \E child \in {"phosh", "osk", "settings"} :
        /\ children[child] \in {"running", "signalled"}
        /\ children' = [children EXCEPT ![child] = "exited"]
    /\ UNCHANGED <<sessionVars, client, pipe, stream>>
SignalledExits ==
    \E child \in {"osk", "settings"} : children[child] = "signalled" /\ ChildExits

SessionStep == CheckBus \/ AwaitBootBus \/ RemoveSocket \/ StartBus \/ PollBus \/ PrepareInput \/ Exec
ClientStep == OpenLog \/ ReadOutput \/ EndOfOutput \/ ReapPhosh \/ Terminate
Next ==
    \/ SessionStep \/ BootBus \/ OwnBusListens \/ UdevKnows
    \/ ClientStep \/ ReadFails \/ Output \/ LaunchProgram \/ ProgramExits \/ ChildExits
\* The processes run; a program that is told to terminate does.
Fairness == WF_vars(SessionStep) /\ WF_vars(ClientStep) /\ WF_vars(SignalledExits)
Spec == Init /\ [][Next]_vars /\ Fairness
-----------------------------------------------------------------------------
\* The start is announced, and the keyboard started, when and only when the
\* marker is in what Phosh has written, however the reads have cut it up and
\* whatever began like it before.
ReadyMeansMarker ==
    client.announced <=>
        \E i \in 0..Len(stream) - Len(Marker) : SubSeq(stream, i + 1, i + Len(Marker)) = Marker

\* The compositor is only run on a bus that answers.  It may stop answering for
\* the moment in which rcS's daemon, started when it saw no socket, has replaced
\* the socket and does not listen yet; afterwards that daemon serves the path.
BusServesSession ==
    session.phase \in {"input", "exec", "running"} => SystemBusReady \/ bus.boot = "listens"

\* A client that has ended has awaited what it started, but for a child it may
\* not signal; one that could not open the session log has started nothing
\* beside Phosh, which it leaves running (OpenLog).
EndAwaitsChildren ==
    /\ client.phase = "done" => \A child \in DOMAIN children : children[child] \in {"none", "refused"}
    /\ client.phase = "failed" => children.osk = "none" /\ children.settings = "none"

\* The session process has decided, and the client waits for output somebody can
\* still write, for Phosh when a read has failed, or for nothing any more.
Decided ==
    /\ session.phase \in {"running", "failed"}
    /\ \/ client.phase \in {"none", "done", "failed"}
       \/ client.phase = "reading" /\ (children.phosh = "running" \/ pipe.held)
       \/ client.phase = "wait" /\ children.phosh = "running"

\* No step announces, hands the compositor or leaves behind what it should not.
\* (Before the first step nothing has been.)
StepsAreRight == [][ReadyMeansMarker' /\ BusServesSession' /\ EndAwaitsChildren']_vars
=============================================================================
