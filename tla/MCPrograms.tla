------------------------------ MODULE MCPrograms ------------------------------
(* The programs of the guest, one in focus at a time: a compositor and its   *)
(* client thread that draw through the Pixman bridge, the package            *)
(* application, and the launcher of the graphical session.                   *)
EXTENDS PixmanBridge

VARIABLES
    focus,
    ui, detail, details, results, view, system, world, queue, queueAction, process, dialog, file,
    seen, visit, gestures,
    session, bus, input, client, children, pipe, stream

-----------------------------------------------------------------------------
(* The process that draws.                                                   *)

MCImages == {"owned", "second", "frame", "foreign", "local", "color"}
MCStores == {"a", "b", "d", "m", "n", "c"}
MCStoreOf == [owned |-> "a", second |-> "b", frame |-> "d", foreign |-> "m", local |-> "n", color |-> "c"]

Draw(s, m, d) == [op |-> "composite", src |-> s, mask |-> m, dst |-> d, onCPU |-> FALSE]
Paint(s, d) == Draw(s, NoImage, d)
DrawOnCPU(s, d) == [op |-> "composite", src |-> s, mask |-> NoImage, dst |-> d, onCPU |-> TRUE]
Do(name) == [op |-> name]
WithImage(name, i) == [op |-> name, image |-> i]
WithStore(name, s) == [op |-> name, store |-> s]
GetData(i, esc) == [op |-> "getData", image |-> i, escaping |-> esc]
BeginAccess(flag) == [op |-> "beginAccess", flag |-> flag]
BufferBegin(s, flag) == [op |-> "bufferBegin", store |-> s, flag |-> flag]
FillStore(s, opaque) == [op |-> "fill", store |-> s, opaque |-> opaque]
SetState(i, unsafe) == [op |-> "setState", image |-> i, unsafe |-> unsafe]
Post(m) == [op |-> "post", message |-> m]
Receive(m) == [op |-> "receive", message |-> m]
Create(i) == WithImage("create", i)
Buffer(s, i) == <<WithStore("register", s), WithImage("attach", i)>>

\* A frame of more draws than a batch holds; the other thread reads it back,
\* the CPU changes the source, and the next frame is drawn.
PassThenRead ==
    [render |-> Buffer("d", "frame") \o
        <<Create("owned"), Create("second"), Do("beginPass"), Paint("owned", "frame"), Draw("color", "second", "frame"), Paint("owned", "frame"),
          Do("endPass"), Do("commit"), Post("drawn"), BeginAccess("w"), GetData("owned", FALSE), WithImage("write", "owned"),
          Do("endAccess"), Receive("read"), Do("beginPass"), Paint("owned", "frame"), WithImage("unref", "owned"), Do("endPass"), Do("exit")>>,
     client |-> <<Receive("drawn"), BufferBegin("d", "r"), WithImage("read", "frame"), WithStore("bufferEnd", "d"), Post("read")>>]

\* A source and a mask the process keeps writing between the draws of a frame.
Redraw ==
    [render |-> Buffer("d", "frame") \o
        <<GetData("foreign", TRUE), Do("beginComposite"), Paint("foreign", "frame"), WithImage("write", "foreign"), Paint("foreign", "frame"),
          WithImage("write", "foreign"), Paint("foreign", "frame"), WithImage("write", "foreign"),
          Draw("foreign", "foreign", "frame"), Do("endComposite"), WithImage("unref", "foreign")>>,
     client |-> <<Create("second"), Draw("local", "local", "second")>>]

\* A source in a registered buffer, written in scopes that nest with the draws.
Scopes ==
    [render |-> Buffer("d", "frame") \o Buffer("m", "foreign") \o
        <<Do("beginComposite"), Paint("foreign", "frame"), Paint("foreign", "frame"),
          BeginAccess("r"), BeginAccess("w"), GetData("foreign", FALSE), GetData("local", FALSE), Paint("foreign", "frame"), WithImage("write", "foreign"),
          Do("endAccess"), Do("endAccess"), Paint("foreign", "frame"),
          BufferBegin("m", "w"), WithImage("write", "foreign"), WithStore("bufferEnd", "m"), Paint("foreign", "frame"), Do("endComposite"),
          WithStore("unregister", "m"), Paint("foreign", "frame"), Do("exit")>>,
     client |-> <<Create("second"), WithStore("register", "a"), GetData("second", TRUE), WithImage("read", "second"), WithStore("bufferEnd", "b"), BufferBegin("b", "r")>>]

\* Images that go while their draws are queued, and the calls that wait for
\* everything.
Lifetimes ==
    [render |-> Buffer("d", "frame") \o
        <<Create("owned"), Create("second"), Do("beginPass"), Paint("owned", "frame"), WithImage("unref", "owned"), Paint("second", "frame"),
          WithImage("unref", "second"), Do("ioctl"), Paint("color", "frame"), Do("endPass"), Do("export"), WithStore("munmap", "d"), WithStore("mmap", "d"),
          Paint("color", "frame"), Do("exit")>>,
     client |-> <<Do("ioctl"), Paint("color", "local"), Do("endAccess")>>]

\* Fills, snapshots and draws the GPU cannot do.
Fallbacks ==
    [render |-> Buffer("d", "frame") \o
        <<WithImage("snapshot", "owned"), WithImage("snapshot", "second"), Do("beginPass"), Paint("owned", "frame"), WithImage("update", "owned"),
          Paint("owned", "frame"), FillStore("d", TRUE), DrawOnCPU("owned", "frame"), Paint("color", "frame"), FillStore("d", FALSE),
          SetState("owned", TRUE), Draw("owned", NoImage, "frame"), Draw("second", "owned", "frame"), FillStore("m", TRUE), WithImage("update", "second"), Do("endComposite"), Do("exit")>>,
     client |-> <<GetData("local", TRUE), WithStore("register", "n"), WithImage("attach", "local")>>]

MCWorkloads == {PassThenRead, Redraw, Scopes, Lifetimes, Fallbacks}
-----------------------------------------------------------------------------
(* The package application and the launcher.  The marker has a first byte    *)
(* that occurs nowhere else in it, as the code's has.                        *)

Visits == {{"queue"}, {"sources"}, {"updates", "queue"}, {"installed"}, {"search", "section"}}

Apps == INSTANCE PackageManager WITH
    Packages <- {"p1", "p2", "base"}, ProtectedPackages <- {"base"}, Sources <- {"s1", "s2"},
    PageSize <- 2, MaxGestures <- [v \in Visits |-> IF v = {"queue"} THEN 6 ELSE 5],
    MaxWorld <- 3, MaxVersion <- 3, MaxOutput <- 2, LogLimit <- 1, Sessions <- Visits, session <- visit

Launcher == INSTANCE SessionLauncher WITH
    Marker <- <<"P", "h", "x">>, Bytes <- {"P", "h", "x"}, MaxStream <- 4, ReadSize <- 3, Grace <- 2

appVars == <<ui, detail, details, results, view, system, world, queue, queueAction, process,
             dialog, file, seen, visit, gestures>>
launcherVars == <<session, bus, input, client, children, pipe, stream>>
all == <<focus, vars, appVars, launcherVars>>

DrawStep(A) == focus = "draw" /\ A /\ UNCHANGED <<focus, appVars, launcherVars>>
AppStep(A) == focus = "app" /\ A /\ UNCHANGED <<focus, vars, launcherVars>>
LaunchStep(A) == focus = "launch" /\ A /\ UNCHANGED <<focus, vars, appVars>>

MCInit ==
    /\ focus \in {"draw", "app", "launch"}
    /\ Init /\ Apps!Init /\ Launcher!Init
    /\ focus # "draw" => prog = Lifetimes
    /\ focus # "app" => visit = {"queue"} /\ system = {"base"}
    /\ focus # "launch" => bus.path = "none" /\ bus.boot = "none" /\ ~input.udevd /\ ~input.known

\* An application that is closed, or a session that has ended, stays so; the
\* threads that draw have a Done of their own, and must not block before it.
Rests == focus # "draw" /\ UNCHANGED all

MCNext == DrawStep(Next) \/ AppStep(Apps!Next) \/ LaunchStep(Launcher!Next) \/ Rests

\* The launcher's processes run; a program that is told to terminate does.
MCFairness ==
    /\ WF_all(LaunchStep(Launcher!SessionStep))
    /\ WF_all(LaunchStep(Launcher!ClientStep))
    /\ WF_all(LaunchStep(Launcher!SignalledExits))

MCSpec == MCInit /\ [][MCNext]_all /\ MCFairness

(* A commit applies what was planned, shown and confirmed, and nothing that  *)
(* is protected; an edit of the sources keeps what others have edited; and   *)
(* the details shown are those of the package of the page, and those cached  *)
(* for later pages are of the indexes and the installed set as the           *)
(* application has left them.                                                *)
ChangesAreMeant == Apps!CommitsWerePlanned /\ Apps!EditsOneSource /\ []Apps!CachedDetailsAreCurrent

(* The launcher comes to a decision; its client awaits its children, unless  *)
(* it may not signal one or could not open the session log after Phosh was   *)
(* started; it announces the start when the marker is there; and the         *)
(* compositor runs on a bus that answers, but for the moment in which rcS's  *)
(* daemon takes the path over.                                               *)
LauncherKeepsItsWord ==
    Launcher!StepsAreRight /\ []<>(focus = "launch" => Launcher!Decided)
===============================================================================
