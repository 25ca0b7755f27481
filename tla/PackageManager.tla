--------------------------- MODULE PackageManager ---------------------------
(***************************************************************************)
(* The guest's package application (scripts/rootfs/pinecone-packages.c): a *)
(* window with pages, a queue of changes of one kind, and at most one apk  *)
(* process at a time, whose completion arrives from the main loop.  A      *)
(* transaction is planned (--simulate), shown for confirmation, and only   *)
(* then applied.  The list of sources is a file other programs edit too.   *)
(*                                                                         *)
(* A package is its name; the metadata apk gives for it is the number of   *)
(* the index and of the installed set it was read from (world).            *)
(***************************************************************************)
EXTENDS Integers, FiniteSets

CONSTANTS
    Packages, ProtectedPackages,
    Sources,
    PageSize,
    Sessions,   \* the pages the user turns to, in one session each
    MaxGestures,\* of the user, by session
    MaxWorld,   \* changes of the installed set, of the indexes or of the sources, by the application
    MaxVersion, \* versions of the file of sources
    MaxOutput,  \* lines of apk's output
    LogLimit    \* of which the log can hold

VARIABLES
    ui,         \* page, return_page, package, offset, installed_filter, whether there is a query
                \* and a post_load_notice
    detail,     \* app.detail: what is shown, as <<name, world it was read in>>
    details,    \* details_cache: package -> world
    results,    \* app.results
    view,       \* app.installed
    system,     \* the packages that are installed
    world,
    queue, queueAction,
    process,    \* app.operation and the state of its process
    dialog,     \* the plan that waits for the user
    file,       \* /etc/apk/repositories: version and lines
    seen,       \* source_contents and source_etag
    session,    \* ghost: the member of Sessions
    gestures    \* ghost: how many gestures the user has made

uiVars == <<ui, detail, details, results, view>>
vars == <<uiVars, system, world, queue, queueAction, process, dialog, file, seen, session, gestures>>

Nothing == <<>>
Idle == [op |-> "none", lines |-> 0, failed |-> FALSE, request |-> {}]
Busy == process.op # "none"
Modal == dialog # Nothing
\* Mutant: the dialog of the plan leaves the window behind it usable.
RespondsBehind == ~Busy /\ ui.page # "closed"
\* The widgets respond: no process runs and no dialog is open.
Responds == ~Busy /\ ~Modal /\ ui.page # "closed"

\* activate: the manifest is valid; the window comes up and reads the installed set.
Init ==
    /\ ui = [page |-> "home", back |-> "home", package |-> "", offset |-> 0, filter |-> "added",
             query |-> FALSE, notice |-> FALSE]
    /\ detail = Nothing
    /\ details = [p \in Packages |-> 0]
    /\ results = {}
    /\ view = {}
    /\ system \in {ProtectedPackages, Packages}
    /\ world = 1
    /\ queue = {} /\ queueAction = "install"
    /\ process = [Idle EXCEPT !.op = "load"]
    /\ dialog = Nothing
    /\ file = [version |-> 1, lines |-> [s \in Sources |-> "enabled"]]
    /\ seen = Nothing
    /\ session \in Sessions
    /\ gestures = 0
-----------------------------------------------------------------------------
(* execute: one apk process; without one the call has no effect.           *)

Streams(op) == op \in {"refresh", "plan", "commit"}
Execute(op, request) ==
    \/ process' = [Idle EXCEPT !.op = op, !.request = request]
    \/ process' = Idle                                    \* it could not be spawned
\* run_query, for the pages that show its results.
Asks(page, query) == page = "updates" \/ (page = "search" /\ query)
RunQuery == Execute("query", {})
\* render_sources reads the file, which can fail.
Read(page) == IF page = "sources" THEN {file, Nothing} ELSE {seen}

\* What a page of results lists, and the part of it that is shown.
Listed(page) ==
    CASE page = "installed" -> {p \in view : ui.filter = "all" \/ (p \in ProtectedPackages) = (ui.filter = "bundled")}
      [] page = "updates" -> results \ ProtectedPackages
      [] page = "search" /\ ui.query -> results
      [] OTHER -> {}
ShowsMore == ui.offset + PageSize < Cardinality(Listed(ui.page))
-----------------------------------------------------------------------------
(* The user.                                                               *)

\* navigate: a page of sources reads the file; one of packages asks apk.
Navigate ==
    /\ Responds
    /\ \E page \in session :
        /\ ui' = [ui EXCEPT !.page = page, !.offset = 0]
        /\ results' = IF page \in {"updates", "search"} THEN {} ELSE results
        /\ seen' \in Read(page)
        /\ IF Asks(page, ui.query) THEN RunQuery ELSE UNCHANGED process
    /\ UNCHANGED <<detail, details, view, system, world, queue, queueAction, dialog, file>>
Back ==
    /\ Responds /\ ui.page \in {"section", "details", "queue"}
    /\ ui' = [ui EXCEPT !.page = IF ui.page = "details" THEN ui.back ELSE "home", !.offset = 0]
    /\ results' = IF ui'.page \in {"updates", "search"} THEN {} ELSE results
    /\ seen' \in Read(ui'.page)
    /\ IF Asks(ui'.page, ui.query) THEN RunQuery ELSE UNCHANGED process
    /\ UNCHANGED <<detail, details, view, system, world, queue, queueAction, dialog, file>>
SearchRequested ==
    /\ Responds /\ ui.page = "search"
    /\ \E query \in BOOLEAN :
        /\ ui' = [ui EXCEPT !.query = query, !.offset = 0]
        /\ results' = IF query THEN results ELSE {}
        /\ IF query THEN RunQuery ELSE UNCHANGED process
    /\ UNCHANGED <<detail, details, view, system, world, queue, queueAction, dialog, file, seen>>
ChangePage ==
    /\ Responds
    /\ \/ ui.offset > 0 /\ ui' = [ui EXCEPT !.offset = IF @ < PageSize THEN 0 ELSE @ - PageSize]
       \/ ShowsMore /\ ui' = [ui EXCEPT !.offset = @ + PageSize]
       \/ \E f \in {"added", "bundled", "all"} :
            ui.page = "installed" /\ ui' = [ui EXCEPT !.filter = f, !.offset = 0]
    /\ UNCHANGED <<detail, details, results, view, system, world, queue, queueAction, process, dialog, file, seen>>

\* open_package: the details come from the cache unless an update is looked at.
OpenPackage ==
    /\ Responds
    /\ \E p \in IF ui.page \in {"home", "section"} THEN Packages ELSE Listed(ui.page) :
        LET cached == ui.page # "updates" /\ details[p] # 0
        IN /\ ui' = [ui EXCEPT !.page = "details", !.back = ui.page, !.package = p]
           /\ detail' = IF cached THEN <<p, details[p]>> ELSE Nothing
           /\ IF cached THEN UNCHANGED process ELSE Execute("detail", {})
    /\ UNCHANGED <<details, results, view, system, world, queue, queueAction, dialog, file, seen>>

\* queue_change: protected packages are refused, and so is a second kind of
\* change; the button offers what the installed set seems to allow.
Offered(p) == IF p \notin view THEN "install" ELSE IF ui.back = "updates" THEN "update" ELSE "remove"
QueueSelected ==
    /\ Responds /\ ui.page = "details" /\ detail # Nothing
    /\ ui.package \notin ProtectedPackages \cup queue
    /\ IF queue # {} /\ queueAction # Offered(ui.package) THEN UNCHANGED <<queue, queueAction>>
       ELSE queue' = queue \cup {ui.package} /\ queueAction' = Offered(ui.package)
    /\ UNCHANGED <<uiVars, system, world, process, dialog, file, seen>>
RemoveQueued ==
    /\ Responds /\ ui.page \in {"queue", "details"}
    /\ \/ \E p \in queue : (ui.page = "details" => p = ui.package) /\ queue' = queue \ {p}
       \/ ui.page = "queue" /\ queue # {} /\ queue' = {}                     \* clear_queue
    /\ UNCHANGED <<uiVars, system, world, queueAction, process, dialog, file, seen>>

\* transaction_command, first to plan.
Request == [packages |-> queue, action |-> queueAction]
ReviewQueue ==
    /\ Responds /\ ui.page = "queue" /\ queue # {}
    /\ Execute("plan", Request)
    /\ UNCHANGED <<uiVars, system, world, queue, queueAction, dialog, file, seen>>
RefreshRequested ==
    /\ Responds
    /\ Execute("refresh", {})
    /\ UNCHANGED <<uiVars, system, world, queue, queueAction, dialog, file, seen>>
\* confirm_plan: the user applies the plan, or keeps the queue.
Confirm ==
    /\ Modal
    /\ dialog' = Nothing
    /\ Execute("commit", Request) \/ UNCHANGED process
    /\ UNCHANGED <<uiVars, system, world, queue, queueAction, file, seen>>
-----------------------------------------------------------------------------
(* Sources.                                                                *)

\* Mutant: the file is replaced whatever has become of it.
AlwaysCurrent == TRUE
\* g_file_replace_contents compares the etag of the contents that were read.
EtagIsCurrent == seen.version = file.version

Toggled(line) == CASE line = "enabled" -> "disabled" [] line = "disabled" -> "enabled" [] OTHER -> "enabled"
\* toggle_source and add_source: one line of what was read is changed and
\* the file replaced; the page is then drawn, and the file read, again.
WriteSource ==
    /\ Responds /\ ui.page = "sources" /\ seen # Nothing
    /\ world < MaxWorld /\ file.version < MaxVersion
    /\ \E s \in Sources, written \in BOOLEAN :
        IF written /\ EtagIsCurrent
        THEN /\ file' = [version |-> file.version + 1, lines |-> [seen.lines EXCEPT ![s] = Toggled(@)]]
             /\ details' = [p \in Packages |-> 0]
             /\ world' = world + 1
        ELSE UNCHANGED <<file, details, world>>
    /\ seen' \in {file', Nothing}
    /\ UNCHANGED <<ui, detail, results, view, system, queue, queueAction, process, dialog>>
OtherEdit ==
    /\ file.version < MaxVersion /\ "sources" \in session
    /\ \E s \in Sources, line \in {"enabled", "disabled", "absent"} :
        file' = [version |-> file.version + 1, lines |-> [file.lines EXCEPT ![s] = line]]
    /\ UNCHANGED <<uiVars, system, world, queue, queueAction, process, dialog, seen>>
\* closing: not while apk runs; a queue is discarded only when the user says so.
Close ==
    /\ Responds
    /\ ui' = [ui EXCEPT !.page = "closed"]
    /\ UNCHANGED <<detail, details, results, view, system, world, queue, queueAction, process, dialog, file, seen>>
-----------------------------------------------------------------------------
(* The process.                                                            *)

\* transaction_line: output; more than the log can hold, or a read that fails,
\* spoils the preview.
TransactionLine ==
    /\ Streams(process.op) /\ process.lines < MaxOutput
    /\ \/ process' = [process EXCEPT !.lines = @ + 1, !.failed = @ \/ process.lines >= LogLimit]
       \/ process' = [process EXCEPT !.lines = MaxOutput, !.failed = TRUE]
    /\ UNCHANGED <<uiVars, system, world, queue, queueAction, dialog, file, seen>>

\* What a commit makes of the installed set; one that fails may have done a part.
Applied(request) ==
    IF request.action = "remove" THEN {system \ request.packages}
    ELSE {system \cup request.packages}
PartlyApplied(request) ==
    {IF request.action = "remove" THEN system \ done ELSE system \cup done : done \in SUBSET request.packages}

LoadInstalled == Execute("load", {})

\* details_cache after a commit that has failed: apk may have done a part of it.
DetailsAfterFailure == [p \in Packages |-> 0]

\* process_result for a process that failed: what a commit has changed is
\* read again; the queue stays.  A refresh that fails after some of its indexes
\* keeps every cache, so world does not count it.
Failed ==
    /\ Busy
    /\ IF process.op = "commit"
       THEN /\ system' \in PartlyApplied(process.request)
            /\ world' = IF world < MaxWorld THEN world + 1 ELSE world
            /\ details' = DetailsAfterFailure
            /\ ui' = [ui EXCEPT !.notice = TRUE]
            /\ LoadInstalled
       ELSE process' = Idle /\ UNCHANGED <<system, world, details, ui>>
    /\ UNCHANGED <<detail, results, view, queue, queueAction, dialog, file, seen>>

PlanSucceeded ==
    /\ process.op = "plan" /\ ~process.failed
    /\ process' = Idle
    /\ dialog' = process.request
    /\ UNCHANGED <<uiVars, system, world, queue, queueAction, file, seen>>
CommitSucceeded ==
    /\ process.op = "commit" /\ ~process.failed
    /\ system' \in Applied(process.request)
    /\ world' = IF world < MaxWorld THEN world + 1 ELSE world
    /\ details' = [p \in Packages |-> 0]
    /\ queue' = {}
    /\ LoadInstalled
    /\ UNCHANGED <<ui, detail, results, view, queueAction, dialog, file, seen>>
RefreshSucceeded ==
    /\ process.op = "refresh" /\ ~process.failed
    /\ world' = IF world < MaxWorld THEN world + 1 ELSE world
    /\ details' = [p \in Packages |-> 0]
    /\ LoadInstalled
    /\ UNCHANGED <<ui, detail, results, view, system, queue, queueAction, dialog, file, seen>>
\* The installed set has been read; a page of results then asks again, unless
\* there is news of a failed transaction to show.
Loaded ==
    /\ process.op = "load"
    /\ view' = system
    /\ seen' \in Read(ui.page)
    /\ ui' = [ui EXCEPT !.notice = FALSE]
    /\ IF ~ui.notice /\ Asks(ui.page, ui.query) THEN RunQuery ELSE process' = Idle
    /\ UNCHANGED <<detail, details, results, system, world, queue, queueAction, dialog, file>>
\* Details are kept unless they are those of an update; there may be none.
DetailArrived ==
    /\ process.op = "detail"
    /\ process' = Idle
    /\ \/ /\ detail' = <<ui.package, world>>
          /\ details' = IF ui.back = "updates" THEN details ELSE [details EXCEPT ![ui.package] = world]
       \/ UNCHANGED <<detail, details>>
    /\ UNCHANGED <<ui, results, view, system, world, queue, queueAction, dialog, file, seen>>
QueryArrived ==
    /\ process.op = "query"
    /\ process' = Idle
    /\ results' \in {{}, Packages}
    /\ UNCHANGED <<ui, detail, details, view, system, world, queue, queueAction, dialog, file, seen>>

Completed ==
    \/ Failed \/ PlanSucceeded \/ CommitSucceeded \/ RefreshSucceeded \/ Loaded \/ DetailArrived \/ QueryArrived
User ==
    \/ Navigate \/ Back \/ SearchRequested \/ ChangePage \/ OpenPackage \/ QueueSelected \/ RemoveQueued
    \/ ReviewQueue \/ RefreshRequested \/ Confirm \/ WriteSource \/ Close
Next ==
    /\ \/ gestures < MaxGestures[session] /\ gestures' = gestures + 1 /\ User
       \/ (OtherEdit \/ TransactionLine \/ Completed) /\ UNCHANGED gestures
    /\ UNCHANGED session
Spec == Init /\ [][Next]_vars
-----------------------------------------------------------------------------
\* What apk applies is what was planned in full and shown to the user: the
\* packages and the kind of change of a commit are those of the plan that was
\* confirmed, and no package of Pinecone's own is among them.
CommitsWerePlanned ==
    [][(process.op # "commit" /\ process'.op = "commit") =>
            process'.request = dialog /\ dialog.packages \cap ProtectedPackages = {}]_vars

\* An edit of the list of sources keeps every other line as it is, the edits
\* other programs have made since the list was read included.
EditsOneSource == [][Cardinality({s \in Sources : file'.lines[s] # file.lines[s]}) <= 1]_vars

\* The details of the page belong to the package of the page, and none is cached
\* across a transaction, whether it succeeds or stops half way, a refresh that
\* succeeds or an edit of the sources: a page opened later does not find it.
\* The page that is open keeps its details over all of these (process_result
\* renders it again from app.detail, which only open_package clears), so
\* nothing is claimed of the world in `detail`.
CachedDetailsAreCurrent ==
    /\ detail # Nothing => detail[1] = ui.package
    /\ \A p \in Packages : details[p] # 0 => details[p] = world
=============================================================================
