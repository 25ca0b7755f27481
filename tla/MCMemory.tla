------------------------------- MODULE MCMemory -------------------------------
(* The memory system, one part in focus at a time: guest memory under its    *)
(* lock stripes, the translation caches above it, and the file behind the    *)
(* block device.                                                             *)
EXTENDS GuestMemory, TranslationCache, FileBlockStorage, TLC

CONSTANTS c1, c2, d1

VARIABLE focus

-----------------------------------------------------------------------------
(* Guest memory: two virtual CPUs and one device thread on three pages of   *)
(* two granules that share two lock stripes and two exclusive slots; the    *)
(* ranges are one granule and the two granules on either side of each page  *)
(* boundary, the second of which wraps around the stripes.                  *)

AccessRanges == {{0}, {1, 2}, {3, 4}, Granules}

Work(first, second, device) == c1 :> first @@ c2 :> second @@ d1 :> device

\* An exclusive sequence against every kind of store.
Exclusives ==
    {Work(<<"ldxr", "stxr">>, <<k>>, <<>>) :
        k \in {"write", "writePair", "writeBytes", "fill", "hot", "mapWrite"}}
        \cup {Work(<<"ldxp", "stxp">>, <<>>, <<k>>) :
                k \in {"hostWrite", "device", "release16", "dmaWrite", "rectWrite"}}
        \cup {Work(<<"ldxr", "stxr">>, <<"slowLdxr", "slowStxr">>, <<>>)}
\* Loads against the host's writes.
Observers ==
    {Work(<<k>>, <<"mapRead">>, <<"register", "hostWrite", "clear">>) :
        k \in {"read", "readPair", "readBytes", "hotRead"}}
        \cup {Work(<<"writePair">>, <<"mapWrite">>, <<"hostSpans", k>>) :
                k \in {"snapshot", "acquire16", "dmaRead", "rectRead"}}
\* Dirty pages and code pages against the display pipeline's scans.
Dirtying ==
    {Work(<<"decode", "hot", "write">>, <<"hot">>, <<"scan", "scan">>),
     Work(<<"ldxr", "slowStxr">>, <<"fill">>, <<"scan", "scan">>)}

AccessWorkloads == Exclusives \cup Observers \cup Dirtying
FirstObservation == {Work(<<"ldxr", "stxr">>, <<"hot">>, <<>>)}

-----------------------------------------------------------------------------
(* Translation: two CPUs, two pages of one block, one of them in the upper  *)
(* half, two ASIDs of one table.  The journal holds one invalidation and    *)
(* the private epoch wraps at three, so both limits are reached.            *)

MCStages == {[mmu |-> TRUE, ttbr0 |-> "t0", ttbr1 |-> "t1", asid |-> a] : a \in {0, 1}}
                \cup {[mmu |-> FALSE, ttbr0 |-> "t0", ttbr1 |-> "t1", asid |-> 0]}
Descriptor(type, global, user) ==
    [type |-> type, global |-> global, user |-> user, readOnly |-> user, uxn |-> ~user, pxn |-> user,
     accessed |-> TRUE, contiguous |-> FALSE]
MCDescriptors ==
    {Descriptor("table", TRUE, FALSE), Descriptor("table", FALSE, TRUE),
     [Descriptor("table", FALSE, FALSE) EXCEPT !.contiguous = TRUE],
     Descriptor("block", TRUE, FALSE), [Descriptor("invalid", TRUE, FALSE) EXCEPT !.accessed = FALSE]}

Pair(first, second) == c1 :> first @@ c2 :> second
\* Walks and hits against local and remote invalidations and switches.
Shootdowns ==
    {Pair(<<"access", "access">>, <<"tlbi">>), Pair(<<"access">>, <<"tlbi", "tlbi">>),
     Pair(<<"access", "tlbi", "block">>, <<>>),
     Pair(<<"access", "context", "tlbi", "context">>, <<>>)}
\* Levels, banks and dirty registers on one CPU.
Calls ==
    {Pair(<<"access", "msr", "eret", "access", "svc">>, <<>>),
     Pair(<<"sp", "msr", "svc", "sp", "eret", "sp", "burst">>, <<>>),
     Pair(<<"msr", "msr", "mrs", "block", "block", "burst">>, <<"tick">>)}
TranslationPrograms == Shootdowns \cup Calls

(* The file has three positions; a request is empty or of three segments, an *)
(* empty one among them: more segments than the stack array holds.           *)
MCVectors == {<<0>>, <<1, 0, 2>>}
-----------------------------------------------------------------------------
MCInit ==
    /\ focus \in {"memory", "translation", "storage"}
    /\ Init /\ (focus # "memory" => plan = Work(<<"read">>, <<"mapRead">>, <<"register", "hostWrite", "clear">>))
    /\ TranslationInit
    /\ focus # "translation" => /\ program = Pair(<<"access", "access">>, <<"tlbi">>)
                                /\ ~stage[c1].mmu
    /\ StorageInit

(* The device may go without further requests; the programs of the other    *)
(* two may not stop before their end.                                       *)
MCNext ==
    \/ focus = "memory" /\ Next /\ UNCHANGED <<focus, translationVars, storageVars>>
    \/ focus = "translation" /\ TranslationNext /\ UNCHANGED <<focus, vars, storageVars>>
    \/ focus = "storage" /\ StorageNext /\ UNCHANGED <<focus, vars, translationVars>>
    \/ focus = "storage" /\ UNCHANGED <<focus, vars, translationVars, storageVars>>

MCSpec == MCInit /\ [][MCNext]_<<focus, vars, translationVars, storageVars>>
===============================================================================
