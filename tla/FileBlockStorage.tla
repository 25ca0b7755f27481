-------------------------- MODULE FileBlockStorage --------------------------
(***************************************************************************)
(* The disk image behind the virtio block device (ARM64VizBlockIO.c):      *)
(* scattered reads and writes that the host may cut short at any byte,     *)
(* ranges of zeros, and a flush that is skipped while nothing is dirty.    *)
(* Every call holds the storage's lock, so calls do not interleave; the    *)
(* host's write-back and the loss of its power do.                         *)
(*                                                                         *)
(* The file is a page cache over a disk.  A byte is the number of the      *)
(* request that wrote it and the address it came from, or <<0>>.           *)
(***************************************************************************)
EXTENDS Integers, Sequences, FiniteSets

CONSTANTS
    FileSize,
    Vectors,      \* the lengths of the segments of a request
    StackVectors, \* segments that need no allocation
    ZeroChunk,    \* bytes of one write of zeros
    MaxRequests

VARIABLES
    cache, disk,  \* the file as it reads, and as it would be after a loss of power
    dirty,        \* is_dirty
    request,      \* the call that is under way, or that has just ended
    memory,       \* the buffers of a read
    promised,     \* ghost: byte -> what the last flush has promised, or Unpromised
    acknowledged, \* ghost: bytes whose last write was reported complete
    requests      \* ghost: how many there have been

storageVars == <<cache, disk, dirty, request, memory, promised, acknowledged, requests>>

Positions == 0..FileSize - 1
Unpromised == <<>>
Addresses == UNION {1..FileSize + Len(lengths) : lengths \in Vectors}
ASSUME StorageAssumption == FileSize \in Nat /\ Vectors \subseteq Seq(Nat)

\* How many bytes the segments from the first one on hold, up to each of them.
Through(lengths, first) ==
    LET through[i \in 0..Len(lengths)] == IF i < first THEN 0 ELSE through[i - 1] + lengths[i] IN through
Sum(lengths) == Through(lengths, 1)[Len(lengths)]
NoRequest == [kind |-> "none", result |-> "done"]
Ended == request.result # "busy"

StorageInit ==
    /\ cache = [p \in Positions |-> <<0, p>>]
    /\ disk = cache
    /\ dirty = FALSE
    /\ request = NoRequest
    /\ memory = [a \in Addresses |-> <<>>]
    /\ promised = [p \in Positions |-> Unpromised]
    /\ acknowledged = {}
    /\ requests = 0
-----------------------------------------------------------------------------
(* avz_block_io_vector.                                                    *)

\* The segments of a request lie one after the other in memory, apart.
Segments(lengths) ==
    [i \in 1..Len(lengths) |-> [base |-> i + Through(lengths, 1)[i - 1], length |-> lengths[i]]]
Lengths(segments) == [i \in 1..Len(segments) |-> segments[i].length]
\* The address of byte k, from 1, of segments from the first one on.
AddressOf(segments, first, k) ==
    LET through == Through(Lengths(segments), first)
        i == CHOOSE i \in first..Len(segments) : through[i - 1] < k /\ k <= through[i]
    IN segments[i].base + (k - 1 - through[i - 1])

\* Mutant: a segment that has been moved in full is not stepped over.
AdvanceWithin(segments, first, moved) ==
    [first |-> first,
     segments |-> [segments EXCEPT ![first] = [base |-> @.base + moved,
                                               length |-> IF moved < @.length THEN @.length - moved ELSE 0]]]
\* What is left of the segments once "moved" bytes are through: whole ones, and
\* empty ones behind them, are stepped over, the next is cut.
AdvanceSegments(segments, first, moved) ==
    LET through == Through(Lengths(segments), first)
        next == CHOOSE n \in first..Len(segments) + 1 :
                    /\ \A i \in first..n - 1 : through[i] <= moved
                    /\ n <= Len(segments) => through[n] > moved
        left == moved - through[next - 1]
    IN [first |-> next,
        segments |-> IF next > Len(segments) THEN segments
                     ELSE [segments EXCEPT ![next] = [base |-> @.base + left, length |-> @.length - left]]]
\* Validation: the range lies in the file.
Accepts(offset, total) == offset <= FileSize /\ total <= FileSize - offset

Vector ==
    /\ Ended /\ requests < MaxRequests /\ requests' = requests + 1
    /\ \E kind \in {"read", "write"}, lengths \in Vectors, offset \in 0..FileSize :
        LET total == Sum(lengths)
        IN \E result \in
                IF ~Accepts(offset, total) THEN {"invalid"}
                ELSE IF total = 0 THEN {"done"}
                ELSE IF Len(lengths) > StackVectors THEN {"busy", "no memory"} ELSE {"busy"} :
            request' = [kind |-> kind, lengths |-> lengths, offset |-> offset, total |-> total, result |-> result,
                        segments |-> Segments(lengths), first |-> 1, completed |-> 0, before |-> cache, id |-> requests']
    /\ memory' = [a \in Addresses |-> <<>>]
    /\ UNCHANGED <<cache, disk, dirty, promised, acknowledged>>

Written(n) == {request.offset + request.completed + k : k \in 0..n - 1}
\* pwritev and preadv move some of what is left; EINTR moves nothing.
Transfer ==
    /\ request.kind \in {"read", "write"} /\ request.result = "busy" /\ request.completed < request.total
    /\ \E n \in 1..request.total - request.completed :
        LET position == request.offset + request.completed
            Address(k) == AddressOf(request.segments, request.first, k)
            rest == AdvanceSegments(request.segments, request.first, n)
        IN /\ request' = [request EXCEPT !.completed = @ + n, !.first = rest.first, !.segments = rest.segments]
           /\ IF request.kind = "write"
              THEN /\ cache' = [p \in Positions |->
                                  IF p \in Written(n) THEN <<request.id, Address(p - position + 1)>> ELSE cache[p]]
                   /\ promised' = [p \in Positions |-> IF p \in Written(n) THEN Unpromised ELSE promised[p]]
                   /\ acknowledged' = acknowledged \ Written(n)
                   /\ UNCHANGED memory
              ELSE /\ memory' = [a \in Addresses |->
                                    IF \E k \in 1..n : Address(k) = a
                                    THEN cache[position - 1 + CHOOSE k \in 1..n : Address(k) = a] ELSE memory[a]]
                   /\ UNCHANGED <<cache, promised, acknowledged>>
    /\ UNCHANGED <<disk, dirty, requests>>
\* An error, or nothing moved, ends the request; what has been moved stays.
TransferFails ==
    /\ request.kind \in {"read", "write", "zero"} /\ request.result = "busy" /\ request.completed < request.total
    /\ request' = [request EXCEPT !.result = "failed"]
    /\ UNCHANGED <<cache, disk, dirty, memory, promised, acknowledged, requests>>

\* Mutant: only scattered writes make the file dirty.
DirtiesVector(kind) == kind = "write"
\* A write, or a range of zeros, that has been moved in full makes the file dirty.
Dirties(kind) == kind \in {"write", "zero"}
TransferEnds ==
    /\ request.kind \in {"read", "write", "zero"} /\ request.result = "busy" /\ request.completed = request.total
    /\ request' = [request EXCEPT !.result = "done"]
    /\ dirty' = (dirty \/ Dirties(request.kind))
    /\ acknowledged' = IF request.kind = "read" THEN acknowledged
                       ELSE acknowledged \cup {request.offset + k : k \in 0..request.total - 1}
    /\ UNCHANGED <<cache, disk, memory, promised, requests>>
-----------------------------------------------------------------------------
\* avz_file_block_storage_zero: chunks, each of which may be cut short.
Zero ==
    /\ Ended /\ requests < MaxRequests /\ requests' = requests + 1
    /\ \E offset \in 0..FileSize, total \in 0..FileSize :
        request' = [kind |-> "zero", offset |-> offset, total |-> total, completed |-> 0, before |-> cache, id |-> 0,
                    result |-> IF ~Accepts(offset, total) THEN "invalid" ELSE IF total = 0 THEN "done" ELSE "busy"]
    /\ UNCHANGED <<cache, disk, dirty, memory, promised, acknowledged>>
WriteZeros ==
    /\ request.kind = "zero" /\ request.result = "busy" /\ request.completed < request.total
    /\ \E n \in 1..ZeroChunk :
        /\ n <= request.total - request.completed
        /\ request' = [request EXCEPT !.completed = @ + n]
        /\ cache' = [p \in Positions |-> IF p \in Written(n) THEN <<0>> ELSE cache[p]]
        /\ promised' = [p \in Positions |-> IF p \in Written(n) THEN Unpromised ELSE promised[p]]
        /\ acknowledged' = acknowledged \ Written(n)
    /\ UNCHANGED <<disk, dirty, memory, requests>>

\* Mutant: the flag is reset before the outcome of fsync is known.
DirtyAfterAttempt(synced) == FALSE
\* is_dirty after fsync: a failed one leaves it to the next flush.
DirtyAfter(synced) == ~synced
\* avz_file_block_storage_flush; one that reports success makes a promise.
Flush ==
    /\ Ended /\ requests < MaxRequests /\ requests' = requests + 1
    /\ \E synced \in BOOLEAN :
        /\ disk' = IF dirty /\ synced THEN cache ELSE disk
        /\ dirty' = (dirty /\ DirtyAfter(synced))
        /\ request' = [kind |-> "flush", result |-> IF dirty /\ ~synced THEN "failed" ELSE "done"]
        /\ promised' = [p \in Positions |-> IF request'.result = "done" /\ p \in acknowledged THEN cache[p] ELSE promised[p]]
    /\ UNCHANGED <<cache, memory, acknowledged>>
\* avz_file_block_storage_close, and the next open.
CloseAndOpen ==
    /\ Ended /\ request # NoRequest
    /\ \E synced \in BOOLEAN : disk' = IF dirty /\ synced THEN cache ELSE disk
    /\ dirty' = FALSE
    /\ request' = NoRequest
    /\ acknowledged' = {}
    /\ UNCHANGED <<cache, memory, promised, requests>>
\* The host: it writes a byte back when it likes, and can lose its power.
WriteBack ==
    /\ \E p \in Positions : disk[p] # cache[p] /\ disk' = [disk EXCEPT ![p] = cache[p]]
    /\ UNCHANGED <<cache, dirty, request, memory, promised, acknowledged, requests>>
LosePower ==
    /\ cache # disk
    /\ cache' = disk
    /\ dirty' = FALSE
    /\ request' = NoRequest
    /\ acknowledged' = {}
    /\ UNCHANGED <<disk, memory, promised, requests>>

StorageNext ==
    \/ Vector \/ Transfer \/ TransferFails \/ TransferEnds \/ Zero \/ WriteZeros
    \/ Flush \/ CloseAndOpen \/ WriteBack \/ LosePower
StorageSpec == StorageInit /\ [][StorageNext]_storageVars
-----------------------------------------------------------------------------
\* The address of byte k of a request, from 0.
Source(k) == AddressOf(Segments(request.lengths), 1, k + 1)
\* A request that ends well has moved each byte of its segments, in order, to or
\* from its place in the file and no other byte, wherever the host cut it.
TransfersExact ==
    request.kind \in {"read", "write", "zero"} /\ request.result = "done" =>
        \A p \in Positions :
            LET k == p - request.offset
                inside == k >= 0 /\ k < request.total
            IN CASE request.kind = "read" -> inside => memory[Source(k)] = request.before[p]
                 [] request.kind = "write" -> cache[p] = IF inside THEN <<request.id, Source(k)>> ELSE request.before[p]
                 [] OTHER -> cache[p] = IF inside THEN <<0>> ELSE request.before[p]

\* What a flush has reported as stored is on the disk until it is written again:
\* a loss of power at any moment keeps it, after a flush that had failed before
\* or that found nothing to do as well.
FlushedSurvives == \A p \in Positions : promised[p] # Unpromised => disk[p] = promised[p]
=============================================================================
