------------------------ MODULE FileBlockStorageProofs ------------------------
(***************************************************************************)
(* What a flush promises, and where the bytes of a request go, for files   *)
(* of any size, requests of any segments and any number of them.           *)
(***************************************************************************)
EXTENDS FileBlockStorage, WellFoundedInduction, TLAPS

-----------------------------------------------------------------------------
(* What a flush promises.  Which bytes a transfer moves does not matter,   *)
(* only that it withdraws the promises and acknowledgements of those it    *)
(* overwrites.                                                             *)

\* A promise holds in the page cache as well as on the disk: otherwise the
\* host's next write-back would break it.
PromisesKept == \A p \in Positions : promised[p] # Unpromised => disk[p] = promised[p] /\ cache[p] = promised[p]
\* While the file is clean, what was acknowledged is on the disk: this is what
\* lets a flush report success without calling fsync.
CleanIsStored == ~dirty => \A p \in acknowledged \cap Positions : disk[p] = cache[p]
FileTypes ==
    /\ cache = [p \in Positions |-> cache[p]]
    /\ disk = [p \in Positions |-> disk[p]]
    /\ dirty \in BOOLEAN
StorageInvariant == FileTypes /\ PromisesKept /\ CleanIsStored

\* The initial file keeps its promises, of which there are none.
LEMMA InitStorage == StorageInit => StorageInvariant
  BY DEF StorageInit, StorageInvariant, FileTypes, PromisesKept, CleanIsStored

\* Bytes that are overwritten lose their promise and their acknowledgement.
LEMMA OverwrittenBytes ==
    ASSUME StorageInvariant, NEW moved,
           cache' = [p \in Positions |-> cache'[p]],
           \A p \in Positions : p \notin moved => cache'[p] = cache[p],
           promised' = [p \in Positions |-> IF p \in moved THEN Unpromised ELSE promised[p]],
           acknowledged' = acknowledged \ moved, UNCHANGED <<disk, dirty>>
    PROVE  StorageInvariant'
  BY DEF StorageInvariant, FileTypes, PromisesKept, CleanIsStored

\* Every step keeps the promises.
LEMMA StepStorage == StorageInvariant /\ [StorageNext]_storageVars => StorageInvariant'
<1> SUFFICES ASSUME StorageInvariant, [StorageNext]_storageVars PROVE StorageInvariant'
  OBVIOUS
<1> USE DEF StorageInvariant, FileTypes, PromisesKept, CleanIsStored
<1>1. CASE Vector
  BY <1>1 DEF Vector
<1>2. CASE Transfer
  <2>1. UNCHANGED <<disk, dirty>>
    BY <1>2 DEF Transfer
  <2>2. \/ UNCHANGED <<cache, promised, acknowledged>>
        \/ \E n \in 1..request.total - request.completed :
              /\ cache' = [p \in Positions |-> cache'[p]]
              /\ \A p \in Positions : p \notin Written(n) => cache'[p] = cache[p]
              /\ promised' = [p \in Positions |-> IF p \in Written(n) THEN Unpromised ELSE promised[p]]
              /\ acknowledged' = acknowledged \ Written(n)
    BY <1>2 DEF Transfer
  <2>3. CASE UNCHANGED <<cache, promised, acknowledged>>
    BY <2>1, <2>3
  <2> QED
    BY <2>1, <2>2, <2>3, OverwrittenBytes
<1>3. CASE TransferFails
  BY <1>3 DEF TransferFails
<1>4. CASE TransferEnds
  BY <1>4 DEF TransferEnds, Dirties
<1>5. CASE Zero
  BY <1>5 DEF Zero
<1>6. CASE WriteZeros
  <2>1. PICK n \in 1..ZeroChunk :
          /\ cache' = [p \in Positions |-> IF p \in Written(n) THEN <<0>> ELSE cache[p]]
          /\ promised' = [p \in Positions |-> IF p \in Written(n) THEN Unpromised ELSE promised[p]]
          /\ acknowledged' = acknowledged \ Written(n)
          /\ UNCHANGED <<disk, dirty>>
    BY <1>6 DEF WriteZeros
  <2> QED
    BY <2>1, OverwrittenBytes
<1>7. CASE Flush
  BY <1>7 DEF Flush, DirtyAfter
<1>8. CASE CloseAndOpen
  BY <1>8 DEF CloseAndOpen
<1>9. CASE WriteBack
  BY <1>9 DEF WriteBack
<1>10. CASE LosePower
  BY <1>10 DEF LosePower
<1>11. CASE UNCHANGED storageVars
  BY <1>11 DEF storageVars
<1> QED
  BY <1>1, <1>2, <1>3, <1>4, <1>5, <1>6, <1>7, <1>8, <1>9, <1>10, <1>11 DEF StorageNext

\* What a flush has reported as stored survives a loss of power at any moment,
\* until it is written again.
THEOREM FlushedIsDurable == StorageSpec => []FlushedSurvives
<1>1. StorageInvariant => FlushedSurvives
  BY DEF StorageInvariant, PromisesKept, FlushedSurvives
<1> QED
  BY <1>1, InitStorage, StepStorage, PTL DEF StorageSpec

-----------------------------------------------------------------------------
(* How segments are counted and cut.                                       *)

\* A set of naturals that is not empty has a lowest member.
LEMMA LowestIsMember ==
    ASSUME NEW S \in SUBSET Nat, S # {}
    PROVE  \E s \in S : \A t \in S : s <= t
<1> DEFINE less == {ss \in Nat \X Nat : ss[1] < ss[2]}
<1>1. PICK s \in S : \A t \in S : ~ (<<t, s>> \in less)
  <2>1. IsWellFoundedOn(less, Nat)
    BY NatLessThanWellFounded, Zenon DEF OpToRel
  <2> HIDE DEF less
  <2> QED
    BY <2>1, WFMin
<1>2. ASSUME NEW t \in S PROVE s <= t
  <2>1. <<t, s>> \in Nat \X Nat /\ <<t, s>>[1] = t /\ <<t, s>>[2] = s
    OBVIOUS
  <2>2. t < s => <<t, s>> \in less
    BY <2>1, Zenon
  <2> QED
    BY <1>1, <2>2
<1> QED
  BY <1>2

\* The bytes up to each segment, as equations.
IsThrough(f, lengths, first, n) ==
    /\ f \in [0..n -> Nat]
    /\ \A i \in 0..n : f[i] = IF i < first THEN 0 ELSE f[i - 1] + lengths[i]

\* The equations have a solution up to any segment.
LEMMA ThroughExists ==
    ASSUME NEW lengths \in Seq(Nat), NEW first \in Nat, first > 0, NEW m \in 0..Len(lengths)
    PROVE  \E f : IsThrough(f, lengths, first, m)
<1> DEFINE Bad == {n \in 0..Len(lengths) : ~ \E f : IsThrough(f, lengths, first, n)}
<1>1. SUFFICES ASSUME Bad # {} PROVE FALSE
  OBVIOUS
<1>2. Len(lengths) \in Nat /\ Bad \in SUBSET Nat
  OBVIOUS
<1>3. PICK n \in Bad : \A t \in Bad : n <= t
  BY <1>1, <1>2, LowestIsMember
<1>4. n \in 0..Len(lengths) /\ ~ \E f : IsThrough(f, lengths, first, n)
  OBVIOUS
<1>5. CASE n = 0
  <2> DEFINE f == [i \in 0..0 |-> 0]
  <2>1. f \in [0..0 -> Nat] /\ \A i \in 0..0 : i < first /\ f[i] = 0
    OBVIOUS
  <2>2. IsThrough(f, lengths, first, 0)
    BY <2>1 DEF IsThrough
  <2> QED
    BY <1>4, <1>5, <2>2
<1>6. CASE n # 0
  <2>0. n \in Nat /\ ~ n <= n - 1
    BY <1>4
  <2>1. n - 1 \in 0..Len(lengths) /\ n - 1 \notin Bad /\ n \in Nat
    <3>1. n - 1 \in 0..Len(lengths)
      BY <1>2, <1>4, <1>6, <2>0
    <3> QED
      BY <1>3, <2>0, <3>1
  <2>2. PICK g : IsThrough(g, lengths, first, n - 1)
    BY <2>1
  <2> DEFINE f == [i \in 0..n |-> IF i < n THEN g[i] ELSE IF n < first THEN 0 ELSE g[n - 1] + lengths[n]]
  <2>3. lengths[n] \in Nat
    BY <1>4, <1>6
  <2>4. g \in [0..n - 1 -> Nat] /\ \A i \in 0..n - 1 : g[i] = IF i < first THEN 0 ELSE g[i - 1] + lengths[i]
    BY <2>2 DEF IsThrough
  <2>5. f \in [0..n -> Nat]
    <3>1. ASSUME NEW i \in 0..n PROVE f[i] \in Nat
      <4>1. CASE i < n
        BY <2>1, <2>4, <4>1
      <4>2. CASE i = n
        BY <2>1, <2>3, <2>4, <1>6, <4>2
      <4> QED
        BY <2>1, <4>1, <4>2
    <3> QED
      BY <3>1
  <2>6. ASSUME NEW i \in 0..n PROVE f[i] = IF i < first THEN 0 ELSE f[i - 1] + lengths[i]
    <3>1. CASE i < n
      <4>1. i \in 0..n - 1 /\ f[i] = g[i]
        BY <2>1, <3>1
      <4>2. i >= first => i - 1 \in 0..n /\ i - 1 < n /\ f[i - 1] = g[i - 1]
        BY <2>1, <3>1
      <4>3. g[i] = IF i < first THEN 0 ELSE g[i - 1] + lengths[i]
        BY <2>4, <4>1
      <4>4. i \in Nat
        BY <2>1
      <4> HIDE DEF f
      <4> QED
        BY <4>1, <4>2, <4>3, <4>4
    <3>2. CASE i = n
      <4>1. f[i] = IF n < first THEN 0 ELSE g[n - 1] + lengths[n]
        BY <2>1, <3>2
      <4>2. f[n - 1] = g[n - 1]
        BY <2>1, <1>6
      <4> QED
        BY <3>2, <4>1, <4>2
    <3> QED
      BY <2>1, <3>1, <3>2
  <2> HIDE DEF f
  <2>7. IsThrough(f, lengths, first, n)
    BY <2>5, <2>6 DEF IsThrough
  <2> QED
    BY <1>4, <2>7
<1> QED
  BY <1>5, <1>6

\* The bytes up to each segment.
LEMMA ThroughIs ==
    ASSUME NEW lengths \in Seq(Nat), NEW first \in Nat, first > 0
    PROVE  /\ Through(lengths, first) \in [0..Len(lengths) -> Nat]
           /\ \A i \in 0..Len(lengths) :
                 Through(lengths, first)[i] = IF i < first THEN 0 ELSE Through(lengths, first)[i - 1] + lengths[i]
<1>1. Through(lengths, first) =
        CHOOSE f : f = [i \in 0..Len(lengths) |-> IF i < first THEN 0 ELSE f[i - 1] + lengths[i]]
  BY Zenon DEF Through
<1>2. PICK g : IsThrough(g, lengths, first, Len(lengths))
  <2>1. Len(lengths) \in 0..Len(lengths)
    OBVIOUS
  <2> QED
    BY <2>1, ThroughExists
<1>3. g = [i \in 0..Len(lengths) |-> IF i < first THEN 0 ELSE g[i - 1] + lengths[i]]
  BY <1>2 DEF IsThrough
<1>4. Through(lengths, first) =
        [i \in 0..Len(lengths) |-> IF i < first THEN 0 ELSE Through(lengths, first)[i - 1] + lengths[i]]
  BY <1>1, <1>3, Zenon
<1>5. ASSUME NEW f, f = [i \in 0..Len(lengths) |-> IF i < first THEN 0 ELSE f[i - 1] + lengths[i]]
      PROVE  f \in [0..Len(lengths) -> Nat]
  <2> DEFINE Bad == {n \in 0..Len(lengths) : f[n] \notin Nat}
  <2>1. SUFFICES ASSUME Bad # {} PROVE FALSE
    BY <1>5
  <2>2. Bad \in SUBSET Nat
    OBVIOUS
  <2>3. PICK n \in Bad : \A t \in Bad : n <= t
    BY <2>1, <2>2, LowestIsMember
  <2>4. n \in 0..Len(lengths) /\ n \in Nat /\ f[n] \notin Nat
    OBVIOUS
  <2>5. f[n] = IF n < first THEN 0 ELSE f[n - 1] + lengths[n]
    BY <1>5, <2>4
  <2>6. CASE n < first
    BY <2>4, <2>5, <2>6
  <2>7. CASE ~(n < first)
    <3>1. n - 1 \in 0..Len(lengths) /\ n - 1 \notin Bad /\ lengths[n] \in Nat
      BY <2>3, <2>4, <2>7
    <3> QED
      BY <2>4, <2>5, <2>7, <3>1
  <2> QED
    BY <2>6, <2>7
<1>6. Through(lengths, first) \in [0..Len(lengths) -> Nat]
  BY <1>4, <1>5
<1>7. ASSUME NEW f, f = [i \in 0..Len(lengths) |-> IF i < first THEN 0 ELSE f[i - 1] + lengths[i]]
      PROVE  \A i \in 0..Len(lengths) : f[i] = IF i < first THEN 0 ELSE f[i - 1] + lengths[i]
  BY <1>7
<1> QED
  BY <1>4, <1>6, <1>7

\* The counts grow with the segments.
LEMMA ThroughGrows ==
    ASSUME NEW lengths \in Seq(Nat), NEW first \in Nat, first > 0,
           NEW i \in 0..Len(lengths), NEW j \in 0..Len(lengths), i <= j
    PROVE  Through(lengths, first)[i] <= Through(lengths, first)[j]
<1> DEFINE t == Through(lengths, first)
           Bad == {n \in 0..Len(lengths) : i <= n /\ ~ t[i] <= t[n]}
<1>1. /\ t \in [0..Len(lengths) -> Nat]
      /\ \A n \in 0..Len(lengths) : t[n] = IF n < first THEN 0 ELSE t[n - 1] + lengths[n]
  BY ThroughIs
<1> HIDE DEF t
<1>2. SUFFICES ASSUME Bad # {} PROVE FALSE
  BY DEF t
<1>3. Bad \in SUBSET Nat
  OBVIOUS
<1>4. PICK n \in Bad : \A m \in Bad : n <= m
  BY <1>2, <1>3, LowestIsMember
<1>5. n \in Nat /\ n \in 0..Len(lengths) /\ i <= n /\ ~ t[i] <= t[n] /\ i \in Nat
  OBVIOUS
<1>6. t[i] \in Nat /\ t[n] \in Nat
  BY <1>1, <1>5
<1>7. i < n
  BY <1>5, <1>6
<1>8. n - 1 \in 0..Len(lengths) /\ i <= n - 1 /\ n - 1 \notin Bad
  BY <1>4, <1>5, <1>7
<1>9. t[i] <= t[n - 1] /\ t[n - 1] \in Nat
  BY <1>1, <1>8
<1>10. CASE n < first
  <2>1. i < first /\ t[i] = 0 /\ t[n] = 0
    BY <1>1, <1>5, <1>7, <1>10
  <2> QED
    BY <1>5, <2>1
<1>11. CASE ~ n < first
  <2>1. t[n] = t[n - 1] + lengths[n] /\ lengths[n] \in Nat
    BY <1>1, <1>5, <1>7, <1>11
  <2> QED
    BY <1>5, <1>6, <1>9, <2>1
<1> QED
  BY <1>10, <1>11

\* A byte lies in exactly one segment.
LEMMA ByteHasSegment ==
    ASSUME NEW lengths \in Seq(Nat), NEW first \in Nat, first > 0, NEW k \in Nat, 0 < k,
           first <= Len(lengths) + 1, k <= Through(lengths, first)[Len(lengths)]
    PROVE  /\ \E i \in first..Len(lengths) :
                 Through(lengths, first)[i - 1] < k /\ k <= Through(lengths, first)[i]
           /\ \A i, j \in first..Len(lengths) :
                 /\ Through(lengths, first)[i - 1] < k /\ k <= Through(lengths, first)[i]
                 /\ Through(lengths, first)[j - 1] < k /\ k <= Through(lengths, first)[j]
                 => i = j
<1> DEFINE t == Through(lengths, first)
           Far == {n \in 0..Len(lengths) : k <= t[n]}
<1>1. /\ t \in [0..Len(lengths) -> Nat]
      /\ \A n \in 0..Len(lengths) : t[n] = IF n < first THEN 0 ELSE t[n - 1] + lengths[n]
  BY ThroughIs
<1>2. \A i, j \in 0..Len(lengths) : i <= j => t[i] <= t[j]
  BY ThroughGrows
<1>3. k <= t[Len(lengths)] /\ Len(lengths) \in Nat
  OBVIOUS
<1> HIDE DEF t
<1>4. \E i \in first..Len(lengths) : t[i - 1] < k /\ k <= t[i]
  <2>1. Far \in SUBSET Nat /\ Far # {}
    BY <1>3
  <2>2. PICK n \in Far : \A m \in Far : n <= m
    BY <2>1, LowestIsMember
  <2>3. n \in Nat /\ n \in 0..Len(lengths) /\ k <= t[n]
    OBVIOUS
  <2>4. n >= first
    BY <1>1, <2>3
  <2>5. n - 1 \in 0..Len(lengths) /\ n - 1 \notin Far
    BY <2>2, <2>3, <2>4
  <2>6. t[n - 1] < k
    <3>1. t[n - 1] \in Nat
      BY <1>1, <2>5
    <3>2. ~ k <= t[n - 1]
      BY <2>5
    <3> QED
      BY <3>1, <3>2
  <2> QED
    BY <2>3, <2>4, <2>6
<1>5. ASSUME NEW i \in first..Len(lengths), NEW j \in first..Len(lengths),
             t[i - 1] < k, k <= t[i], t[j - 1] < k, k <= t[j]
      PROVE  i = j
  <2>1. /\ i \in 0..Len(lengths) /\ j \in 0..Len(lengths) /\ i \in Nat /\ j \in Nat
        /\ i - 1 \in 0..Len(lengths) /\ j - 1 \in 0..Len(lengths)
    OBVIOUS
  <2>2. t[i] \in Nat /\ t[j] \in Nat /\ t[i - 1] \in Nat /\ t[j - 1] \in Nat
    BY <1>1, <2>1
  <2>3. i <= j - 1 => t[i] <= t[j - 1]
    BY <1>2, <2>1
  <2>4. j <= i - 1 => t[j] <= t[i - 1]
    BY <1>2, <2>1
  <2>5. ~ i <= j - 1
    BY <1>5, <2>2, <2>3
  <2>6. ~ j <= i - 1
    BY <1>5, <2>2, <2>4
  <2> QED
    BY <2>1, <2>5, <2>6
<1> QED
  BY <1>4, <1>5 DEF t

\* Segments as a request has them or as a cut transfer leaves them.
Layout(segments, first) ==
    segments \in Seq([base : Int, length : Nat]) /\ first \in 1..Len(segments) + 1

\* A function on the first n places is a sequence.
LEMMA FunctionIsSequence ==
    ASSUME NEW S, NEW n \in Nat, NEW f \in [1..n -> S]
    PROVE  f \in Seq(S) /\ Len(f) = n
OBVIOUS

\* The lengths of some segments.
LEMMA LengthsOf ==
    ASSUME NEW segments \in Seq([base : Int, length : Nat])
    PROVE  /\ Lengths(segments) \in Seq(Nat) /\ Len(Lengths(segments)) = Len(segments) /\ Len(segments) \in Nat
           /\ \A i \in 1..Len(segments) : /\ Lengths(segments)[i] = segments[i].length
                                          /\ segments[i] \in [base : Int, length : Nat]
<1>1. Len(segments) \in Nat /\ \A i \in 1..Len(segments) : segments[i] \in [base : Int, length : Nat]
  <2> DEFINE S == [base : Int, length : Nat]
  <2>1. segments \in Seq(S)
    OBVIOUS
  <2> HIDE DEF S
  <2>2. Len(segments) \in Nat /\ \A i \in 1..Len(segments) : segments[i] \in S
    BY <2>1
  <2> QED
    BY <2>2 DEF S
<1>2. Lengths(segments) \in [1..Len(segments) -> Nat]
  BY <1>1 DEF Lengths
<1>3. Lengths(segments) \in Seq(Nat) /\ Len(Lengths(segments)) = Len(segments)
  <2> DEFINE n == Len(segments)
             f == Lengths(segments)
  <2>1. n \in Nat /\ f \in [1..n -> Nat]
    BY <1>1, <1>2
  <2> HIDE DEF n, f
  <2>2. f \in Seq(Nat) /\ Len(f) = n
    BY <2>1, FunctionIsSequence
  <2> QED
    BY <2>2 DEF n, f
<1> QED
  BY <1>1, <1>3 DEF Lengths

\* Where a byte of some segments lies.
LEMMA AddressIs ==
    ASSUME NEW segments, NEW first, Layout(segments, first), NEW k \in Nat, 0 < k,
           k <= Through(Lengths(segments), first)[Len(segments)],
           NEW i \in first..Len(segments),
           Through(Lengths(segments), first)[i - 1] < k, k <= Through(Lengths(segments), first)[i]
    PROVE  AddressOf(segments, first, k) = segments[i].base + (k - 1 - Through(Lengths(segments), first)[i - 1])
<1> DEFINE t == Through(Lengths(segments), first)
           c == CHOOSE j \in first..Len(segments) : t[j - 1] < k /\ k <= t[j]
<1>1. segments \in Seq([base : Int, length : Nat]) /\ first \in Nat /\ first > 0 /\ first <= Len(segments) + 1
  BY DEF Layout
<1>2. Lengths(segments) \in Seq(Nat) /\ Len(Lengths(segments)) = Len(segments)
  BY <1>1, LengthsOf
<1>3. \A p, q \in first..Len(segments) : t[p - 1] < k /\ k <= t[p] /\ t[q - 1] < k /\ k <= t[q] => p = q
  BY <1>1, <1>2, ByteHasSegment
<1> HIDE DEF t
<1>4. t[i - 1] < k /\ k <= t[i]
  BY DEF t
<1>5. c \in first..Len(segments) /\ t[c - 1] < k /\ k <= t[c]
  BY <1>4
<1>6. c = i
  BY <1>3, <1>4, <1>5
<1>7. AddressOf(segments, first, k) = segments[c].base + (k - 1 - t[c - 1])
  BY DEF AddressOf, t
<1> QED
  BY <1>6, <1>7 DEF t

\* The address of a byte of a request.
Place(lengths, k) == AddressOf(Segments(lengths), 1, k)

\* The segments of a new request.
LEMMA NewSegments ==
    ASSUME NEW lengths \in Seq(Nat)
    PROVE  /\ Layout(Segments(lengths), 1) /\ Len(Segments(lengths)) = Len(lengths)
           /\ Lengths(Segments(lengths)) = lengths
           /\ \A i \in 1..Len(lengths) : Segments(lengths)[i].base = i + Through(lengths, 1)[i - 1]
<1> DEFINE s == Segments(lengths)
           t == Through(lengths, 1)
<1>1. Len(lengths) \in Nat /\ \A i \in 1..Len(lengths) : lengths[i] \in Nat
  OBVIOUS
<1>2. \A i \in 1..Len(lengths) : t[i - 1] \in Nat
  <2>1. t \in [0..Len(lengths) -> Nat]
    BY ThroughIs
  <2> HIDE DEF t
  <2>2. \A i \in 1..Len(lengths) : i - 1 \in 0..Len(lengths)
    BY <1>1
  <2> QED
    BY <2>1, <2>2
<1>3. s = [i \in 1..Len(lengths) |-> [base |-> i + t[i - 1], length |-> lengths[i]]]
  BY DEF Segments
<1> HIDE DEF s, t
<1>4. s \in [1..Len(lengths) -> [base : Int, length : Nat]]
  BY <1>1, <1>2, <1>3
<1>5. s \in Seq([base : Int, length : Nat]) /\ Len(s) = Len(lengths)
  <2> DEFINE S == [base : Int, length : Nat]
  <2>1. s \in [1..Len(lengths) -> S]
    BY <1>4
  <2> HIDE DEF S
  <2>2. s \in Seq(S) /\ Len(s) = Len(lengths)
    BY <1>1, <2>1
  <2> QED
    BY <2>2 DEF S
<1>6. \A i \in 1..Len(lengths) : s[i].base = i + t[i - 1] /\ s[i].length = lengths[i]
  BY <1>3
<1>7. Lengths(s) = lengths
  <2>1. Lengths(s) = [i \in 1..Len(lengths) |-> lengths[i]]
    BY <1>5, <1>6 DEF Lengths
  <2> QED
    BY <2>1
<1>8. Layout(s, 1)
  BY <1>1, <1>5 DEF Layout
<1> QED
  BY <1>5, <1>6, <1>7, <1>8 DEF s, t

\* Byte k of a request lies k - 1 bytes and a gap for each segment behind its
\* beginning.
LEMMA PlaceIs ==
    ASSUME NEW lengths \in Seq(Nat), NEW k \in 1..Sum(lengths)
    PROVE  \E i \in 1..Len(lengths) :
              /\ Through(lengths, 1)[i - 1] < k /\ k <= Through(lengths, 1)[i]
              /\ Place(lengths, k) = i + k - 1
<1> DEFINE t == Through(lengths, 1)
<1>1. /\ Layout(Segments(lengths), 1) /\ Len(Segments(lengths)) = Len(lengths)
      /\ Lengths(Segments(lengths)) = lengths
      /\ \A i \in 1..Len(lengths) : Segments(lengths)[i].base = i + t[i - 1]
  BY NewSegments
<1>2. t \in [0..Len(lengths) -> Nat] /\ Len(lengths) \in Nat
  BY ThroughIs
<1>3. k \in Nat /\ 0 < k /\ k <= t[Len(lengths)]
  <2>1. t[Len(lengths)] \in Nat /\ Sum(lengths) = t[Len(lengths)]
    BY <1>2 DEF Sum
  <2> QED
    BY <2>1
<1> HIDE DEF t
<1>4. PICK i \in 1..Len(lengths) : t[i - 1] < k /\ k <= t[i]
  <2>1. 1 <= Len(lengths) + 1 /\ k <= Through(lengths, 1)[Len(lengths)]
    BY <1>2, <1>3 DEF t
  <2>2. \E j \in 1..Len(lengths) : Through(lengths, 1)[j - 1] < k /\ k <= Through(lengths, 1)[j]
    BY <1>3, <2>1, ByteHasSegment
  <2> QED
    BY <2>2, Zenon DEF t
<1>5. Place(lengths, k) = Segments(lengths)[i].base + (k - 1 - t[i - 1])
  <2> DEFINE s == Segments(lengths)
  <2>1. Layout(s, 1) /\ Through(Lengths(s), 1) = t /\ i \in 1..Len(s) /\ Len(s) = Len(lengths)
    BY <1>1, <1>4 DEF t
  <2> HIDE DEF s
  <2> DEFINE u == Through(Lengths(s), 1)
  <2>2. k <= u[Len(s)] /\ u[i - 1] < k /\ k <= u[i] /\ i \in 1..Len(s)
    BY <1>3, <1>4, <2>1, Zenon
  <2>3. AddressOf(s, 1, k) = s[i].base + (k - 1 - u[i - 1])
    BY <1>3, <2>1, <2>2, AddressIs
  <2> QED
    BY <2>1, <2>3, Zenon DEF Place, s
<1>6. t[i - 1] \in Nat
  <2>1. i - 1 \in 0..Len(lengths)
    BY <1>2, <1>4
  <2> QED
    BY <1>2, <2>1
<1>7. Segments(lengths)[i].base = i + t[i - 1]
  BY <1>1
<1>8. Place(lengths, k) = i + k - 1
  BY <1>3, <1>5, <1>6, <1>7
<1> QED
  BY <1>4, <1>8 DEF t

\* The bytes of a request lie apart, within the buffers.
LEMMA PlacesApart ==
    ASSUME NEW lengths \in Seq(Nat), NEW k \in 1..Sum(lengths)
    PROVE  /\ Place(lengths, k) \in 1..k + Len(lengths)
           /\ \A m \in 1..Sum(lengths) : Place(lengths, k) = Place(lengths, m) => k = m
<1> DEFINE t == Through(lengths, 1)
<1>1. t \in [0..Len(lengths) -> Nat] /\ Len(lengths) \in Nat
  BY ThroughIs
<1>2. k \in Nat /\ 0 < k
  <2>1. Sum(lengths) \in Nat
    BY <1>1 DEF Sum
  <2> QED
    BY <2>1
<1>3. PICK i \in 1..Len(lengths) : t[i - 1] < k /\ k <= t[i] /\ Place(lengths, k) = i + k - 1
  BY PlaceIs
<1>4. \A p, q \in 0..Len(lengths) : p <= q => t[p] <= t[q]
  BY ThroughGrows
<1>5. ASSUME NEW m \in 1..Sum(lengths), Place(lengths, k) = Place(lengths, m) PROVE k = m
  <2>1. m \in Nat /\ 0 < m
    <3>1. Sum(lengths) \in Nat
      BY <1>1 DEF Sum
    <3> QED
      BY <3>1
  <2>2. PICK j \in 1..Len(lengths) : t[j - 1] < m /\ m <= t[j] /\ Place(lengths, m) = j + m - 1
    BY PlaceIs
  <2> HIDE DEF t
  <2>3. /\ i \in 0..Len(lengths) /\ j \in 0..Len(lengths) /\ i - 1 \in 0..Len(lengths) /\ j - 1 \in 0..Len(lengths)
        /\ i \in Nat /\ j \in Nat
    OBVIOUS
  <2>4. t[i] \in Nat /\ t[j] \in Nat /\ t[i - 1] \in Nat /\ t[j - 1] \in Nat
    BY <1>1, <2>3
  <2>5. (i <= j - 1 => t[i] <= t[j - 1]) /\ (j <= i - 1 => t[j] <= t[i - 1])
    BY <1>4, <2>3
  <2>6. i + k = j + m
    BY <1>2, <1>3, <1>5, <2>1, <2>2, <2>3
  <2>7. CASE i < j
    <3>1. i <= j - 1 /\ m < k
      BY <1>2, <2>1, <2>3, <2>6, <2>7
    <3> QED
      BY <1>2, <1>3, <2>1, <2>2, <2>4, <2>5, <3>1
  <2>8. CASE j < i
    <3>1. j <= i - 1 /\ k < m
      BY <1>2, <2>1, <2>3, <2>6, <2>8
    <3> QED
      BY <1>2, <1>3, <2>1, <2>2, <2>4, <2>5, <3>1
  <2>9. CASE i = j
    BY <1>2, <2>1, <2>3, <2>6, <2>9
  <2> QED
    BY <2>3, <2>7, <2>8, <2>9
<1>6. Place(lengths, k) \in 1..k + Len(lengths)
  BY <1>1, <1>2, <1>3
<1> QED
  BY <1>5, <1>6

\* What an advance leaves of some segments.
CutFrom(segments, next, left) ==
    IF next > Len(segments) THEN segments
    ELSE [segments EXCEPT ![next] = [base |-> @.base + left, length |-> @.length - left]]

\* The segment at which a transfer that has moved some bytes goes on.
GoesOnAt(segments, first, moved, n) ==
    /\ n \in first..Len(segments) + 1
    /\ \A i \in first..n - 1 : Through(Lengths(segments), first)[i] <= moved
    /\ n <= Len(segments) => Through(Lengths(segments), first)[n] > moved

\* There is such a segment, or the end.
LEMMA GoesOn ==
    ASSUME NEW segments, NEW first, Layout(segments, first), NEW moved \in Nat
    PROVE  \E n : /\ GoesOnAt(segments, first, moved, n)
                  /\ AdvanceSegments(segments, first, moved) =
                        [first |-> n, segments |-> CutFrom(segments, n, moved - Through(Lengths(segments), first)[n - 1])]
<1> DEFINE t == Through(Lengths(segments), first)
           last == Len(segments)
           Over == {n \in first..last : t[n] > moved}
<1>1. segments \in Seq([base : Int, length : Nat]) /\ first \in Nat /\ first > 0 /\ first <= last + 1 /\ last \in Nat
  BY DEF Layout
<1>2. t \in [0..last -> Nat]
  <2>1. Lengths(segments) \in Seq(Nat) /\ Len(Lengths(segments)) = last
    BY <1>1, LengthsOf
  <2> QED
    BY <1>1, <2>1, ThroughIs
<1> HIDE DEF t
<1>3. \E n \in first..last + 1 : (\A i \in first..n - 1 : t[i] <= moved) /\ (n <= last => t[n] > moved)
  <2>1. CASE Over = {}
    <3>1. \A i \in first..last : t[i] <= moved
      <4>1. ASSUME NEW i \in first..last PROVE t[i] <= moved
        <5>1. t[i] \in Nat
          <6>1. i \in 0..last
            BY <1>1
          <6> QED
            BY <1>2, <6>1
        <5>2. ~ t[i] > moved
          BY <2>1
        <5> QED
          BY <5>1, <5>2
      <4> QED
        BY <4>1
    <3>2. last + 1 \in first..last + 1 /\ (last + 1) - 1 = last /\ ~ last + 1 <= last
      BY <1>1
    <3> QED
      BY <3>1, <3>2
  <2>2. CASE Over # {}
    <3>1. Over \in SUBSET Nat
      BY <1>1
    <3>2. PICK n \in Over : \A m \in Over : n <= m
      BY <2>2, <3>1, LowestIsMember
    <3>3. n \in first..last /\ t[n] > moved /\ n \in Nat
      BY <1>1
    <3>4. ASSUME NEW i \in first..n - 1 PROVE t[i] <= moved
      <4>1. i \in first..last /\ ~ n <= i /\ i \in 0..last
        BY <1>1, <3>3
      <4>2. t[i] \in Nat /\ ~ t[i] > moved
        BY <1>2, <3>2, <4>1
      <4> QED
        BY <4>2
    <3>5. n \in first..last + 1
      BY <1>1, <3>3
    <3> QED
      BY <3>3, <3>4, <3>5
  <2> QED
    BY <2>1, <2>2
<1> DEFINE next == CHOOSE n \in first..last + 1 : (\A i \in first..n - 1 : t[i] <= moved) /\ (n <= last => t[n] > moved)
<1>4. next \in first..last + 1 /\ (\A i \in first..next - 1 : t[i] <= moved) /\ (next <= last => t[next] > moved)
  BY <1>3
<1>5. AdvanceSegments(segments, first, moved) =
        [first |-> next, segments |-> CutFrom(segments, next, moved - t[next - 1])]
  BY Zenon DEF AdvanceSegments, CutFrom, t
<1> HIDE DEF next
<1>6. GoesOnAt(segments, first, moved, next)
  BY <1>4 DEF GoesOnAt, t
<1> QED
  BY <1>5, <1>6 DEF t

\* Where the advance cuts, something of the segment is left.
LEMMA CutIsInside ==
    ASSUME NEW segments, NEW first, Layout(segments, first), NEW moved \in Nat,
           NEW n, GoesOnAt(segments, first, moved, n)
    PROVE  /\ n \in Nat /\ n - 1 \in 0..Len(segments)
           /\ Through(Lengths(segments), first)[n - 1] \in Nat /\ Through(Lengths(segments), first)[n - 1] <= moved
           /\ n <= Len(segments) =>
                 moved - Through(Lengths(segments), first)[n - 1] < segments[n].length
<1> DEFINE t == Through(Lengths(segments), first)
           last == Len(segments)
<1>1. segments \in Seq([base : Int, length : Nat]) /\ first \in Nat /\ first > 0 /\ first <= last + 1 /\ last \in Nat
  BY DEF Layout
<1>2. /\ t \in [0..last -> Nat]
      /\ \A i \in 0..last : t[i] = IF i < first THEN 0 ELSE t[i - 1] + Lengths(segments)[i]
  <2>1. Lengths(segments) \in Seq(Nat) /\ Len(Lengths(segments)) = last
    BY <1>1, LengthsOf
  <2> QED
    BY <1>1, <2>1, ThroughIs
<1>3. n \in first..last + 1 /\ (\A i \in first..n - 1 : t[i] <= moved) /\ (n <= last => t[n] > moved)
  BY DEF GoesOnAt
<1> HIDE DEF t
<1>4. n \in Nat /\ n - 1 \in 0..last /\ n >= first
  BY <1>1, <1>3
<1>5. t[n - 1] \in Nat
  BY <1>2, <1>4
<1>6. t[n - 1] <= moved
  <2>1. CASE n = first
    <3>1. t[n - 1] = 0
      BY <1>1, <1>2, <1>4, <2>1
    <3> QED
      BY <3>1
  <2>2. CASE n # first
    <3>1. n - 1 \in first..n - 1
      BY <1>1, <1>4, <2>2
    <3> QED
      BY <1>3, <3>1
  <2> QED
    BY <2>1, <2>2
<1>7. ASSUME n <= last PROVE moved - t[n - 1] < segments[n].length
  <2>1. n \in 0..last /\ n \in 1..last /\ ~ n < first
    BY <1>1, <1>4, <1>7
  <2>2. t[n] = t[n - 1] + Lengths(segments)[n] /\ t[n] > moved
    BY <1>2, <1>3, <1>7, <2>1
  <2>3. Lengths(segments)[n] = segments[n].length /\ segments[n].length \in Nat
    BY <1>1, <2>1, LengthsOf
  <2> QED
    BY <1>5, <2>2, <2>3
<1> QED
  BY <1>4, <1>5, <1>6, <1>7 DEF t

\* The segments behind a cut.
LEMMA CutSegments ==
    ASSUME NEW segments, NEW first, Layout(segments, first), NEW n \in 1..Len(segments) + 1, NEW left \in Nat,
           n <= Len(segments) => left < segments[n].length
    PROVE  /\ Layout(CutFrom(segments, n, left), n) /\ Len(CutFrom(segments, n, left)) = Len(segments)
           /\ \A i \in n..Len(segments) :
                 /\ CutFrom(segments, n, left)[i].base = segments[i].base + IF i = n THEN left ELSE 0
                 /\ CutFrom(segments, n, left)[i].length = segments[i].length - IF i = n THEN left ELSE 0
<1> DEFINE S == [base : Int, length : Nat]
           rest == CutFrom(segments, n, left)
           last == Len(segments)
<1>1. segments \in Seq(S) /\ last \in Nat
  BY DEF Layout
<1>2. segments \in [1..last -> S] /\ \A i \in 1..last : segments[i] \in S
  <2> HIDE DEF S
  <2> QED
    BY <1>1
<1>3. CASE n > last
  <2>1. rest = segments
    BY <1>3 DEF CutFrom
  <2>2. n..last = {} /\ n \in 1..last + 1
    BY <1>1, <1>3
  <2> HIDE DEF rest, S
  <2>3. Layout(rest, n)
    BY <1>1, <2>1, <2>2 DEF Layout, S
  <2> QED
    BY <2>1, <2>2, <2>3 DEF rest
<1>4. CASE n <= last
  <2>1. n \in 1..last /\ n \in Nat
    BY <1>1, <1>4
  <2> DEFINE cut == [base |-> segments[n].base + left, length |-> segments[n].length - left]
  <2>2. rest = [segments EXCEPT ![n] = cut]
    <3>1. ~ n > last
      BY <1>1, <1>4
    <3> QED
      BY <1>2, <2>1, <3>1, Zenon DEF CutFrom
  <2>3. segments[n].base \in Int /\ segments[n].length \in Nat /\ left < segments[n].length
    BY <1>2, <1>4, <2>1
  <2>4. /\ cut \in S /\ cut.base = segments[n].base + left /\ cut.length = segments[n].length - left
    BY <2>3
  <2> HIDE DEF cut, S, rest
  <2>5. rest \in [1..last -> S] /\ rest[n] = cut /\ \A i \in 1..last : i # n => rest[i] = segments[i]
    BY <1>2, <2>1, <2>2, <2>4
  <2>6. rest \in Seq(S) /\ Len(rest) = last
    BY <1>1, <2>5
  <2>7. Layout(rest, n)
    BY <1>1, <2>1, <2>6 DEF Layout, S
  <2>8. ASSUME NEW i \in n..last
        PROVE  /\ rest[i].base = segments[i].base + IF i = n THEN left ELSE 0
               /\ rest[i].length = segments[i].length - IF i = n THEN left ELSE 0
    <3>1. CASE i = n
      BY <2>4, <2>5, <3>1
    <3>2. CASE i # n
      <4>1. i \in 1..last
        BY <1>1, <2>1
      <4>2. segments[i].base \in Int /\ segments[i].length \in Nat
        BY <1>2, <4>1 DEF S
      <4>3. rest[i] = segments[i]
        BY <2>5, <3>2, <4>1
      <4> QED
        BY <3>2, <4>2, <4>3
    <3> QED
      BY <3>1, <3>2
  <2> QED
    BY <2>6, <2>7, <2>8 DEF rest
<1> QED
  BY <1>1, <1>3, <1>4

\* Counting from the advanced segment's base and from its old one is the same.
LEMMA SameOffset ==
  ASSUME NEW b \in Int, NEW w \in Int, NEW left \in Int, NEW moved \in Int, NEW k \in Int,
         left = moved - w
  PROVE  (b + left) + (k - 1 - 0) = b + ((moved + k) - 1 - w)
  OBVIOUS

\* An advance leaves the bytes behind it where they are.
LEMMA AdvanceKeeps ==
    ASSUME NEW segments, NEW first, Layout(segments, first),
           NEW moved \in Nat, moved <= Through(Lengths(segments), first)[Len(segments)]
    PROVE  LET rest == AdvanceSegments(segments, first, moved)
               total == Through(Lengths(segments), first)[Len(segments)]
           IN /\ Layout(rest.segments, rest.first) /\ Len(rest.segments) = Len(segments)
              /\ Through(Lengths(rest.segments), rest.first)[Len(segments)] = total - moved
              /\ \A k \in 1..total - moved :
                    AddressOf(rest.segments, rest.first, k) = AddressOf(segments, first, moved + k)
<1> DEFINE t == Through(Lengths(segments), first)
           last == Len(segments)
<1>1. /\ segments \in Seq([base : Int, length : Nat]) /\ first \in Nat /\ first > 0 /\ first <= last + 1
      /\ last \in Nat
  BY DEF Layout
<1>2. PICK n : /\ GoesOnAt(segments, first, moved, n)
               /\ AdvanceSegments(segments, first, moved) =
                     [first |-> n, segments |-> CutFrom(segments, n, moved - t[n - 1])]
  BY GoesOn
<1> DEFINE left == moved - t[n - 1]
           rest == CutFrom(segments, n, left)
           u == Through(Lengths(rest), n)
<1>3. /\ n \in Nat /\ n - 1 \in 0..last /\ t[n - 1] \in Nat /\ t[n - 1] <= moved
      /\ n <= last => left < segments[n].length
  BY <1>2, CutIsInside
<1>4. n \in first..last + 1 /\ (\A i \in first..n - 1 : t[i] <= moved) /\ (n <= last => t[n] > moved)
  BY <1>2 DEF GoesOnAt
<1>5. /\ t \in [0..last -> Nat]
      /\ \A i \in 0..last : t[i] = IF i < first THEN 0 ELSE t[i - 1] + Lengths(segments)[i]
      /\ \A i, j \in 0..last : i <= j => t[i] <= t[j]
  <2>1. Lengths(segments) \in Seq(Nat) /\ Len(Lengths(segments)) = last
    BY <1>1, LengthsOf
  <2> QED
    BY <1>1, <2>1, ThroughIs, ThroughGrows
<1> HIDE DEF t
<1>6. left \in Nat /\ left = moved - t[n - 1] /\ n \in 1..last + 1
  BY <1>1, <1>3, <1>4
<1> HIDE DEF left
<1>7. /\ Layout(rest, n) /\ Len(rest) = last
      /\ \A i \in n..last : /\ rest[i].base = segments[i].base + IF i = n THEN left ELSE 0
                            /\ rest[i].length = segments[i].length - IF i = n THEN left ELSE 0
  BY <1>3, <1>6, CutSegments
<1> HIDE DEF rest
<1>8. rest \in Seq([base : Int, length : Nat])
  BY <1>7 DEF Layout
<1>9. /\ u \in [0..last -> Nat]
      /\ \A i \in 0..last : u[i] = IF i < n THEN 0 ELSE u[i - 1] + Lengths(rest)[i]
  <2>1. Lengths(rest) \in Seq(Nat) /\ Len(Lengths(rest)) = last
    BY <1>7, <1>8, LengthsOf
  <2>2. n > 0
    BY <1>1, <1>4
  <2> QED
    BY <1>3, <2>1, <2>2, ThroughIs
<1> HIDE DEF u
<1>10. ASSUME NEW i \in n..last
       PROVE  /\ Lengths(segments)[i] = segments[i].length /\ Lengths(rest)[i] = rest[i].length
              /\ segments[i].length \in Nat /\ segments[i].base \in Int
              /\ i \in 0..last /\ i \in 1..last /\ i \in Nat /\ i - 1 \in 0..last
  <2>1. i \in 1..last /\ i \in 0..last /\ i \in Nat /\ i - 1 \in 0..last
    BY <1>1, <1>3, <1>6
  <2>2. Lengths(segments)[i] = segments[i].length /\ segments[i] \in [base : Int, length : Nat]
    BY <1>1, <2>1, LengthsOf
  <2>3. Lengths(rest)[i] = rest[i].length
    BY <1>7, <1>8, <2>1, LengthsOf
  <2> QED
    BY <2>1, <2>2, <2>3
<1>11. ASSUME NEW i \in n..last PROVE u[i] = t[i] - moved
  <2> DEFINE Bad == {j \in n..last : u[j] # t[j] - moved}
  <2>1. SUFFICES ASSUME Bad # {} PROVE FALSE
    OBVIOUS
  <2>2. Bad \in SUBSET Nat
    BY <1>3
  <2>3. PICK j \in Bad : \A m \in Bad : j <= m
    BY <2>1, <2>2, LowestIsMember
  <2>4. j \in n..last /\ u[j] # t[j] - moved
    OBVIOUS
  <2>5. /\ Lengths(segments)[j] = segments[j].length /\ Lengths(rest)[j] = rest[j].length
        /\ segments[j].length \in Nat /\ j \in 0..last /\ j \in Nat /\ j - 1 \in 0..last
    BY <1>10, <2>4
  <2>6. u[j] = u[j - 1] + rest[j].length /\ t[j] = t[j - 1] + segments[j].length
    <3>1. ~ j < n /\ ~ j < first
      BY <1>1, <1>3, <1>4, <2>4, <2>5
    <3>2. u[j] = u[j - 1] + Lengths(rest)[j]
      BY <1>9, <2>5, <3>1
    <3>3. t[j] = t[j - 1] + Lengths(segments)[j]
      BY <1>5, <2>5, <3>1
    <3> QED
      BY <2>5, <3>2, <3>3
  <2>7. rest[j].length = segments[j].length - IF j = n THEN left ELSE 0
    BY <1>7, <2>4
  <2>8. t[j - 1] \in Nat
    BY <1>5, <2>5
  <2>9. CASE j = n
    <3>1. u[j - 1] = 0
      <4>1. j - 1 < n
        BY <2>5, <2>9
      <4> QED
        BY <1>9, <2>5, <4>1
    <3> QED
      BY <1>3, <1>6, <2>4, <2>5, <2>6, <2>7, <2>9, <3>1
  <2>10. CASE j # n
    <3>1. j - 1 \in n..last /\ ~ j <= j - 1
      BY <1>3, <2>4, <2>5, <2>10
    <3>2. u[j - 1] = t[j - 1] - moved
      BY <2>3, <3>1
    <3> QED
      BY <2>4, <2>5, <2>6, <2>7, <2>8, <2>10, <3>2
  <2> QED
    BY <2>9, <2>10
<1>12. t[last] \in Nat /\ moved <= t[last]
  BY <1>1, <1>5 DEF t
<1>13. u[last] = t[last] - moved
  <2>1. CASE n <= last
    <3>1. last \in n..last
      BY <1>1, <1>3, <2>1
    <3> QED
      BY <1>11, <3>1
  <2>2. CASE n = last + 1
    <3>1. u[last] = 0
      BY <1>1, <1>9, <2>2
    <3>2. t[last] <= moved
      BY <1>3, <1>12, <2>2
    <3> QED
      BY <1>12, <3>1, <3>2
  <2> QED
    BY <1>1, <1>6, <2>1, <2>2
<1>14. ASSUME NEW k \in 1..t[last] - moved
       PROVE  AddressOf(rest, n, k) = AddressOf(segments, first, moved + k)
  <2>1. k \in Nat /\ 0 < k /\ k <= u[last] /\ moved + k \in Nat /\ 0 < moved + k /\ moved + k <= t[last]
    BY <1>12, <1>13
  <2>2. PICK i \in n..last : u[i - 1] < k /\ k <= u[i]
    <3>1. Lengths(rest) \in Seq(Nat) /\ Len(Lengths(rest)) = last
      BY <1>7, <1>8, LengthsOf
    <3>2. n \in Nat /\ n > 0 /\ n <= last + 1
      BY <1>1, <1>3, <1>6
    <3> QED
      BY <2>1, <3>1, <3>2, ByteHasSegment DEF u
  <2>3. AddressOf(rest, n, k) = rest[i].base + (k - 1 - u[i - 1])
    BY <1>7, <2>1, <2>2, AddressIs DEF u
  <2>4. /\ segments[i].base \in Int /\ i \in 0..last /\ i \in Nat /\ i - 1 \in 0..last
        /\ rest[i].base = segments[i].base + IF i = n THEN left ELSE 0
    BY <1>7, <1>10
  <2>5. u[i] = t[i] - moved /\ t[i] \in Nat /\ t[i - 1] \in Nat
    BY <1>5, <1>11, <2>4
  <2>6. u[i - 1] = IF i = n THEN 0 ELSE t[i - 1] - moved
    <3>1. CASE i = n
      BY <1>3, <1>9, <2>4, <3>1
    <3>2. CASE i # n
      <4>1. i - 1 \in n..last
        BY <1>3, <2>4, <3>2
      <4> QED
        BY <1>11, <3>2, <4>1
    <3> QED
      BY <3>1, <3>2
  <2>7. t[i - 1] < moved + k /\ moved + k <= t[i]
    BY <1>3, <2>1, <2>2, <2>5, <2>6
  <2>8. i \in first..last
    BY <1>1, <1>3, <1>4
  <2>9. AddressOf(segments, first, moved + k) = segments[i].base + ((moved + k) - 1 - t[i - 1])
    <3> DEFINE m == moved + k
    <3>1. m \in Nat /\ 0 < m /\ m <= t[last] /\ t[i - 1] < m /\ m <= t[i]
      BY <2>1, <2>7
    <3> HIDE DEF m
    <3>2. AddressOf(segments, first, m) = segments[i].base + (m - 1 - t[i - 1])
      BY <2>8, <3>1, AddressIs DEF t
    <3>3. m = moved + k
      BY DEF m
    <3> QED
      BY <3>2, <3>3, Zenon
  <2>10. CASE i = n
    <3>1. AddressOf(rest, n, k) = (segments[i].base + left) + (k - 1 - 0) /\ left = moved - t[i - 1]
      BY <1>6, <2>3, <2>4, <2>6, <2>10
    <3>2. PICK b \in Int, w \in Int : b = segments[i].base /\ w = t[i - 1]
      BY <2>4, <2>5
    <3>3. AddressOf(rest, n, k) = (b + left) + (k - 1 - 0) /\ left = moved - w
      BY <3>1, <3>2, Zenon
    <3>4. (b + left) + (k - 1 - 0) = b + ((moved + k) - 1 - w)
      <4>1. left \in Int /\ moved \in Int /\ k \in Int
        BY <1>6, <2>1
      <4>2. left = moved - w
        BY <3>3
      <4> QED
        BY <3>2, <4>1, <4>2, SameOffset
    <3>5. AddressOf(segments, first, moved + k) = b + ((moved + k) - 1 - w)
      BY <2>9, <3>2, Zenon
    <3> QED
      BY <3>3, <3>4, <3>5, Zenon
  <2>11. CASE i # n
    <3>1. AddressOf(rest, n, k) = segments[i].base + (k - 1 - (t[i - 1] - moved))
      BY <2>3, <2>4, <2>6, <2>11
    <3> QED
      BY <2>1, <2>4, <2>5, <2>9, <3>1
  <2> QED
    BY <2>10, <2>11
<1> QED
  <2>1. AdvanceSegments(segments, first, moved) = [first |-> n, segments |-> rest]
    BY <1>2 DEF rest, left
  <2>2. AdvanceSegments(segments, first, moved).first = n /\ AdvanceSegments(segments, first, moved).segments = rest
    BY <2>1
  <2> QED
    BY <1>7, <1>13, <1>14, <2>2 DEF u, t
-----------------------------------------------------------------------------
(* What a request has moved.                                               *)

Bytes == (Nat \X Nat) \cup {<<0>>}
Vectored == {"read", "write"}
Going == {"busy", "done"}
Results == Going \cup {"failed", "invalid", "no memory"}
VectorRequests ==
    [kind : Vectored, lengths : Vectors, offset : Nat, total : Nat, result : Results,
     segments : Seq([base : Int, length : Nat]), first : Nat, completed : Nat, before : [Positions -> Bytes], id : Nat]
ZeroRequests ==
    [kind : {"zero"}, offset : Nat, total : Nat, completed : Nat, before : [Positions -> Bytes], id : {0},
     result : Results]
OtherRequests == [kind : {"none", "flush"}, result : {"done", "failed"}]
TransferTypes ==
    /\ cache \in [Positions -> Bytes] /\ disk \in [Positions -> Bytes]
    /\ memory \in [Addresses -> Bytes \cup {<<>>}]
    /\ requests \in Nat
    /\ request \in VectorRequests \cup ZeroRequests \cup OtherRequests

\* A request that was accepted lies in the file.
InFile ==
    request.kind \in Vectored \cup {"zero"} /\ request.result \in Going =>
        /\ request.offset + request.total <= FileSize /\ request.completed <= request.total
        /\ request.result = "done" => request.completed = request.total

\* The segments that are left are the bytes that have not been moved, in order.
SegmentsLeft ==
    request.kind \in Vectored /\ request.result \in Going =>
        /\ request.total = Sum(request.lengths)
        /\ Layout(request.segments, request.first) /\ Len(request.segments) = Len(request.lengths)
        /\ Through(Lengths(request.segments), request.first)[Len(request.lengths)] = request.total - request.completed
        /\ \A k \in 1..request.total - request.completed :
              AddressOf(request.segments, request.first, k) = Place(request.lengths, request.completed + k)

\* The bytes that have been moved are in their places, and no others.
BytesMoved ==
    /\ request.kind = "read" /\ request.result \in Going =>
           /\ cache = request.before
           /\ \A k \in 1..request.completed :
                 memory[Place(request.lengths, k)] = request.before[request.offset + (k - 1)]
    /\ request.kind = "write" /\ request.result \in Going =>
           \A p \in Positions :
              cache[p] = IF p \in request.offset..request.offset + request.completed - 1
                         THEN <<request.id, Place(request.lengths, p - request.offset + 1)>> ELSE request.before[p]
    /\ request.kind = "zero" /\ request.result \in Going =>
           \A p \in Positions :
              cache[p] = IF p \in request.offset..request.offset + request.completed - 1
                         THEN <<0>> ELSE request.before[p]

TransferInvariant == TransferTypes /\ InFile /\ SegmentsLeft /\ BytesMoved

\* The fields of a request for segments.
LEMMA VectorFields ==
    ASSUME TransferTypes, request.kind \in Vectored
    PROVE  /\ request \in VectorRequests /\ request.lengths \in Vectors /\ request.lengths \in Seq(Nat)
           /\ request.offset \in Nat /\ request.total \in Nat /\ request.completed \in Nat /\ request.id \in Nat
           /\ request.first \in Nat /\ request.before \in [Positions -> Bytes] /\ request.result \in Results
<1>1. request \in VectorRequests
  <2>1. request \in VectorRequests \cup ZeroRequests \cup OtherRequests
    BY DEF TransferTypes
  <2>2. request \notin ZeroRequests /\ request \notin OtherRequests
    BY DEF ZeroRequests, OtherRequests, Vectored
  <2> QED
    BY <2>1, <2>2
<1> QED
  BY <1>1, StorageAssumption DEF VectorRequests

\* The fields of a request for zeros.
LEMMA ZeroFields ==
    ASSUME TransferTypes, request.kind = "zero"
    PROVE  /\ request \in ZeroRequests
           /\ request.offset \in Nat /\ request.total \in Nat /\ request.completed \in Nat
           /\ request.before \in [Positions -> Bytes] /\ request.result \in Results
<1>1. request \in ZeroRequests
  <2>1. request \in VectorRequests \cup ZeroRequests \cup OtherRequests
    BY DEF TransferTypes
  <2>2. request \notin VectorRequests /\ request \notin OtherRequests
    BY DEF VectorRequests, OtherRequests, Vectored
  <2> QED
    BY <2>1, <2>2
<1> QED
  BY <1>1 DEF ZeroRequests

\* Nothing has been moved when nothing is under way.
LEMMA InitTransfers == StorageInit => TransferInvariant
<1> SUFFICES ASSUME StorageInit PROVE TransferInvariant
  OBVIOUS
<1>1. request.kind = "none" /\ request \in OtherRequests
  BY DEF StorageInit, NoRequest, OtherRequests
<1>2. cache \in [Positions -> Bytes] /\ disk \in [Positions -> Bytes]
  <2>1. \A p \in Positions : <<0, p>> \in Bytes
    BY StorageAssumption DEF Positions, Bytes
  <2> QED
    BY <2>1 DEF StorageInit
<1>3. memory \in [Addresses -> Bytes \cup {<<>>}] /\ requests \in Nat
  BY DEF StorageInit
<1> QED
  BY <1>1, <1>2, <1>3 DEF TransferInvariant, TransferTypes, InFile, SegmentsLeft, BytesMoved, Vectored

\* A step that ends the last request without a new one for bytes.
LEMMA OtherRequest ==
    ASSUME TransferInvariant, request' \in OtherRequests, cache' \in [Positions -> Bytes],
           disk' \in [Positions -> Bytes], UNCHANGED memory, requests' \in Nat
    PROVE  TransferInvariant'
<1>1. request'.kind \notin Vectored \cup {"zero"}
  BY DEF OtherRequests, Vectored
<1> QED
  BY <1>1 DEF TransferInvariant, TransferTypes, InFile, SegmentsLeft, BytesMoved, Vectored

\* A new request for segments.
LEMMA VectorStep == TransferInvariant /\ Vector => TransferInvariant'
<1> SUFFICES ASSUME TransferInvariant, Vector PROVE TransferInvariant'
  OBVIOUS
<1>1. PICK kind \in Vectored, lengths \in Vectors, offset \in 0..FileSize, result \in Results :
        /\ result \in Going => Accepts(offset, Sum(lengths)) /\ (result = "done" => Sum(lengths) = 0)
        /\ request' = [kind |-> kind, lengths |-> lengths, offset |-> offset, total |-> Sum(lengths), result |-> result,
                       segments |-> Segments(lengths), first |-> 1, completed |-> 0, before |-> cache, id |-> requests']
  <2>1. PICK kind \in {"read", "write"}, lengths \in Vectors, offset \in 0..FileSize :
          LET total == Sum(lengths)
          IN \E result \in
                  IF ~Accepts(offset, total) THEN {"invalid"}
                  ELSE IF total = 0 THEN {"done"}
                  ELSE IF Len(lengths) > StackVectors THEN {"busy", "no memory"} ELSE {"busy"} :
              request' = [kind |-> kind, lengths |-> lengths, offset |-> offset, total |-> total, result |-> result,
                          segments |-> Segments(lengths), first |-> 1, completed |-> 0, before |-> cache, id |-> requests']
    BY Zenon DEF Vector
  <2> QED
    BY <2>1 DEF Vectored, Results, Going
<1>2. /\ requests' = requests + 1 /\ memory' = [a \in Addresses |-> <<>>] /\ UNCHANGED <<cache, disk>>
  BY DEF Vector
<1>3. lengths \in Seq(Nat) /\ offset \in Nat /\ FileSize \in Nat /\ 1 \in Nat /\ 0 \in Nat
  BY StorageAssumption
<1>4. /\ Layout(Segments(lengths), 1) /\ Len(Segments(lengths)) = Len(lengths)
      /\ Lengths(Segments(lengths)) = lengths
  BY <1>3, NewSegments
<1>5. Sum(lengths) \in Nat
  <2>1. Len(lengths) \in 0..Len(lengths)
    BY <1>3
  <2> QED
    BY <1>3, <2>1, ThroughIs DEF Sum
<1>6. requests' \in Nat
  BY <1>2 DEF TransferInvariant, TransferTypes
<1>7. /\ request'.kind = kind /\ request'.lengths = lengths /\ request'.offset = offset /\ request'.total = Sum(lengths)
      /\ request'.result = result /\ request'.segments = Segments(lengths) /\ request'.first = 1
      /\ request'.completed = 0 /\ request'.before = cache
  BY <1>1
<1>8. request' \in VectorRequests
  <2>1. Segments(lengths) \in Seq([base : Int, length : Nat])
    BY <1>4 DEF Layout
  <2>2. cache \in [Positions -> Bytes]
    BY DEF TransferInvariant, TransferTypes
  <2> QED
    BY <1>1, <1>3, <1>5, <1>6, <2>1, <2>2, Zenon DEF VectorRequests
<1>9. TransferTypes'
  BY <1>2, <1>6, <1>8 DEF TransferInvariant, TransferTypes
<1>10. InFile'
  BY <1>1, <1>3, <1>5, <1>7 DEF InFile, Accepts
<1>11. SegmentsLeft'
  <2>1. Through(lengths, 1)[Len(lengths)] = Sum(lengths)
    BY DEF Sum
  <2>2. \A k \in 1..Sum(lengths) - 0 : AddressOf(Segments(lengths), 1, k) = Place(lengths, 0 + k)
    BY <1>5 DEF Place
  <2> QED
    BY <1>4, <1>5, <1>7, <2>1, <2>2 DEF SegmentsLeft
<1>12. BytesMoved'
  <2>1. offset..offset + 0 - 1 = {} /\ 1..0 = {}
    BY <1>3
  <2> QED
    BY <1>1, <1>2, <1>7, <2>1 DEF BytesMoved, Vectored
<1> QED
  BY <1>9, <1>10, <1>11, <1>12 DEF TransferInvariant

\* A new request for zeros.
LEMMA ZeroStep == TransferInvariant /\ Zero => TransferInvariant'
<1> SUFFICES ASSUME TransferInvariant, Zero PROVE TransferInvariant'
  OBVIOUS
<1>1. PICK offset \in 0..FileSize, total \in 0..FileSize :
        request' = [kind |-> "zero", offset |-> offset, total |-> total, completed |-> 0, before |-> cache, id |-> 0,
                    result |-> IF ~Accepts(offset, total) THEN "invalid" ELSE IF total = 0 THEN "done" ELSE "busy"]
  BY DEF Zero
<1>2. requests' = requests + 1 /\ UNCHANGED <<cache, disk, memory>>
  BY DEF Zero
<1>3. offset \in Nat /\ total \in Nat /\ FileSize \in Nat
  BY StorageAssumption
<1>4. /\ request'.kind = "zero" /\ request'.offset = offset /\ request'.total = total
      /\ request'.completed = 0 /\ request'.before = cache
      /\ request'.result \in Going => Accepts(offset, total) /\ (request'.result = "done" => total = 0)
  BY <1>1 DEF Going
<1>5. request' \in ZeroRequests
  <2> DEFINE result == IF ~Accepts(offset, total) THEN "invalid" ELSE IF total = 0 THEN "done" ELSE "busy"
  <2>1. result \in Results /\ cache \in [Positions -> Bytes]
    BY DEF Results, Going, TransferInvariant, TransferTypes
  <2> HIDE DEF result
  <2> QED
    BY <1>1, <1>3, <2>1 DEF ZeroRequests, result
<1>6. TransferTypes'
  BY <1>2, <1>5 DEF TransferInvariant, TransferTypes
<1>7. InFile' /\ SegmentsLeft'
  BY <1>3, <1>4 DEF InFile, SegmentsLeft, Accepts, Vectored
<1>8. BytesMoved'
  <2>1. offset..offset + 0 - 1 = {}
    BY <1>3
  <2> QED
    BY <1>2, <1>4, <2>1 DEF BytesMoved
<1> QED
  BY <1>6, <1>7, <1>8 DEF TransferInvariant

\* The request behind a transfer of n bytes.
LEMMA TransferredRequest ==
    ASSUME TransferInvariant, request.kind \in Vectored, request.result = "busy",
           NEW n \in 1..request.total - request.completed,
           LET rest == AdvanceSegments(request.segments, request.first, n)
           IN request' = [request EXCEPT !.completed = @ + n, !.first = rest.first, !.segments = rest.segments]
    PROVE  /\ request' \in VectorRequests /\ request'.kind = request.kind /\ request'.lengths = request.lengths
           /\ request'.offset = request.offset /\ request'.total = request.total /\ request'.result = "busy"
           /\ request'.before = request.before /\ request'.id = request.id
           /\ request'.completed = request.completed + n
           /\ InFile' /\ SegmentsLeft'
<1> DEFINE rest == AdvanceSegments(request.segments, request.first, n)
           left == request.total - request.completed
<1>1. /\ request \in VectorRequests /\ request.lengths \in Seq(Nat)
      /\ request.offset \in Nat /\ request.total \in Nat /\ request.completed \in Nat
  BY VectorFields DEF TransferInvariant
<1>2. request.offset + request.total <= FileSize /\ request.completed <= request.total /\ FileSize \in Nat
  BY StorageAssumption DEF TransferInvariant, InFile, Going
<1>3. n \in Nat /\ n <= left /\ left \in Nat /\ request.completed + n \in Nat
  BY <1>1, <1>2
<1>4. /\ request.total = Sum(request.lengths)
      /\ Layout(request.segments, request.first) /\ Len(request.segments) = Len(request.lengths)
      /\ Through(Lengths(request.segments), request.first)[Len(request.segments)] = left
      /\ \A k \in 1..left :
            AddressOf(request.segments, request.first, k) = Place(request.lengths, request.completed + k)
  BY DEF TransferInvariant, SegmentsLeft, Going
<1> HIDE DEF left
<1>5. /\ Layout(rest.segments, rest.first) /\ Len(rest.segments) = Len(request.segments)
      /\ Through(Lengths(rest.segments), rest.first)[Len(request.segments)] = left - n
      /\ \A k \in 1..left - n :
            AddressOf(rest.segments, rest.first, k) = AddressOf(request.segments, request.first, n + k)
  BY <1>3, <1>4, AdvanceKeeps
<1>6. request' = [request EXCEPT !.completed = request.completed + n, !.first = rest.first, !.segments = rest.segments]
  BY <1>1, Zenon DEF VectorRequests
<1> HIDE DEF rest
<1>7. rest.segments \in Seq([base : Int, length : Nat]) /\ rest.first \in Nat
  BY <1>5 DEF Layout
<1>8. /\ request' \in VectorRequests /\ request'.kind = request.kind /\ request'.lengths = request.lengths
      /\ request'.offset = request.offset /\ request'.total = request.total /\ request'.result = request.result
      /\ request'.before = request.before /\ request'.id = request.id
      /\ request'.completed = request.completed + n /\ request'.first = rest.first /\ request'.segments = rest.segments
  BY <1>1, <1>3, <1>6, <1>7, Zenon DEF VectorRequests
<1>9. InFile'
  BY <1>1, <1>2, <1>3, <1>8 DEF InFile, left
<1>10. SegmentsLeft'
  <2>1. left - n = request.total - (request.completed + n)
    BY <1>1, <1>3 DEF left
  <2>2. ASSUME NEW k \in 1..left - n
        PROVE  AddressOf(rest.segments, rest.first, k) = Place(request.lengths, (request.completed + n) + k)
    <3>1. n + k \in 1..left /\ request.completed + (n + k) = (request.completed + n) + k
      BY <1>1, <1>3
    <3>2. AddressOf(rest.segments, rest.first, k) = AddressOf(request.segments, request.first, n + k)
      BY <1>5
    <3>3. AddressOf(request.segments, request.first, n + k) = Place(request.lengths, request.completed + (n + k))
      BY <1>4, <3>1
    <3> QED
      BY <3>1, <3>2, <3>3
  <2> QED
    BY <1>4, <1>5, <1>8, <2>1, <2>2 DEF SegmentsLeft
<1> QED
  BY <1>8, <1>9, <1>10

\* The bytes of a transfer have addresses of their own.
LEMMA TransferAddresses ==
    ASSUME TransferInvariant, request.kind \in Vectored, request.result = "busy",
           NEW n \in 1..request.total - request.completed
    PROVE  /\ n \in Nat /\ request.completed + n <= request.total /\ request.offset + request.total <= FileSize
           /\ \A k \in 1..n :
                 AddressOf(request.segments, request.first, k) = Place(request.lengths, request.completed + k)
           /\ \A k \in 1..request.total : Place(request.lengths, k) \in Addresses /\ Place(request.lengths, k) \in Nat
           /\ \A k, m \in 1..request.total : Place(request.lengths, k) = Place(request.lengths, m) => k = m
<1>1. /\ request.lengths \in Seq(Nat) /\ request.lengths \in Vectors
      /\ request.offset \in Nat /\ request.total \in Nat /\ request.completed \in Nat
  BY VectorFields DEF TransferInvariant
<1>2. request.offset + request.total <= FileSize /\ request.completed <= request.total /\ FileSize \in Nat
  BY StorageAssumption DEF TransferInvariant, InFile, Going
<1>3. n \in Nat /\ request.completed + n <= request.total
  BY <1>1, <1>2
<1>4. /\ request.total = Sum(request.lengths)
      /\ \A k \in 1..request.total - request.completed :
            AddressOf(request.segments, request.first, k) = Place(request.lengths, request.completed + k)
  BY DEF TransferInvariant, SegmentsLeft, Going
<1>5. ASSUME NEW k \in 1..request.total
      PROVE  Place(request.lengths, k) \in Addresses /\ Place(request.lengths, k) \in Nat
  <2>1. Place(request.lengths, k) \in 1..k + Len(request.lengths) /\ Len(request.lengths) \in Nat
    BY <1>1, <1>4, PlacesApart
  <2>2. Place(request.lengths, k) \in 1..FileSize + Len(request.lengths) /\ Place(request.lengths, k) \in Nat
    BY <1>1, <1>2, <2>1
  <2> QED
    BY <1>1, <2>2 DEF Addresses
<1>6. \A k, m \in 1..request.total : Place(request.lengths, k) = Place(request.lengths, m) => k = m
  BY <1>1, <1>4, PlacesApart
<1>7. \A k \in 1..n : k \in 1..request.total - request.completed
  BY <1>1, <1>3
<1> QED
  BY <1>2, <1>3, <1>4, <1>5, <1>6, <1>7

\* The host moves some bytes between the segments and the file.
LEMMA TransferStep == TransferInvariant /\ Transfer => TransferInvariant'
<1> SUFFICES ASSUME TransferInvariant, Transfer PROVE TransferInvariant'
  OBVIOUS
<1>1. /\ request.kind \in Vectored /\ request.result = "busy" /\ UNCHANGED <<disk, requests>>
  BY DEF Transfer, Vectored
<1> DEFINE position == request.offset + request.completed
           Address(k) == AddressOf(request.segments, request.first, k)
<1>2. PICK n \in 1..request.total - request.completed :
        /\ LET rest == AdvanceSegments(request.segments, request.first, n)
           IN request' = [request EXCEPT !.completed = @ + n, !.first = rest.first, !.segments = rest.segments]
        /\ IF request.kind = "write"
           THEN /\ cache' = [p \in Positions |->
                               IF p \in Written(n) THEN <<request.id, Address(p - position + 1)>> ELSE cache[p]]
                /\ UNCHANGED memory
           ELSE /\ memory' = [a \in Addresses |->
                                 IF \E k \in 1..n : Address(k) = a
                                 THEN cache[position - 1 + CHOOSE k \in 1..n : Address(k) = a] ELSE memory[a]]
                /\ UNCHANGED cache
  BY Zenon DEF Transfer
<1>3. /\ request' \in VectorRequests /\ request'.kind = request.kind /\ request'.lengths = request.lengths
      /\ request'.offset = request.offset /\ request'.total = request.total /\ request'.result = "busy"
      /\ request'.before = request.before /\ request'.id = request.id
      /\ request'.completed = request.completed + n
      /\ InFile' /\ SegmentsLeft'
  BY <1>1, <1>2, TransferredRequest
<1>4. /\ n \in Nat /\ request.completed + n <= request.total /\ request.offset + request.total <= FileSize
      /\ \A k \in 1..n : Address(k) = Place(request.lengths, request.completed + k)
      /\ \A k \in 1..request.total : Place(request.lengths, k) \in Addresses /\ Place(request.lengths, k) \in Nat
      /\ \A k, m \in 1..request.total : Place(request.lengths, k) = Place(request.lengths, m) => k = m
  BY <1>1, TransferAddresses
<1>5. /\ request.offset \in Nat /\ request.total \in Nat /\ request.completed \in Nat /\ request.id \in Nat
      /\ FileSize \in Nat
  BY <1>1, VectorFields, StorageAssumption DEF TransferInvariant
<1>6. /\ cache \in [Positions -> Bytes] /\ disk \in [Positions -> Bytes]
      /\ memory \in [Addresses -> Bytes \cup {<<>>}] /\ requests \in Nat
  BY DEF TransferInvariant, TransferTypes
<1> HIDE DEF Address
<1>7. CASE request.kind = "write"
  <2>1. /\ cache' = [p \in Positions |->
                       IF p \in Written(n) THEN <<request.id, Address(p - position + 1)>> ELSE cache[p]]
        /\ UNCHANGED memory
    BY <1>2, <1>7
  <2>2. \A p \in Positions : p \in Nat /\ (p \in Written(n) <=> position <= p /\ p < position + n)
    <3>1. ASSUME NEW p \in Positions PROVE p \in Written(n) <=> position <= p /\ p < position + n
      <4>1. ASSUME p \in Written(n) PROVE position <= p /\ p < position + n
        BY <1>4, <1>5, <4>1 DEF Written
      <4>2. ASSUME position <= p, p < position + n PROVE p \in Written(n)
        <5>1. p - position \in 0..n - 1 /\ p = position + (p - position)
          BY <1>4, <1>5, <4>2 DEF Positions
        <5> QED
          BY <5>1 DEF Written
      <4> QED
        BY <4>1, <4>2
    <3> QED
      BY <3>1, <1>5 DEF Positions
  <2>3. ASSUME NEW p \in Positions, p \in Written(n)
        PROVE  /\ Address(p - position + 1) = Place(request.lengths, p - request.offset + 1)
               /\ <<request.id, Address(p - position + 1)>> \in Bytes
    <3>1. position <= p /\ p < position + n /\ p \in Nat
      BY <2>2, <2>3
    <3>2. /\ p - position + 1 \in 1..n /\ request.completed + (p - position + 1) = p - request.offset + 1
          /\ p - request.offset + 1 \in 1..request.total
      BY <1>4, <1>5, <3>1
    <3>3. Address(p - position + 1) = Place(request.lengths, p - request.offset + 1)
      BY <1>4, <3>2
    <3>4. Place(request.lengths, p - request.offset + 1) \in Nat
      BY <1>4, <3>2
    <3> QED
      BY <1>5, <3>3, <3>4 DEF Bytes
  <2>4. cache' \in [Positions -> Bytes]
    BY <1>6, <2>1, <2>3
  <2>5. TransferTypes'
    BY <1>1, <1>3, <1>6, <2>1, <2>4 DEF TransferTypes
  <2>6. ASSUME NEW p \in Positions
        PROVE  cache'[p] = IF p \in request.offset..request.offset + (request.completed + n) - 1
                           THEN <<request.id, Place(request.lengths, p - request.offset + 1)>> ELSE request.before[p]
    <3>1. p \in Nat /\ (p \in Written(n) <=> position <= p /\ p < position + n)
      BY <2>2
    <3>2. cache[p] = IF p \in request.offset..request.offset + request.completed - 1
                     THEN <<request.id, Place(request.lengths, p - request.offset + 1)>> ELSE request.before[p]
      BY <1>1, <1>7 DEF TransferInvariant, BytesMoved, Going
    <3>3. CASE p \in Written(n)
      <4>1. p \in request.offset..request.offset + (request.completed + n) - 1
        BY <1>4, <1>5, <3>1, <3>3
      <4> QED
        BY <2>1, <2>3, <3>3, <4>1
    <3>4. CASE p \notin Written(n)
      <4>1. p \in request.offset..request.offset + (request.completed + n) - 1 <=>
              p \in request.offset..request.offset + request.completed - 1
        BY <1>4, <1>5, <3>1, <3>4
      <4> QED
        BY <2>1, <3>2, <3>4, <4>1
    <3> QED
      BY <3>3, <3>4
  <2>7. BytesMoved'
    BY <1>3, <1>7, <2>6 DEF BytesMoved
  <2> QED
    BY <1>3, <2>5, <2>7 DEF TransferInvariant
<1>8. CASE request.kind = "read"
  <2>1. /\ memory' = [a \in Addresses |->
                         IF \E k \in 1..n : Address(k) = a
                         THEN cache[position - 1 + CHOOSE k \in 1..n : Address(k) = a] ELSE memory[a]]
        /\ UNCHANGED cache
    BY <1>2, <1>8
  <2>2. cache = request.before
    BY <1>1, <1>8 DEF TransferInvariant, BytesMoved, Going
  <2>3. \A k \in 1..n : /\ position - 1 + k \in Positions /\ request.completed + k \in 1..request.total
                        /\ k \in Nat
    BY <1>4, <1>5 DEF Positions
  <2>4. memory' \in [Addresses -> Bytes \cup {<<>>}]
    <3>1. ASSUME NEW a \in Addresses, \E k \in 1..n : Address(k) = a
          PROVE  cache[position - 1 + CHOOSE k \in 1..n : Address(k) = a] \in Bytes
      <4> DEFINE c == CHOOSE k \in 1..n : Address(k) = a
      <4>1. c \in 1..n
        BY <3>1
      <4> HIDE DEF c
      <4>2. position - 1 + c \in Positions
        BY <2>3, <4>1
      <4>3. cache[position - 1 + c] \in Bytes
        BY <1>6, <4>2
      <4> QED
        BY <4>3 DEF c
    <3> QED
      BY <1>6, <2>1, <3>1
  <2>5. TransferTypes'
    BY <1>1, <1>3, <1>6, <2>1, <2>4 DEF TransferTypes
  <2>6. ASSUME NEW k \in 1..request.completed + n
        PROVE  memory'[Place(request.lengths, k)] = request.before[request.offset + (k - 1)]
    <3> DEFINE a == Place(request.lengths, k)
    <3>1. k \in 1..request.total /\ k \in Nat
      BY <1>4, <1>5
    <3>2. a \in Addresses
      BY <1>4, <3>1
    <3>3. ASSUME NEW j \in 1..n, Address(j) = a PROVE j = k - request.completed
      <4>1. Address(j) = Place(request.lengths, request.completed + j) /\ request.completed + j \in 1..request.total
        BY <1>4, <2>3
      <4>2. request.completed + j = k
        BY <1>4, <3>1, <3>3, <4>1
      <4>3. j \in Nat
        BY <2>3
      <4> QED
        BY <1>5, <3>1, <4>2, <4>3
    <3>4. CASE k <= request.completed
      <4>1. ~ \E j \in 1..n : Address(j) = a
        <5>1. ASSUME NEW j \in 1..n, Address(j) = a PROVE FALSE
          <6>1. j = k - request.completed /\ j \in Nat /\ 0 < j
            BY <1>4, <3>3, <5>1
          <6> QED
            BY <1>5, <3>1, <3>4, <6>1
        <5> QED
          BY <5>1
      <4> HIDE DEF a
      <4>2. memory'[a] = memory[a]
        BY <2>1, <3>2, <4>1
      <4>3. k \in 1..request.completed
        BY <1>5, <3>1, <3>4
      <4> QED
        BY <1>1, <1>8, <4>2, <4>3 DEF TransferInvariant, BytesMoved, Going, a
    <3>5. CASE ~ k <= request.completed
      <4> DEFINE j == k - request.completed
                 c == CHOOSE m \in 1..n : Address(m) = a
      <4>1. j \in 1..n /\ request.completed + j = k
        BY <1>4, <1>5, <3>1, <3>5
      <4>2. Address(j) = a
        BY <1>4, <4>1
      <4>3. c \in 1..n /\ Address(c) = a
        BY <4>1, <4>2
      <4>4. c = j
        BY <3>3, <4>3
      <4> HIDE DEF a
      <4>5. memory'[a] = cache[position - 1 + c]
        BY <2>1, <3>2, <4>1, <4>2
      <4> HIDE DEF c
      <4>6. position - 1 + c = request.offset + (k - 1)
        BY <1>5, <3>1, <4>4
      <4> QED
        BY <2>2, <4>5, <4>6 DEF a
    <3> QED
      BY <3>4, <3>5
  <2>7. BytesMoved'
    BY <1>3, <1>8, <2>1, <2>2, <2>6 DEF BytesMoved
  <2> QED
    BY <1>3, <2>5, <2>7 DEF TransferInvariant
<1> QED
  BY <1>1, <1>7, <1>8 DEF Vectored

\* The end of a request, well or not: nothing is moved.
LEMMA RequestEnds ==
    ASSUME TransferInvariant, request.kind \in Vectored \cup {"zero"}, request.result = "busy",
           NEW result \in {"done", "failed"}, request' = [request EXCEPT !.result = result],
           result = "done" => request.completed = request.total,
           UNCHANGED <<cache, disk, memory, requests>>
    PROVE  TransferInvariant'
<1>1. result \in Results
  BY DEF Results, Going
<1>2. CASE request.kind \in Vectored
  <2>1. request \in VectorRequests
    BY <1>2, VectorFields DEF TransferInvariant
  <2>2. /\ request' \in VectorRequests /\ request'.kind = request.kind /\ request'.lengths = request.lengths
        /\ request'.offset = request.offset /\ request'.total = request.total /\ request'.result = result
        /\ request'.before = request.before /\ request'.id = request.id /\ request'.first = request.first
        /\ request'.completed = request.completed /\ request'.segments = request.segments
    BY <1>1, <2>1, Zenon DEF VectorRequests
  <2>3. TransferTypes'
    BY <2>2 DEF TransferInvariant, TransferTypes
  <2>4. InFile'
    BY <1>2, <2>2 DEF TransferInvariant, InFile, Going
  <2>5. SegmentsLeft'
    BY <1>2, <2>2 DEF TransferInvariant, SegmentsLeft, Going
  <2>6. BytesMoved'
    <3>1. (request.kind = "write") \/ (request.kind = "read")
      BY <1>2 DEF Vectored
    <3> QED
      BY <2>2, <3>1 DEF TransferInvariant, BytesMoved, Going
  <2> QED
    BY <2>3, <2>4, <2>5, <2>6 DEF TransferInvariant
<1>3. CASE request.kind = "zero"
  <2>1. request \in ZeroRequests
    BY <1>3, ZeroFields DEF TransferInvariant
  <2>2. /\ request' \in ZeroRequests /\ request'.kind = request.kind
        /\ request'.offset = request.offset /\ request'.total = request.total /\ request'.result = result
        /\ request'.before = request.before /\ request'.completed = request.completed
    BY <1>1, <2>1, Zenon DEF ZeroRequests
  <2>3. TransferTypes'
    BY <2>2 DEF TransferInvariant, TransferTypes
  <2>4. InFile' /\ SegmentsLeft'
    BY <1>3, <2>2 DEF TransferInvariant, InFile, SegmentsLeft, Going, Vectored
  <2>5. BytesMoved'
    BY <1>3, <2>2 DEF TransferInvariant, BytesMoved, Going
  <2> QED
    BY <2>3, <2>4, <2>5 DEF TransferInvariant
<1> QED
  BY <1>2, <1>3

\* A piece of zeros is written.
LEMMA ZerosStep == TransferInvariant /\ WriteZeros => TransferInvariant'
<1> SUFFICES ASSUME TransferInvariant, WriteZeros PROVE TransferInvariant'
  OBVIOUS
<1>1. request.kind = "zero" /\ request.result = "busy" /\ UNCHANGED <<disk, memory, requests>>
  BY DEF WriteZeros
<1>2. PICK n \in 1..ZeroChunk :
        /\ n <= request.total - request.completed
        /\ request' = [request EXCEPT !.completed = @ + n]
        /\ cache' = [p \in Positions |-> IF p \in Written(n) THEN <<0>> ELSE cache[p]]
  BY DEF WriteZeros
<1>3. /\ request \in ZeroRequests /\ request.offset \in Nat /\ request.total \in Nat /\ request.completed \in Nat
  BY <1>1, ZeroFields DEF TransferInvariant
<1>4. request.offset + request.total <= FileSize /\ FileSize \in Nat
  BY <1>1, StorageAssumption DEF TransferInvariant, InFile, Going
<1>5. n \in Nat /\ request.completed + n <= request.total /\ request.completed + n \in Nat
  <2>1. n \in Int /\ n > 0
    BY <1>2
  <2> QED
    BY <1>2, <1>3, <2>1
<1>6. request' = [request EXCEPT !.completed = request.completed + n]
  BY <1>2, <1>3, Zenon DEF ZeroRequests
<1>7. /\ request' \in ZeroRequests /\ request'.kind = "zero" /\ request'.offset = request.offset
      /\ request'.total = request.total /\ request'.result = "busy" /\ request'.before = request.before
      /\ request'.completed = request.completed + n
  BY <1>1, <1>3, <1>5, <1>6, Zenon DEF ZeroRequests
<1> DEFINE position == request.offset + request.completed
<1>8. \A p \in Positions : p \in Nat /\ (p \in Written(n) <=> position <= p /\ p < position + n)
  <2>1. ASSUME NEW p \in Positions PROVE p \in Written(n) <=> position <= p /\ p < position + n
    <3>1. ASSUME p \in Written(n) PROVE position <= p /\ p < position + n
      BY <1>3, <1>5, <3>1 DEF Written
    <3>2. ASSUME position <= p, p < position + n PROVE p \in Written(n)
      <4>1. p - position \in 0..n - 1 /\ p = position + (p - position)
        BY <1>3, <1>4, <1>5, <3>2 DEF Positions
      <4> QED
        BY <4>1 DEF Written
    <3> QED
      BY <3>1, <3>2
  <2> QED
    BY <1>4, <2>1 DEF Positions
<1>9. cache' \in [Positions -> Bytes]
  <2>1. <<0>> \in Bytes /\ cache \in [Positions -> Bytes]
    BY DEF Bytes, TransferInvariant, TransferTypes
  <2> QED
    BY <1>2, <2>1
<1>10. TransferTypes'
  BY <1>1, <1>7, <1>9 DEF TransferInvariant, TransferTypes
<1>11. InFile' /\ SegmentsLeft'
  BY <1>3, <1>4, <1>5, <1>7 DEF InFile, SegmentsLeft, Vectored
<1>12. BytesMoved'
  <2>1. ASSUME NEW p \in Positions
        PROVE  cache'[p] = IF p \in request.offset..request.offset + (request.completed + n) - 1
                           THEN <<0>> ELSE request.before[p]
    <3>1. cache[p] = IF p \in request.offset..request.offset + request.completed - 1
                     THEN <<0>> ELSE request.before[p]
      BY <1>1 DEF TransferInvariant, BytesMoved, Going
    <3>2. cache'[p] = IF p \in Written(n) THEN <<0>> ELSE cache[p]
      BY <1>2
    <3>3. p \in Nat /\ (p \in Written(n) <=> position <= p /\ p < position + n)
      BY <1>8
    <3>4. p \in request.offset..request.offset + (request.completed + n) - 1 <=>
            p \in Written(n) \/ p \in request.offset..request.offset + request.completed - 1
      BY <1>3, <1>5, <3>3
    <3> QED
      BY <3>1, <3>2, <3>4
  <2> QED
    BY <1>7, <2>1 DEF BytesMoved
<1> QED
  BY <1>10, <1>11, <1>12 DEF TransferInvariant

\* No step of the storage disturbs what a request has moved.
LEMMA StepTransfers == TransferInvariant /\ [StorageNext]_storageVars => TransferInvariant'
<1> SUFFICES ASSUME TransferInvariant, [StorageNext]_storageVars PROVE TransferInvariant'
  OBVIOUS
<1>0. /\ cache \in [Positions -> Bytes] /\ disk \in [Positions -> Bytes] /\ requests \in Nat
  BY DEF TransferInvariant, TransferTypes
<1>1. CASE Vector \/ Zero \/ Transfer \/ WriteZeros
  BY <1>1, VectorStep, ZeroStep, TransferStep, ZerosStep
<1>2. CASE TransferFails
  <2>1. /\ request.kind \in Vectored \cup {"zero"} /\ request.result = "busy"
        /\ request' = [request EXCEPT !.result = "failed"] /\ UNCHANGED <<cache, disk, memory, requests>>
    BY <1>2 DEF TransferFails, Vectored
  <2> QED
    BY <2>1, RequestEnds
<1>3. CASE TransferEnds
  <2>1. /\ request.kind \in Vectored \cup {"zero"} /\ request.result = "busy" /\ request.completed = request.total
        /\ request' = [request EXCEPT !.result = "done"] /\ UNCHANGED <<cache, disk, memory, requests>>
    BY <1>3 DEF TransferEnds, Vectored
  <2> QED
    BY <2>1, RequestEnds
<1>4. CASE Flush
  <2>1. PICK synced \in BOOLEAN :
          /\ disk' = IF dirty /\ synced THEN cache ELSE disk
          /\ request' = [kind |-> "flush", result |-> IF dirty /\ ~synced THEN "failed" ELSE "done"]
    BY <1>4 DEF Flush
  <2>2. requests' = requests + 1 /\ UNCHANGED <<cache, memory>>
    BY <1>4 DEF Flush
  <2>3. request' \in OtherRequests
    BY <2>1 DEF OtherRequests
  <2> QED
    BY <1>0, <2>1, <2>2, <2>3, OtherRequest
<1>5. CASE CloseAndOpen
  <2>1. disk' \in {cache, disk} /\ request' = NoRequest /\ UNCHANGED <<cache, memory, requests>>
    BY <1>5 DEF CloseAndOpen
  <2> QED
    BY <1>0, <2>1, OtherRequest DEF NoRequest, OtherRequests
<1>6. CASE LosePower
  <2>1. cache' = disk /\ request' = NoRequest /\ UNCHANGED <<disk, memory, requests>>
    BY <1>6 DEF LosePower
  <2> QED
    BY <1>0, <2>1, OtherRequest DEF NoRequest, OtherRequests
<1>7. CASE WriteBack \/ UNCHANGED storageVars
  <2>1. UNCHANGED <<cache, request, memory, requests>> /\ disk' \in [Positions -> Bytes]
    <3>1. CASE WriteBack
      <4>1. PICK p \in Positions : disk' = [disk EXCEPT ![p] = cache[p]]
        BY <3>1 DEF WriteBack
      <4> QED
        BY <1>0, <3>1, <4>1 DEF WriteBack
    <3>2. CASE UNCHANGED storageVars
      BY <1>0, <3>2 DEF storageVars
    <3> QED
      BY <1>7, <3>1, <3>2
  <2> QED
    BY <2>1 DEF TransferInvariant, TransferTypes, InFile, SegmentsLeft, BytesMoved
<1> QED
  BY <1>1, <1>2, <1>3, <1>4, <1>5, <1>6, <1>7 DEF StorageNext

\* In every reachable state the requests satisfy the inductive invariant.
THEOREM TransfersAreInductive == StorageSpec => []TransferInvariant
  BY InitTransfers, StepTransfers, PTL DEF StorageSpec

\* A request that has ended has moved what it said.
LEMMA MovedExactly == TransferInvariant => TransfersExact
<1> SUFFICES ASSUME TransferInvariant, request.kind \in {"read", "write", "zero"}, request.result = "done",
                    NEW p \in Positions
             PROVE  LET k == p - request.offset
                        inside == k >= 0 /\ k < request.total
                    IN CASE request.kind = "read" -> inside => memory[Source(k)] = request.before[p]
                         [] request.kind = "write" -> cache[p] = IF inside THEN <<request.id, Source(k)>> ELSE request.before[p]
                         [] OTHER -> cache[p] = IF inside THEN <<0>> ELSE request.before[p]
  BY Zenon DEF TransfersExact
<1>1. /\ request.offset \in Nat /\ request.total \in Nat /\ request.completed = request.total
      /\ request.kind \in Vectored \cup {"zero"} /\ request.result \in Going
  <2>1. request.kind \in Vectored \cup {"zero"} /\ request.result \in Going
    BY DEF Vectored, Going
  <2> QED
    BY <2>1, VectorFields, ZeroFields DEF TransferInvariant, InFile
<1>2. p \in Int
  BY StorageAssumption DEF Positions
<1> DEFINE k == p - request.offset
           inside == k >= 0 /\ k < request.total
<1>3. k \in Int /\ p = request.offset + k /\ k = (k + 1) - 1
  BY <1>1, <1>2
<1>4. inside <=> p \in request.offset..request.offset + request.completed - 1
  BY <1>1, <1>2
<1>5. Source(k) = Place(request.lengths, k + 1)
  BY DEF Source, Place
<1>6. CASE request.kind = "read"
  <2>1. inside => k + 1 \in 1..request.completed
    BY <1>1, <1>3
  <2>2. inside => memory[Place(request.lengths, k + 1)] = request.before[request.offset + ((k + 1) - 1)]
    BY <1>1, <1>6, <2>1 DEF TransferInvariant, BytesMoved
  <2> HIDE DEF k
  <2>3. inside => memory[Source(k)] = request.before[p]
    BY <1>3, <1>5, <2>2
  <2> QED
    BY <1>6, <2>3 DEF k
<1>7. CASE request.kind = "write"
  <2>1. cache[p] = IF inside THEN <<request.id, Place(request.lengths, k + 1)>> ELSE request.before[p]
    BY <1>1, <1>4, <1>7 DEF TransferInvariant, BytesMoved
  <2> HIDE DEF k
  <2>2. cache[p] = IF inside THEN <<request.id, Source(k)>> ELSE request.before[p]
    BY <1>5, <2>1
  <2> QED
    BY <1>7, <2>2 DEF k
<1>8. CASE request.kind = "zero"
  <2>1. cache[p] = IF inside THEN <<0>> ELSE request.before[p]
    BY <1>1, <1>4, <1>8 DEF TransferInvariant, BytesMoved
  <2> QED
    BY <1>8, <2>1
<1> QED
  BY <1>6, <1>7, <1>8

\* avz_block_io_vector and avz_file_block_storage_zero: a request that ends
\* well has moved each of its bytes, in order, to or from its place and no
\* other byte, wherever the host has cut it.
THEOREM TransfersAreExact == StorageSpec => []TransfersExact
  BY TransfersAreInductive, MovedExactly, PTL
=============================================================================
