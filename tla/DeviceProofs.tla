------------------------------ MODULE DeviceProofs ------------------------------
(***************************************************************************)
(* Proofs about the two virtio devices that interpret what they are given,  *)
(* for every value of their constants: the touch pipeline of TouchPipeline  *)
(* and the command pipeline of GPUCommandQueue.                             *)
(***************************************************************************)
EXTENDS GPUCommandQueue, TouchPipeline, FiniteSetTheorems, WellFoundedInduction, TLAPS

-----------------------------------------------------------------------------
(* Counting.                                                               *)

\* A set of naturals that is not empty has a lowest member.
LEMMA LowestIsMember ==
  ASSUME NEW S \in SUBSET Nat, S # {}
  PROVE  \E s \in S : \A t \in S : s <= t
<1> DEFINE less == {ss \in Nat \X Nat : ss[1] < ss[2]}
<1>1. PICK s \in S : \A t \in S : ~ (<<t, s>> \in less)
  <2>1. IsWellFoundedOn(less, Nat)
    BY NatLessThanWellFounded, Zenon DEF OpToRel
  <2> HIDE DEF less
  <2> QED
    BY <2>1, WFMin
<1>2. ASSUME NEW t \in S PROVE s <= t
  <2>1. <<t, s>> \in Nat \X Nat /\ <<t, s>>[1] = t /\ <<t, s>>[2] = s
    OBVIOUS
  <2>2. t < s => <<t, s>> \in less
    BY <2>1, Zenon
  <2> QED
    BY <1>1, <2>2
<1> QED
  BY <1>2

\* The members of an interval that are counted are finitely many.
LEMMA PlacesCounted ==
  ASSUME NEW n \in Nat
  PROVE  IsFiniteSet(1..n) /\ Cardinality(1..n) = n
BY FS_Interval

LEMMA CountIsNat ==
  ASSUME NEW n \in Nat, NEW A \in SUBSET (1..n)
  PROVE  IsFiniteSet(A) /\ Cardinality(A) \in Nat /\ Cardinality(A) <= n
<1>1. IsFiniteSet(1..n) /\ Cardinality(1..n) = n
  BY PlacesCounted
<1>2. IsFiniteSet(A) /\ Cardinality(A) <= n
  BY <1>1, FS_Subset
<1> QED
  BY <1>2, FS_CardinalityType

\* The places C of a sequence of n and m are the places A of its first part and
\* B of its second.
Splits(C, A, n, B, m) ==
  /\ n \in Nat /\ m \in Nat /\ A \subseteq 1..n /\ B \subseteq 1..m /\ C \subseteq 1..(n + m)
  /\ \A i \in 1..n : i \in C <=> i \in A
  /\ \A i \in 1..m : n + i \in C <=> i \in B

\* What is counted in two sequences is counted in the two together.
LEMMA CountsAdd ==
  ASSUME NEW n, NEW m, NEW A, NEW B, NEW C, Splits(C, A, n, B, m)
  PROVE  /\ Cardinality(C) = Cardinality(A) + Cardinality(B)
         /\ Cardinality(A) \in Nat /\ Cardinality(B) \in Nat
<1> DEFINE k == n + m
<1>0. /\ n \in Nat /\ m \in Nat /\ k \in Nat /\ A \in SUBSET (1..n) /\ B \in SUBSET (1..m) /\ C \in SUBSET (1..k)
      /\ \A i \in 1..n : i \in C <=> i \in A
      /\ \A i \in 1..m : n + i \in C <=> i \in B
  BY DEF Splits
<1> DEFINE above == {i \in C : i > n}
           shift == [i \in B |-> n + i]
<1>1. C = A \cup above /\ A \cap above = {}
  <2>1. ASSUME NEW i \in A PROVE i \in C /\ ~ i > n
    BY <1>0
  <2>2. ASSUME NEW i \in C PROVE i \in A \/ i \in above
    <3>1. i \in 1..k /\ (i > n => i \in above)
      BY <1>0
    <3>2. i \in 1..n \/ i > n
      BY <1>0, <3>1
    <3> QED
      BY <1>0, <3>1, <3>2
  <2> QED
    BY <2>1, <2>2
<1>2. IsFiniteSet(A) /\ IsFiniteSet(B) /\ IsFiniteSet(above) /\ Cardinality(A) \in Nat /\ Cardinality(B) \in Nat
      /\ Cardinality(above) \in Nat
  <2>1. above \in SUBSET (1..k)
    BY <1>0
  <2> QED
    BY <1>0, <2>1, CountIsNat
<1>3. shift \in Bijection(B, above)
  <2>1. ASSUME NEW i \in B PROVE n + i \in above
    BY <1>0
  <2>2. shift \in [B -> above]
    BY <1>0, <2>1
  <2>3. ASSUME NEW i \in B, NEW j \in B, shift[i] = shift[j] PROVE i = j
    BY <1>0, <2>3
  <2>4. ASSUME NEW j \in above PROVE \E i \in B : shift[i] = j
    <3>1. j - n \in 1..m /\ n + (j - n) = j /\ j \in C
      BY <1>0
    <3>2. j - n \in B
      BY <1>0, <3>1
    <3> QED
      BY <3>1, <3>2
  <2> HIDE DEF shift, above
  <2> QED
    BY <2>2, <2>3, <2>4, Zenon DEF Bijection, Injection, Surjection, IsInjective
<1>4. Cardinality(above) = Cardinality(B)
  BY <1>2, <1>3, FS_Bijection DEF ExistsBijection
<1>5. Cardinality(A \cap above) = 0
  BY <1>1, FS_EmptySet
<1>6. Cardinality(C) = Cardinality(A) + Cardinality(above) - Cardinality(A \cap above)
  BY <1>1, <1>2, FS_Union, Zenon
<1> QED
  BY <1>2, <1>4, <1>5, <1>6

\* How many samples of a queue begin or end a contact.
LEMMA EdgesAreCounted ==
  ASSUME NEW es \in Seq(EntryType)
  PROVE  EdgesIn(es) \in Nat
<1>1. {i \in DOMAIN es : es[i].phase # "move"} \in SUBSET (1..Len(es)) /\ Len(es) \in Nat
  OBVIOUS
<1> QED
  BY <1>1, CountIsNat DEF EdgesIn

LEMMA QueueEntries ==
  ASSUME NEW q \in QueueType
  PROVE  q.entries \in Seq(EntryType) /\ Len(q.entries) \in Nat /\ EdgesIn(q.entries) \in Nat
<1>1. q.entries \in Seq(EntryType)
  BY DEF QueueType
<1> QED
  BY <1>1, EdgesAreCounted

LEMMA EdgesOfNothing == EdgesIn(<<>>) = 0
<1>1. {i \in DOMAIN <<>> : <<>>[i].phase # "move"} = {}
  OBVIOUS
<1> QED
  BY <1>1, FS_EmptySet DEF EdgesIn

IsEdge(e) == IF e.phase = "move" THEN 0 ELSE 1
LEMMA EdgesOfOne ==
  ASSUME NEW P \in SUBSET (1..1), NEW yes \in BOOLEAN, 1 \in P <=> yes
  PROVE  Cardinality(P) = IF yes THEN 1 ELSE 0
<1>1. 1..1 = {1}
  OBVIOUS
<1>2. P = {} \/ P = {1}
  BY <1>1, Zenon
<1>3. Cardinality({}) = 0 /\ Cardinality({1}) = 1
  BY FS_EmptySet, FS_Singleton
<1> QED
  BY <1>2, <1>3

\* gs is es followed by fs.
Joins(gs, es, fs, Type) ==
  /\ es \in Seq(Type) /\ fs \in Seq(Type) /\ gs \in Seq(Type)
  /\ Len(gs) = Len(es) + Len(fs) /\ \A i \in 1..Len(es) : gs[i] = es[i]
  /\ \A i \in 1..Len(fs) : gs[Len(es) + i] = fs[i]

LEMMA JoinsAppended ==
  ASSUME NEW Type, NEW es \in Seq(Type), NEW e \in Type
  PROVE  Joins(Append(es, e), es, <<e>>, Type)
  BY DEF Joins

LEMMA JoinsFirst ==
  ASSUME NEW Type, NEW es \in Seq(Type), es # <<>>
  PROVE  Joins(es, <<es[1]>>, Tail(es), Type)
<1>1. <<es[1]>> \in Seq(Type) /\ Len(<<es[1]>>) = 1 /\ Tail(es) \in Seq(Type) /\ es[1] \in Type
  OBVIOUS
<1>2. Len(es) = 1 + Len(Tail(es)) /\ \A i \in 1..Len(Tail(es)) : es[1 + i] = Tail(es)[i]
  OBVIOUS
<1> QED
  BY <1>1, <1>2 DEF Joins

LEMMA JoinsParts ==
  ASSUME NEW Type, NEW es \in Seq(Type), NEW n \in 0..Len(es)
  PROVE  Joins(es, SubSeq(es, 1, n), SubSeq(es, n + 1, Len(es)), Type)
<1> DEFINE a == SubSeq(es, 1, n)
           b == SubSeq(es, n + 1, Len(es))
<1>1. a \in Seq(Type) /\ Len(a) = n /\ \A i \in 1..n : es[i] = a[i]
  OBVIOUS
<1>2. b \in Seq(Type) /\ Len(b) = Len(es) - n /\ \A i \in 1..Len(es) - n : es[n + i] = b[i]
  OBVIOUS
<1> HIDE DEF a, b
<1>3. Joins(es, a, b, Type)
  BY <1>1, <1>2 DEF Joins
<1> QED
  BY <1>3 DEF a, b

LEMMA JoinsConcatenated ==
  ASSUME NEW Type, NEW es \in Seq(Type), NEW fs \in Seq(Type)
  PROVE  Joins(es \o fs, es, fs, Type)
  BY DEF Joins

LEMMA EdgesOfBoth ==
  ASSUME NEW es, NEW fs, NEW gs, Joins(gs, es, fs, EntryType)
  PROVE  EdgesIn(gs) = EdgesIn(es) + EdgesIn(fs) /\ EdgesIn(es) \in Nat /\ EdgesIn(fs) \in Nat
<1> DEFINE A == {i \in DOMAIN es : es[i].phase # "move"}
           B == {i \in DOMAIN fs : fs[i].phase # "move"}
           C == {i \in DOMAIN gs : gs[i].phase # "move"}
<1>1. Splits(C, A, Len(es), B, Len(fs))
  <2>1. Len(es) \in Nat /\ Len(fs) \in Nat /\ A \subseteq 1..Len(es) /\ B \subseteq 1..Len(fs)
        /\ C \subseteq 1..(Len(es) + Len(fs))
    BY DEF Joins
  <2>2. \A i \in 1..Len(es) : i \in C <=> i \in A
    BY DEF Joins
  <2>3. \A i \in 1..Len(fs) : Len(es) + i \in C <=> i \in B
    BY DEF Joins
  <2> HIDE DEF A, B, C
  <2> QED
    BY <2>1, <2>2, <2>3 DEF Splits
<1> HIDE DEF A, B, C
<1>2. Cardinality(C) = Cardinality(A) + Cardinality(B) /\ Cardinality(A) \in Nat /\ Cardinality(B) \in Nat
  BY <1>1, CountsAdd
<1> QED
  BY <1>2 DEF A, B, C, EdgesIn

LEMMA EdgesOfSample ==
  ASSUME NEW e \in EntryType
  PROVE  EdgesIn(<<e>>) = IsEdge(e)
<1> DEFINE P == {i \in DOMAIN <<e>> : <<e>>[i].phase # "move"}
<1>1. P \in SUBSET (1..1) /\ (1 \in P <=> e.phase # "move")
  OBVIOUS
<1> HIDE DEF P
<1>2. Cardinality(P) = IF e.phase # "move" THEN 1 ELSE 0
  BY <1>1, EdgesOfOne
<1> QED
  BY <1>2 DEF P, EdgesIn, IsEdge

LEMMA EdgesAppended ==
  ASSUME NEW es \in Seq(EntryType), NEW e \in EntryType
  PROVE  EdgesIn(Append(es, e)) = EdgesIn(es) + IsEdge(e)
<1>1. Joins(Append(es, e), es, <<e>>, EntryType)
  BY JoinsAppended
<1> QED
  BY <1>1, EdgesOfBoth, EdgesOfSample

LEMMA EdgesOfFirst ==
  ASSUME NEW es \in Seq(EntryType), es # <<>>
  PROVE  EdgesIn(es) = IsEdge(es[1]) + EdgesIn(Tail(es))
<1>1. Joins(es, <<es[1]>>, Tail(es), EntryType) /\ es[1] \in EntryType
  BY JoinsFirst
<1> QED
  BY <1>1, EdgesOfBoth, EdgesOfSample

LEMMA EdgesOfParts ==
  ASSUME NEW es \in Seq(EntryType), NEW n \in 0..Len(es)
  PROVE  EdgesIn(es) = EdgesIn(SubSeq(es, 1, n)) + EdgesIn(SubSeq(es, n + 1, Len(es)))
<1>1. Joins(es, SubSeq(es, 1, n), SubSeq(es, n + 1, Len(es)), EntryType)
  BY JoinsParts
<1> QED
  BY <1>1, EdgesOfBoth

\* How many events begin or end a contact.
IsContact(event) == IF event.kind = "contact" THEN 1 ELSE 0
LEMMA ContactsOfBoth ==
  ASSUME NEW es, NEW fs, NEW gs, Joins(gs, es, fs, EventType)
  PROVE  ContactsIn(gs) = ContactsIn(es) + ContactsIn(fs) /\ ContactsIn(es) \in Nat /\ ContactsIn(fs) \in Nat
<1> DEFINE A == {i \in DOMAIN es : es[i].kind = "contact"}
           B == {i \in DOMAIN fs : fs[i].kind = "contact"}
           C == {i \in DOMAIN gs : gs[i].kind = "contact"}
<1>1. Splits(C, A, Len(es), B, Len(fs))
  <2>1. Len(es) \in Nat /\ Len(fs) \in Nat /\ A \subseteq 1..Len(es) /\ B \subseteq 1..Len(fs)
        /\ C \subseteq 1..(Len(es) + Len(fs))
    BY DEF Joins
  <2>2. \A i \in 1..Len(es) : i \in C <=> i \in A
    BY DEF Joins
  <2>3. \A i \in 1..Len(fs) : Len(es) + i \in C <=> i \in B
    BY DEF Joins
  <2> HIDE DEF A, B, C
  <2> QED
    BY <2>1, <2>2, <2>3 DEF Splits
<1> HIDE DEF A, B, C
<1>2. Cardinality(C) = Cardinality(A) + Cardinality(B) /\ Cardinality(A) \in Nat /\ Cardinality(B) \in Nat
  BY <1>1, CountsAdd
<1> QED
  BY <1>2 DEF A, B, C, ContactsIn

LEMMA ContactsOfEvent ==
  ASSUME NEW e \in EventType
  PROVE  ContactsIn(<<e>>) = IsContact(e)
<1> DEFINE P == {i \in DOMAIN <<e>> : <<e>>[i].kind = "contact"}
<1>1. P \in SUBSET (1..1) /\ (1 \in P <=> e.kind = "contact")
  OBVIOUS
<1> HIDE DEF P
<1>2. Cardinality(P) = IF e.kind = "contact" THEN 1 ELSE 0
  BY <1>1, EdgesOfOne
<1> QED
  BY <1>2 DEF P, ContactsIn, IsContact

LEMMA ContactsOfNothing == ContactsIn(<<>>) = 0
<1>1. {i \in DOMAIN <<>> : <<>>[i].kind = "contact"} = {}
  OBVIOUS
<1> QED
  BY <1>1, FS_EmptySet DEF ContactsIn

LEMMA ContactsAppended ==
  ASSUME NEW es \in Seq(EventType), NEW e \in EventType
  PROVE  ContactsIn(Append(es, e)) = ContactsIn(es) + IsContact(e) /\ ContactsIn(es) \in Nat
<1>1. Joins(Append(es, e), es, <<e>>, EventType)
  BY JoinsAppended
<1> QED
  BY <1>1, ContactsOfBoth, ContactsOfEvent

LEMMA ContactsOfFirst ==
  ASSUME NEW es \in Seq(EventType), es # <<>>
  PROVE  ContactsIn(es) = IsContact(es[1]) + ContactsIn(Tail(es)) /\ ContactsIn(Tail(es)) \in Nat
<1>1. Joins(es, <<es[1]>>, Tail(es), EventType) /\ es[1] \in EventType
  BY JoinsFirst
<1> QED
  BY <1>1, ContactsOfBoth, ContactsOfEvent

LEMMA ContactsAreCounted ==
  ASSUME NEW es \in Seq(EventType)
  PROVE  ContactsIn(es) \in Nat
<1>1. {i \in DOMAIN es : es[i].kind = "contact"} \in SUBSET (1..Len(es)) /\ Len(es) \in Nat
  OBVIOUS
<1> QED
  BY <1>1, CountIsNat DEF ContactsIn

-----------------------------------------------------------------------------
(* A queue whose samples are a gesture.                                    *)

Releases == {"up", "cancel"}

\* Where the finger is after a sample, NoPoint when it is lifted; and after the
\* first i samples of es.
After(e) == IF IsDown(e.phase) THEN e.point ELSE NoPoint
At(s, es, i) == IF i = 0 THEN s ELSE After(es[i])

\* A press begins a contact; motion and a release are part of one, and a release
\* is at the point of the sample before it.
Fits(s, e) == (e.phase = "down" <=> s = NoPoint) /\ (e.phase \in Releases => e.point = s)

\* The samples take the finger from s to t, and nothing evicts the one before a
\* release.
Chain(s, es, t) ==
  /\ \A i \in 1..Len(es) :
        /\ Fits(At(s, es, i - 1), es[i])
        /\ i > 1 /\ es[i].phase \in Releases => ~Evictable(es[i - 1])
  /\ t = At(s, es, Len(es))

\* What makeRoom and the compaction drop: motion that no release follows.
Droppable(es, gone) ==
  /\ gone \in SUBSET (1..Len(es))
  /\ \A i \in gone : es[i].phase = "move" /\ (i < Len(es) => es[i + 1].phase \notin Releases)

\* The samples ws are those of es that are not gone, at the places f.
Keeps(ws, es, gone, f) ==
  /\ ws \in Seq(EntryType) /\ Len(ws) = Len(es) - Cardinality(gone)
  /\ f \in [1..Len(ws) -> (1..Len(es)) \ gone]
  /\ \A i \in 1..Len(ws) : ws[i] = es[f[i]]
  /\ \A i \in 1..Len(ws), j \in 1..Len(ws) : i < j => f[i] < f[j]
  /\ \A k \in (1..Len(es)) \ gone : \E i \in 1..Len(ws) : f[i] = k

LEMMA WithoutKeeps ==
  ASSUME NEW es \in Seq(EntryType), NEW gone \in SUBSET (1..Len(es))
  PROVE  \E f : Keeps(Without(es, gone), es, gone, f)
<1> DEFINE n == Len(es)
           kept == DOMAIN es \ gone
           m == Cardinality(kept)
           upTo(j) == {k \in kept : k <= j}
           rank == [j \in kept |-> Cardinality(upTo(j))]
           place(i) == CHOOSE j \in kept : Cardinality(upTo(j)) = i
           f == [i \in 1..m |-> place(i)]
           ws == Without(es, gone)
<1>1. n \in Nat /\ kept = (1..n) \ gone /\ kept \in SUBSET (1..n)
  OBVIOUS
<1>2. IsFiniteSet(kept) /\ IsFiniteSet(gone) /\ m \in Nat /\ m = n - Cardinality(gone) /\ Cardinality(gone) \in Nat
  <2>1. IsFiniteSet(1..n) /\ Cardinality(1..n) = n
    BY <1>1, PlacesCounted
  <2>2. IsFiniteSet(gone) /\ IsFiniteSet(kept) /\ Cardinality(gone) \in Nat /\ m \in Nat
    BY <1>1, CountIsNat
  <2>3. (1..n) \cap gone = gone /\ kept = (1..n) \ gone
    BY <1>1
  <2>4. Cardinality((1..n) \ gone) = Cardinality(1..n) - Cardinality((1..n) \cap gone)
    BY <2>1, <2>2, FS_Difference
  <2> HIDE DEF n, kept, m
  <2>5. Cardinality((1..n) \ gone) = n - Cardinality(gone)
    BY <2>1, <2>3, <2>4
  <2> QED
    BY <2>2, <2>3, <2>5 DEF m
<1>3. ASSUME NEW j \in kept PROVE upTo(j) \in SUBSET kept /\ j \in upTo(j) /\ j \in Nat
  OBVIOUS
<1>4. ASSUME NEW j \in kept PROVE IsFiniteSet(upTo(j)) /\ Cardinality(upTo(j)) \in 1..m
  <2>1. upTo(j) \in SUBSET kept /\ j \in upTo(j)
    BY <1>3
  <2> HIDE DEF upTo, kept
  <2>2. IsFiniteSet(upTo(j)) /\ Cardinality(upTo(j)) <= Cardinality(kept)
    BY <1>2, <2>1, FS_Subset
  <2>3. Cardinality(upTo(j)) \in Nat /\ Cardinality(upTo(j)) # 0
    BY <2>1, <2>2, FS_CardinalityType, FS_EmptySet
  <2> QED
    BY <1>2, <2>2, <2>3
<1>5. ASSUME NEW i \in kept, NEW j \in kept, i < j PROVE Cardinality(upTo(i)) < Cardinality(upTo(j))
  <2>1. upTo(i) \in SUBSET upTo(j) /\ j \notin upTo(i) /\ j \in upTo(j)
    BY <1>3, <1>5
  <2>2. IsFiniteSet(upTo(j)) /\ Cardinality(upTo(i)) \in 1..m /\ Cardinality(upTo(j)) \in 1..m
    BY <1>4
  <2> HIDE DEF upTo
  <2>3. Cardinality(upTo(i)) <= Cardinality(upTo(j)) /\ Cardinality(upTo(i)) # Cardinality(upTo(j))
    BY <2>1, <2>2, FS_Subset
  <2> HIDE DEF m
  <2> QED
    BY <1>2, <2>2, <2>3
<1>6. \A i \in 1..m : \E j \in kept : Cardinality(upTo(j)) = i
  <2>1. rank \in [kept -> 1..m] /\ \A j \in kept : rank[j] = Cardinality(upTo(j))
    BY <1>4
  <2>2. ASSUME NEW i \in kept, NEW j \in kept, i # j PROVE rank[i] # rank[j]
    <3>1. i \in Nat /\ j \in Nat
      BY <1>3
    <3> HIDE DEF rank, kept, m
    <3>2. rank[i] \in Int /\ rank[j] \in Int
      BY <1>2, <2>1
    <3>3. i < j \/ j < i
      BY <2>2, <3>1
    <3>4. i < j => rank[i] < rank[j]
      BY <1>5, <2>1
    <3>5. j < i => rank[j] < rank[i]
      BY <1>5, <2>1
    <3> QED
      BY <3>2, <3>3, <3>4, <3>5
  <2>3. IsFiniteSet(1..m) /\ Cardinality(1..m) = Cardinality(kept)
    <3> HIDE DEF kept
    <3> QED
      BY <1>2, FS_Interval
  <2> HIDE DEF rank, kept, m, upTo
  <2>4. rank \in Injection(kept, 1..m)
    BY <2>1, <2>2, Zenon DEF Injection, IsInjective
  <2>5. rank \in Surjection(kept, 1..m)
    BY <2>3, <2>4, FS_Injection
  <2> QED
    BY <2>1, <2>5, Zenon DEF Surjection
<1>7. \A i \in 1..m : f[i] \in kept /\ Cardinality(upTo(f[i])) = i
  <2> HIDE DEF kept, upTo, m
  <2>1. ASSUME NEW i \in 1..m PROVE place(i) \in kept /\ Cardinality(upTo(place(i))) = i
    BY <1>6, Zenon
  <2> HIDE DEF place
  <2> QED
    BY <2>1
<1>8. ws = [i \in 1..m |-> es[f[i]]]
  <2>1. ws = [i \in 1..m |-> es[place(i)]]
    BY Zenon DEF Without
  <2> HIDE DEF ws, place, m
  <2> QED
    BY <2>1
<1>9. ws \in Seq(EntryType) /\ Len(ws) = m /\ \A i \in 1..m : ws[i] = es[f[i]]
  <2> HIDE DEF f, upTo
  <2>1. \A i \in 1..m : es[f[i]] \in EntryType
    BY <1>7
  <2> HIDE DEF ws, f, m
  <2> QED
    BY <1>2, <1>8, <2>1
<1>10. ASSUME NEW i \in 1..m, NEW j \in 1..m, i < j PROVE f[i] < f[j]
  <2>1. f[i] \in kept /\ f[j] \in kept /\ Cardinality(upTo(f[i])) = i /\ Cardinality(upTo(f[j])) = j
    BY <1>7
  <2>2. f[i] \in Nat /\ f[j] \in Nat
    BY <1>3, <2>1
  <2> HIDE DEF f, kept, upTo
  <2>3. f[j] < f[i] => j < i
    BY <1>5, <2>1
  <2>4. f[i] # f[j]
    BY <1>10, <2>1
  <2> QED
    BY <1>2, <1>10, <2>2, <2>3, <2>4
<1>11. ASSUME NEW k \in kept PROVE \E i \in 1..m : f[i] = k
  <2> DEFINE i == Cardinality(upTo(k))
  <2>1. i \in 1..m
    BY <1>4
  <2>2. f[i] \in kept /\ Cardinality(upTo(f[i])) = i
    BY <1>7, <2>1
  <2>3. k \in Nat /\ f[i] \in Nat
    BY <1>3, <2>2
  <2> HIDE DEF f, kept, upTo
  <2>4. f[i] < k => Cardinality(upTo(f[i])) < i
    BY <1>5, <2>2
  <2>5. k < f[i] => i < Cardinality(upTo(f[i]))
    BY <1>5, <2>2
  <2>6. i \in Int
    BY <1>2, <2>1
  <2> HIDE DEF i
  <2>7. f[i] = k
    BY <2>2, <2>3, <2>4, <2>5, <2>6
  <2> QED
    BY <2>1, <2>7
<1>12. f \in [1..m -> kept]
  <2> HIDE DEF kept, upTo
  <2> QED
    BY <1>7
<1> HIDE DEF f, ws, m
<1>13. Keeps(ws, es, gone, f)
  BY <1>1, <1>2, <1>9, <1>10, <1>11, <1>12 DEF Keeps
<1> QED
  BY <1>13 DEF ws


\* Motion that is dropped is no press and no release.
LEMMA KeptEdges ==
  ASSUME NEW es \in Seq(EntryType), NEW gone, Droppable(es, gone), NEW ws, NEW f, Keeps(ws, es, gone, f)
  PROVE  EdgesIn(ws) = EdgesIn(es)
<1> DEFINE A == {i \in DOMAIN ws : ws[i].phase # "move"}
           B == {i \in DOMAIN es : es[i].phase # "move"}
           g == [i \in A |-> f[i]]
<1>1. /\ ws \in Seq(EntryType) /\ f \in [1..Len(ws) -> (1..Len(es)) \ gone]
      /\ \A i \in 1..Len(ws) : ws[i] = es[f[i]]
      /\ \A i \in 1..Len(ws), j \in 1..Len(ws) : i < j => f[i] < f[j]
      /\ \A k \in (1..Len(es)) \ gone : \E i \in 1..Len(ws) : f[i] = k
      /\ \A i \in gone : es[i].phase = "move"
  BY DEF Keeps, Droppable
<1>2. DOMAIN ws = 1..Len(ws) /\ DOMAIN es = 1..Len(es) /\ Len(ws) \in Nat /\ Len(es) \in Nat
  BY <1>1
<1>3. g \in [A -> B]
  BY <1>1, <1>2
<1>4. ASSUME NEW i \in A, NEW j \in A, g[i] = g[j] PROVE i = j
  <2>1. i \in 1..Len(ws) /\ j \in 1..Len(ws) /\ f[i] = f[j] /\ i \in Nat /\ j \in Nat /\ f[i] \in Nat
    BY <1>1, <1>2, <1>4
  <2> QED
    BY <1>1, <2>1
<1>5. ASSUME NEW k \in B PROVE \E i \in A : g[i] = k
  <2>1. k \in (1..Len(es)) \ gone
    BY <1>1, <1>2
  <2>2. PICK i \in 1..Len(ws) : f[i] = k
    BY <1>1, <2>1
  <2>3. i \in A
    BY <1>1, <1>2, <2>2
  <2> QED
    BY <2>2, <2>3
<1>6. A \in SUBSET (1..Len(ws))
  BY <1>2
<1> HIDE DEF A, B, g
<1>7. g \in Bijection(A, B)
  BY <1>3, <1>4, <1>5, Zenon DEF Bijection, Injection, Surjection, IsInjective
<1>8. IsFiniteSet(A)
  BY <1>2, <1>6, CountIsNat
<1>9. Cardinality(B) = Cardinality(A)
  BY <1>7, <1>8, FS_Bijection DEF ExistsBijection
<1> QED
  BY <1>9 DEF A, B, EdgesIn

\* The place before the one of sample i.
Before(f, i) == IF i = 1 THEN 0 ELSE f[i - 1]

\* Without motion that no release follows, the samples still are a gesture.
LEMMA KeptChain ==
  ASSUME NEW es \in Seq(EntryType), NEW gone, Droppable(es, gone), NEW ws, NEW f, Keeps(ws, es, gone, f),
         NEW s \in Nat, NEW t \in Nat, Chain(s, es, t)
  PROVE  \E u \in Nat : /\ Chain(s, ws, u) /\ (u = NoPoint <=> t = NoPoint)
                        /\ Len(es) \notin gone => u = t
<1> DEFINE n == Len(es)
           m == Len(ws)
<1>1. /\ ws \in Seq(EntryType) /\ f \in [1..m -> (1..n) \ gone]
      /\ \A i \in 1..m : ws[i] = es[f[i]]
      /\ \A i \in 1..m, j \in 1..m : i < j => f[i] < f[j]
      /\ \A k \in (1..n) \ gone : \E i \in 1..m : f[i] = k
  BY DEF Keeps
<1>2. /\ gone \in SUBSET (1..n)
      /\ \A i \in gone : es[i].phase = "move" /\ (i < n => es[i + 1].phase \notin Releases)
  BY DEF Droppable
<1>3. /\ \A i \in 1..n : Fits(At(s, es, i - 1), es[i])
      /\ \A i \in 1..n : i > 1 /\ es[i].phase \in Releases => ~Evictable(es[i - 1])
      /\ t = At(s, es, n)
  BY DEF Chain
<1>4. n \in Nat /\ m \in Nat
  BY <1>1
<1>5. \A i \in 1..n : es[i] \in EntryType
  OBVIOUS
<1> HIDE DEF n, m
<1>6. \A i \in 1..m : f[i] \in 1..n /\ f[i] \notin gone /\ f[i] \in Nat
  BY <1>1, <1>4
<1>7. \A i \in 0..n : At(s, es, i) \in Nat
  BY <1>5 DEF At, After, EntryType, NoPoint
\* Between two samples that are kept everything is gone.
<1>8. ASSUME NEW k \in 1..n, NEW i \in 1..m, Before(f, i) < k, k < f[i]
      PROVE  k \in gone
  <2>1. SUFFICES ASSUME k \notin gone PROVE FALSE
    OBVIOUS
  <2>2. PICK j \in 1..m : f[j] = k
    BY <1>1, <2>1
  <2>3. i \in Nat /\ j \in Nat /\ j < i
    <3>1. i \in Nat /\ j \in Nat
      BY <1>4
    <3>2. f[i] \in Nat /\ f[j] \in Nat /\ (i < j => f[i] < f[j]) /\ (i = j => f[i] = f[j])
      BY <1>1, <1>6
    <3> QED
      BY <1>8, <2>2, <3>1, <3>2
  <2>4. i # 1 /\ i - 1 \in 1..m /\ j <= i - 1
    BY <1>4, <2>3
  <2>5. f[j] <= f[i - 1]
    <3>1. j < i - 1 \/ j = i - 1
      BY <2>3, <2>4
    <3> QED
      BY <1>1, <1>6, <2>4, <3>1
  <2> QED
    BY <1>6, <1>8, <2>2, <2>4, <2>5 DEF Before
\* The last of them that is gone is motion: the next sample fits either way.
<1>9. ASSUME NEW p \in 0..n, NEW j \in 1..n, p < j - 1, \A k \in 1..n : p < k /\ k < j => k \in gone
      PROVE  /\ At(s, es, p) # NoPoint /\ At(s, es, j - 1) # NoPoint
             /\ es[j].phase \notin Releases
  <2>1. p + 1 \in 1..n /\ j - 1 \in 1..n /\ p + 1 \in gone /\ j - 1 \in gone /\ (j - 1) + 1 = j /\ (p + 1) - 1 = p
    BY <1>4, <1>9
  <2>2. Fits(At(s, es, p), es[p + 1]) /\ es[p + 1].phase = "move"
    BY <1>2, <1>3, <2>1
  <2>3. es[j - 1].phase = "move" /\ es[j].phase \notin Releases /\ es[j - 1] \in EntryType
    BY <1>2, <1>4, <1>5, <1>9, <2>1
  <2>4. At(s, es, j - 1) = es[j - 1].point /\ es[j - 1].point # NoPoint
    BY <1>4, <2>1, <2>3 DEF At, After, IsDown, EntryType
  <2> QED
    BY <2>2, <2>3, <2>4 DEF Fits
<1>10. \A i \in 1..m : Before(f, i) \in 0..n /\ Before(f, i) < f[i] /\ At(s, ws, i - 1) = At(s, es, Before(f, i))
  <2> TAKE i \in 1..m
  <2>1. CASE i = 1
    BY <1>4, <1>6, <2>1 DEF Before, At
  <2>2. CASE i # 1
    <3>1. i - 1 \in 1..m /\ i - 1 < i
      BY <1>4, <2>2
    <3>2. f[i - 1] \in 1..n /\ f[i - 1] < f[i] /\ ws[i - 1] = es[f[i - 1]] /\ f[i - 1] # 0
      BY <1>1, <1>4, <1>6, <3>1
    <3>3. Before(f, i) = f[i - 1] /\ i - 1 # 0
      BY <1>4, <2>2 DEF Before
    <3>4. f[i - 1] \in 0..n
      BY <1>4, <3>2
    <3> QED
      BY <3>2, <3>3, <3>4 DEF At
  <2> QED
    BY <2>1, <2>2
<1>11. ASSUME NEW i \in 1..m
       PROVE  Fits(At(s, ws, i - 1), ws[i]) /\ (i > 1 /\ ws[i].phase \in Releases => ~Evictable(ws[i - 1]))
  <2> DEFINE p == Before(f, i)
  <2>1. /\ p \in 0..n /\ p < f[i] /\ At(s, ws, i - 1) = At(s, es, p) /\ ws[i] = es[f[i]] /\ f[i] \in 1..n
        /\ Fits(At(s, es, f[i] - 1), es[f[i]]) /\ ws[i] \in EntryType
    BY <1>1, <1>3, <1>5, <1>6, <1>10
  <2>2. CASE p = f[i] - 1
    <3>1. Fits(At(s, ws, i - 1), ws[i])
      BY <2>1, <2>2
    <3>2. ASSUME i > 1, ws[i].phase \in Releases PROVE ~Evictable(ws[i - 1])
      <4>1. i - 1 \in 1..m /\ p = f[i - 1]
        BY <1>4, <3>2 DEF Before
      <4>2. ws[i - 1] = es[p] /\ p \in 1..n
        BY <1>1, <1>6, <4>1
      <4>3. f[i] > 1 /\ p = f[i] - 1
        BY <1>4, <2>1, <2>2, <4>2
      <4> QED
        BY <1>3, <2>1, <3>2, <4>2, <4>3
    <3> QED
      BY <3>1, <3>2
  <2>3. CASE p # f[i] - 1
    <3>1. p < f[i] - 1
      BY <1>4, <2>1, <2>3
    <3>2. \A k \in 1..n : p < k /\ k < f[i] => k \in gone
      BY <1>8
    <3> HIDE DEF p
    <3>3. At(s, es, p) # NoPoint /\ At(s, es, f[i] - 1) # NoPoint /\ es[f[i]].phase \notin Releases
      BY <1>9, <2>1, <3>1, <3>2
    <3> QED
      BY <2>1, <3>3 DEF Fits
  <2> QED
    BY <2>2, <2>3
<1>12. At(s, ws, m) \in Nat /\ Chain(s, ws, At(s, ws, m))
  <2>1. At(s, ws, m) \in Nat
    <3>1. m # 0 => ws[m] \in EntryType
      BY <1>1, <1>4 DEF m
    <3> QED
      BY <3>1 DEF At, After, EntryType, NoPoint
  <2> QED
    BY <1>11, <2>1 DEF Chain, m
<1>13. (At(s, ws, m) = NoPoint <=> t = NoPoint) /\ (n \notin gone => At(s, ws, m) = t)
  <2> DEFINE p == IF m = 0 THEN 0 ELSE f[m]
  <2>1. p \in 0..n /\ At(s, ws, m) = At(s, es, p)
    <3>1. m # 0 => m \in 1..m /\ f[m] \in 1..n /\ ws[m] = es[f[m]]
      BY <1>1, <1>4, <1>6
    <3> QED
      BY <1>4, <3>1 DEF At
  <2>2. ASSUME NEW k \in 1..n, p < k PROVE k \in gone
    <3>1. SUFFICES ASSUME k \notin gone PROVE FALSE
      OBVIOUS
    <3>2. PICK j \in 1..m : f[j] = k
      BY <1>1, <3>1
    <3>3. m # 0 /\ m \in 1..m /\ (j < m \/ j = m)
      BY <1>4
    <3>4. f[j] <= f[m]
      BY <1>1, <1>6, <3>3
    <3> QED
      BY <1>6, <2>2, <3>2, <3>3, <3>4
  <2> HIDE DEF p
  <2>3. CASE p = n
    BY <1>3, <1>4, <2>1, <2>3, <1>1, <1>6, <1>2
  <2>4. CASE p # n
    <3>1. p + 1 \in 1..n /\ p + 1 \in gone /\ n \in 1..n /\ n \in gone /\ (p + 1) - 1 = p
      BY <1>4, <2>1, <2>2, <2>4
    <3>2. At(s, es, p) # NoPoint
      BY <1>2, <1>3, <3>1 DEF Fits
    <3>3. es[n].phase = "move" /\ es[n] \in EntryType /\ n # 0
      BY <1>2, <1>4, <1>5, <3>1
    <3>4. t # NoPoint
      BY <1>3, <3>3 DEF At, After, IsDown, EntryType
    <3> QED
      BY <2>1, <3>1, <3>2, <3>4
  <2> QED
    BY <2>3, <2>4
<1> QED
  BY <1>12, <1>13 DEF n

-----------------------------------------------------------------------------
(* What the operations of a queue do to a gesture.                         *)

QueueWithin(q, c, l) ==
  /\ q.capacity = c /\ q.limit = l
  /\ q.active <=> q.lastPoint # NoPoint
  /\ Len(q.entries) <= c - IF q.active THEN 2 ELSE 0

\* A queue that goes on with a gesture at s.
GestureQueue(q, s, c, l) ==
  /\ q \in QueueType /\ QueueWithin(q, c, l)
  /\ Chain(s, q.entries, q.lastPoint)

SameButSamples(r, q) ==
  /\ r.capacity = q.capacity /\ r.limit = q.limit /\ r.active = q.active
  /\ r.rejectingContact = q.rejectingContact /\ r.lastPoint = q.lastPoint
  /\ r.rejectedGestureCount = q.rejectedGestureCount

LEMMA DroppedMotion ==
  ASSUME NEW es \in Seq(EntryType), NEW gone, Droppable(es, gone), NEW s \in Nat, NEW t \in Nat, Chain(s, es, t),
         NEW ws, ws = Without(es, gone)
  PROVE  /\ ws \in Seq(EntryType) /\ Cardinality(gone) \in Nat /\ Len(ws) = Len(es) - Cardinality(gone)
         /\ EdgesIn(ws) = EdgesIn(es)
         /\ \E u \in Nat : /\ Chain(s, ws, u) /\ (u = NoPoint <=> t = NoPoint)
                           /\ Len(es) \notin gone => u = t
<1>1. gone \in SUBSET (1..Len(es)) /\ Len(es) \in Nat
  BY DEF Droppable
<1>2. PICK f : Keeps(ws, es, gone, f)
  BY <1>1, WithoutKeeps
<1>3. EdgesIn(ws) = EdgesIn(es)
  BY <1>2, KeptEdges
<1>4. \E u \in Nat : /\ Chain(s, ws, u) /\ (u = NoPoint <=> t = NoPoint)
                     /\ Len(es) \notin gone => u = t
  BY <1>2, KeptChain
<1>5. Cardinality(gone) \in Nat
  BY <1>1, CountIsNat
<1> QED
  BY <1>2, <1>3, <1>4, <1>5 DEF Keeps

Resampled(q, ws, n) == [q EXCEPT !.entries = ws, !.discardedMotionCount = n]
LEMMA OtherSamples ==
  ASSUME NEW q \in QueueType, NEW ws \in Seq(EntryType), NEW n \in Nat
  PROVE  /\ Resampled(q, ws, n) \in QueueType /\ SameButSamples(Resampled(q, ws, n), q)
         /\ Resampled(q, ws, n).entries = ws /\ Resampled(q, ws, n).discardedMotionCount = n
<1> DEFINE r == [q EXCEPT !.entries = ws, !.discardedMotionCount = n]
<1>1. r \in QueueType
  BY DEF QueueType
<1>2. SameButSamples(r, q) /\ r.entries = ws /\ r.discardedMotionCount = n
  BY DEF QueueType, SameButSamples
<1>3. Resampled(q, ws, n) = r
  BY DEF Resampled
<1> HIDE DEF r
<1> QED
  BY <1>1, <1>2, <1>3

\* makeRoom drops motion, and nothing while there is room.
RoomMade(r, q, room, s, t) ==
  /\ r \in QueueType /\ SameButSamples(r, q) /\ Len(r.entries) <= Len(q.entries)
  /\ EdgesIn(r.entries) = EdgesIn(q.entries)
  /\ Len(q.entries) <= room => /\ r.discardedMotionCount = q.discardedMotionCount
                               /\ Len(r.entries) = Len(q.entries)
  /\ \E u \in Nat : /\ Chain(s, r.entries, u) /\ (u = NoPoint <=> t = NoPoint)
                    /\ Len(r.entries) = Len(q.entries) => u = t
LEMMA MakeRoomKeeps ==
  ASSUME NEW q \in QueueType, NEW room \in Int, NEW s \in Nat, NEW t \in Nat, Chain(s, q.entries, t)
  PROVE  RoomMade(MakeRoom(q, room), q, room, s, t)
<1> DEFINE es == q.entries
           evictable == {i \in DOMAIN es : Evictable(es[i])}
           gone == {i \in evictable : Cardinality({j \in evictable : j < i}) < Len(es) - room}
           ws == Without(es, gone)
           r == MakeRoom(q, room)
<1>1. es \in Seq(EntryType) /\ Len(es) \in Nat /\ q.discardedMotionCount \in Nat
  BY DEF QueueType
<1>2. r = [q EXCEPT !.entries = ws, !.discardedMotionCount = @ + Cardinality(gone)]
  BY Zenon DEF MakeRoom
<1> HIDE DEF r
<1>3. \A i \in gone : i \in 1..Len(es) /\ Evictable(es[i])
  BY <1>1
<1>4. \A i \in evictable : {j \in evictable : j < i} \in SUBSET (1..Len(es))
  BY <1>1
<1>5. Len(es) <= room => gone = {}
  <2>1. \A i \in evictable : Cardinality({j \in evictable : j < i}) \in Nat
    BY <1>1, <1>4, CountIsNat
  <2> HIDE DEF evictable
  <2> QED
    BY <1>1, <2>1
<1> HIDE DEF gone, evictable
<1>6. Droppable(es, gone)
  <2>1. gone \in SUBSET (1..Len(es))
    BY <1>3
  <2>2. ASSUME NEW i \in gone PROVE es[i].phase = "move" /\ (i < Len(es) => es[i + 1].phase \notin Releases)
    <3>1. i \in 1..Len(es) /\ Evictable(es[i])
      BY <1>3
    <3>2. ASSUME i < Len(es) PROVE es[i + 1].phase \notin Releases
      <4>1. i + 1 \in 1..Len(es) /\ i + 1 > 1 /\ (i + 1) - 1 = i
        BY <1>1, <3>1, <3>2
      <4> QED
        BY <3>1, <4>1 DEF Chain
    <3> QED
      BY <3>1, <3>2 DEF Evictable
  <2> QED
    BY <2>1, <2>2 DEF Droppable
<1>7. /\ ws \in Seq(EntryType) /\ Cardinality(gone) \in Nat /\ Len(ws) = Len(es) - Cardinality(gone)
      /\ EdgesIn(ws) = EdgesIn(es)
      /\ \E u \in Nat : Chain(s, ws, u) /\ (u = NoPoint <=> t = NoPoint) /\ (Len(es) \notin gone => u = t)
  BY <1>1, <1>6, DroppedMotion
<1>8. (gone = {} => Cardinality(gone) = 0) /\ (Cardinality(gone) = 0 => gone = {})
  <2>1. IsFiniteSet(gone)
    BY <1>1, <1>6, CountIsNat DEF Droppable
  <2> QED
    BY <2>1, FS_EmptySet
<1> HIDE DEF ws
<1>9. /\ r \in QueueType /\ SameButSamples(r, q) /\ r.entries = ws
      /\ r.discardedMotionCount = q.discardedMotionCount + Cardinality(gone)
  <2> DEFINE k == q.discardedMotionCount + Cardinality(gone)
  <2>1. r = Resampled(q, ws, k)
    BY <1>2 DEF Resampled
  <2>2. k \in Nat /\ ws \in Seq(EntryType)
    BY <1>1, <1>7
  <2> HIDE DEF k
  <2>3. r \in QueueType /\ SameButSamples(r, q) /\ r.entries = ws /\ r.discardedMotionCount = k
    BY <2>1, <2>2, OtherSamples
  <2> QED
    BY <2>3 DEF k
<1>10. Len(ws) = Len(es) => Len(es) \notin gone
  BY <1>1, <1>7, <1>8
<1> HIDE DEF es
<1>11. Len(es) <= room => r.discardedMotionCount = q.discardedMotionCount /\ Len(ws) = Len(es)
  BY <1>1, <1>5, <1>7, <1>8, <1>9
<1>12. Len(ws) <= Len(es)
  BY <1>1, <1>7
<1> QED
  <2>1. RoomMade(r, q, room, s, t)
    BY <1>7, <1>9, <1>10, <1>11, <1>12 DEF es, RoomMade
  <2> QED
    BY <2>1 DEF r

\* The last of a set of places.
LEMMA LastIsMember ==
  ASSUME NEW n \in Nat, NEW S \in SUBSET (1..n), S # {}
  PROVE  Max(S) \in S /\ \A i \in S : i <= Max(S)
<1>1. \E i \in S : \A j \in S : j <= i
  <2> DEFINE T == {n - i : i \in S}
  <2>1. T \in SUBSET Nat /\ T # {}
    <3>1. \A i \in S : n - i \in Nat
      OBVIOUS
    <3>2. T \in SUBSET Nat
      BY <3>1
    <3>3. \A i \in S : n - i \in T
      OBVIOUS
    <3>4. \E i : i \in S
      OBVIOUS
    <3> HIDE DEF T
    <3>5. T # {}
      BY <3>3, <3>4
    <3> QED
      BY <3>2, <3>5
  <2>2. PICK k \in T : \A j \in T : k <= j
    BY <2>1, LowestIsMember
  <2>3. PICK i \in S : k = n - i
    OBVIOUS
  <2>4. \A j \in S : n - j \in T
    OBVIOUS
  <2> HIDE DEF T
  <2>5. \A j \in S : j <= i
    BY <2>2, <2>3, <2>4
  <2> QED
    BY <2>5
<1>2. \E i \in S : \A j \in S : i >= j
  BY <1>1
<1>3. Max(S) \in S /\ \A j \in S : Max(S) >= j
  BY <1>2, Zenon DEF Max
<1> QED
  BY <1>3

\* The compaction drops motion of the contact, never its newest.
LEMMA CompactionKeeps ==
  ASSUME NEW q \in QueueType, NEW s \in Nat, NEW t \in Nat, Chain(s, q.entries, t),
         NEW r, r = CompactPendingMotionHistory(q)
  PROVE  /\ r \in QueueType /\ SameButSamples(r, q) /\ Len(r.entries) <= Len(q.entries)
         /\ EdgesIn(r.entries) = EdgesIn(q.entries) /\ Chain(s, r.entries, t)
         /\ q.limit = 0 => r = q
<1> DEFINE es == q.entries
           edges == {i \in DOMAIN es : es[i].phase # "move"}
           start == IF edges = {} THEN 1 ELSE Max(edges) + 1
           excess == Len(es) - (start - 1) - q.limit
           gone == start .. start + excess - 1
           ws == Without(es, gone)
<1>1. es \in Seq(EntryType) /\ Len(es) \in Nat /\ q.discardedMotionCount \in Nat /\ q.limit \in Nat
  BY DEF QueueType
<1>2. r = IF q.limit = 0 \/ excess <= 0 THEN q
          ELSE [q EXCEPT !.entries = ws, !.discardedMotionCount = @ + excess]
  BY Zenon DEF CompactPendingMotionHistory
<1>3. CASE q.limit = 0 \/ excess <= 0
  <2>1. r = q
    BY <1>2, <1>3, Zenon
  <2> QED
    BY <1>1, <2>1 DEF SameButSamples
<1>4. CASE ~(q.limit = 0 \/ excess <= 0)
  <2>1. edges \in SUBSET (1..Len(es)) /\ \A i \in 1..Len(es) : i \notin edges => es[i].phase = "move"
    BY <1>1
  <2> HIDE DEF edges
  <2>2. start \in Nat /\ start >= 1 /\ start <= Len(es) + 1 /\ \A i \in 1..Len(es) : i >= start => i \notin edges
    <3>1. CASE edges = {}
      BY <1>1, <3>1
    <3>2. CASE edges # {}
      <4>1. Max(edges) \in 1..Len(es) /\ \A i \in edges : i <= Max(edges)
        BY <1>1, <2>1, <3>2, LastIsMember
      <4>2. start = Max(edges) + 1
        BY <3>2
      <4> HIDE DEF start
      <4> QED
        BY <1>1, <4>1, <4>2
    <3> QED
      BY <3>1, <3>2
  <2> HIDE DEF start
  <2>3. excess \in Nat /\ start + excess - 1 < Len(es)
    BY <1>1, <1>4, <2>2
  <2>4. \A i \in gone : i \in 1..Len(es) /\ i >= start /\ i < Len(es)
    <3> HIDE DEF es, excess
    <3> QED
      BY <1>1, <2>2, <2>3
  <2>5. Droppable(es, gone)
    <3>1. ASSUME NEW i \in gone PROVE es[i].phase = "move" /\ es[i + 1].phase \notin Releases
      <4>1. i \in 1..Len(es) /\ i + 1 \in 1..Len(es) /\ i >= start /\ i + 1 >= start
        BY <1>1, <2>2, <2>4
      <4>2. es[i].phase = "move" /\ es[i + 1].phase = "move"
        BY <2>1, <2>2, <4>1
      <4> QED
        BY <4>2 DEF Releases
    <3>2. gone \in SUBSET (1..Len(es))
      BY <2>4
    <3> HIDE DEF gone
    <3> QED
      BY <3>1, <3>2 DEF Droppable
  <2>6. Len(es) \notin gone
    BY <1>1, <2>4
  <2> HIDE DEF gone, excess
  <2>7. /\ ws \in Seq(EntryType) /\ Cardinality(gone) \in Nat /\ Len(ws) = Len(es) - Cardinality(gone)
        /\ EdgesIn(ws) = EdgesIn(es)
        /\ \E u \in Nat : Chain(s, ws, u) /\ (u = NoPoint <=> t = NoPoint) /\ (Len(es) \notin gone => u = t)
    BY <1>1, <2>5, DroppedMotion
  <2>8. Chain(s, ws, t)
    BY <2>6, <2>7
  <2> HIDE DEF ws
  <2>9. r = [q EXCEPT !.entries = ws, !.discardedMotionCount = @ + excess]
    BY <1>2, <1>4
  <2>10. r \in QueueType /\ SameButSamples(r, q) /\ r.entries = ws
    <3> DEFINE k == q.discardedMotionCount + excess
    <3>1. r = Resampled(q, ws, k)
      BY <2>9 DEF Resampled
    <3>2. k \in Nat /\ ws \in Seq(EntryType)
      BY <1>1, <2>3, <2>7
    <3> HIDE DEF k
    <3> QED
      BY <3>1, <3>2, OtherSamples
  <2>11. Len(ws) <= Len(es) /\ q.limit # 0
    BY <1>1, <1>4, <2>7
  <2> QED
    BY <2>7, <2>8, <2>10, <2>11
<1> QED
  BY <1>3, <1>4


LEMMA ChainAppended ==
  ASSUME NEW es \in Seq(EntryType), NEW e \in EntryType, NEW s, NEW t, Chain(s, es, t), Fits(t, e),
         e.phase \in Releases /\ es # <<>> => ~Evictable(es[Len(es)])
  PROVE  Chain(s, Append(es, e), After(e))
<1> DEFINE gs == Append(es, e)
           n == Len(es)
<1>1. n \in Nat /\ Len(gs) = n + 1 /\ gs[n + 1] = e /\ \A i \in 1..n : gs[i] = es[i]
  OBVIOUS
<1>2. (es # <<>>) <=> n > 0
  OBVIOUS
<1>3. /\ \A i \in 1..n : Fits(At(s, es, i - 1), es[i])
      /\ \A i \in 1..n : i > 1 /\ es[i].phase \in Releases => ~Evictable(es[i - 1])
      /\ t = At(s, es, n)
  BY DEF Chain
<1> HIDE DEF gs, n
<1>4. \A i \in 0..n : At(s, gs, i) = At(s, es, i)
  BY <1>1 DEF At
<1>5. ASSUME NEW i \in 1..n + 1
      PROVE  Fits(At(s, gs, i - 1), gs[i]) /\ (i > 1 /\ gs[i].phase \in Releases => ~Evictable(gs[i - 1]))
  <2>1. CASE i \in 1..n
    <3>1. i - 1 \in 0..n /\ (i > 1 => i - 1 \in 1..n)
      BY <1>1, <2>1
    <3> QED
      BY <1>1, <1>3, <1>4, <2>1, <3>1
  <2>2. CASE i = n + 1
    <3>1. i - 1 = n /\ n \in 0..n /\ (i > 1 => n \in 1..n /\ n > 0) /\ gs[i] = e
      BY <1>1, <2>2
    <3>2. Fits(At(s, gs, i - 1), gs[i])
      BY <1>3, <1>4, <3>1
    <3>3. i > 1 => gs[i - 1] = es[n]
      BY <1>1, <3>1
    <3> QED
      BY <1>2, <3>1, <3>2, <3>3 DEF n
  <2> QED
    BY <1>1, <2>1, <2>2
<1>6. At(s, gs, n + 1) = After(e)
  BY <1>1 DEF At
<1> QED
  BY <1>1, <1>5, <1>6 DEF Chain, gs

LEMMA ChainNowhere ==
  ASSUME NEW s
  PROVE  Chain(s, <<>>, s)
  BY DEF Chain, At

\* The point of a release is where the samples before it end, and stays there.
LEMMA FinalPointEnds ==
  ASSUME NEW q \in QueueType, NEW s \in Nat, Chain(s, q.entries, q.lastPoint), q.lastPoint # NoPoint,
         NEW point \in Nat \ {NoPoint}, NEW p, p = FinalPoint(q, point)
  PROVE  /\ p \in Seq(EntryType) /\ EdgesIn(p) = EdgesIn(q.entries) /\ Chain(s, p, point)
         /\ p # <<>> => ~Evictable(p[Len(p)])
         /\ Len(p) <= Len(q.entries) + 1 /\ (q.lastPoint = point => Len(p) = Len(q.entries))
<1> DEFINE es == q.entries
           n == Len(es)
<1>1. es \in Seq(EntryType) /\ n \in Nat /\ (es # <<>> <=> n > 0) /\ EdgesIn(es) \in Nat
  BY EdgesAreCounted DEF QueueType
<1>2. CASE q.lastPoint # point
  <2> DEFINE e == Entry("move", point, TRUE)
  <2>1. e \in EntryType /\ e.phase = "move" /\ ~Evictable(e) /\ After(e) = point /\ Fits(q.lastPoint, e) /\ IsEdge(e) = 0
    BY DEF Entry, EntryType, Evictable, After, IsDown, Fits, Releases, IsEdge
  <2>2. p = Append(es, e)
    BY <1>2 DEF FinalPoint
  <2> HIDE DEF e
  <2>3. Chain(s, p, point)
    <3>1. e.phase \notin Releases
      BY <2>1 DEF Releases
    <3> QED
      BY <1>1, <2>1, <2>2, <3>1, ChainAppended
  <2>4. EdgesIn(p) = EdgesIn(es)
    BY <1>1, <2>1, <2>2, EdgesAppended
  <2>5. p \in Seq(EntryType) /\ Len(p) = n + 1 /\ p[Len(p)] = e
    BY <1>1, <2>1, <2>2
  <2> QED
    BY <1>1, <1>2, <2>1, <2>3, <2>4, <2>5
<1>3. CASE q.lastPoint = point /\ n > 0 /\ es[n].phase = "move"
  <2>1. p = [es EXCEPT ![n].finalMove = TRUE]
    BY <1>3 DEF FinalPoint
  <2>2. n \in 1..n /\ es[n] \in EntryType
    BY <1>1, <1>3
  <2>3. /\ p \in Seq(EntryType) /\ Len(p) = n
        /\ \A i \in 1..n : i # n => p[i] = es[i]
        /\ p[n].phase = es[n].phase /\ p[n].point = es[n].point /\ p[n].finalMove
    <3> DEFINE e == [es[n] EXCEPT !.finalMove = TRUE]
    <3>1. e \in EntryType /\ e.phase = es[n].phase /\ e.point = es[n].point /\ e.finalMove
      BY <2>2 DEF EntryType
    <3>2. p = [es EXCEPT ![n] = e]
      BY <2>1
    <3> HIDE DEF e
    <3> QED
      BY <1>1, <2>2, <3>1, <3>2
  <2>4. \A i \in 1..n : p[i].phase = es[i].phase /\ p[i].point = es[i].point
    BY <2>3
  <2> HIDE DEF n, es
  <2>5. EdgesIn(p) = EdgesIn(es)
    <3>1. DOMAIN p = DOMAIN es /\ DOMAIN es = 1..n
      BY <1>1, <2>3 DEF n
    <3>2. \A i : i \in {j \in DOMAIN p : p[j].phase # "move"} <=> i \in {j \in DOMAIN es : es[j].phase # "move"}
      BY <2>4, <3>1
    <3>3. {j \in DOMAIN p : p[j].phase # "move"} = {j \in DOMAIN es : es[j].phase # "move"}
      BY <3>2
    <3> QED
      BY <3>3 DEF EdgesIn
  <2>6. Chain(s, p, point)
    <3>0. /\ \A i \in 1..n : Fits(At(s, es, i - 1), es[i])
          /\ \A i \in 1..n : i > 1 /\ es[i].phase \in Releases => ~Evictable(es[i - 1])
          /\ point = At(s, es, n)
      BY <1>3 DEF Chain, n, es
    <3>1. \A i \in 0..n : At(s, p, i) = At(s, es, i)
      BY <1>1, <2>4 DEF At, After
    <3>2. \A i \in 1..n : Fits(At(s, p, i - 1), p[i])
      <4> TAKE i \in 1..n
      <4>1. i - 1 \in 0..n
        BY <1>1
      <4> QED
        BY <2>4, <3>0, <3>1, <4>1 DEF Fits
    <3>3. \A i \in 1..n : i > 1 /\ p[i].phase \in Releases => ~Evictable(p[i - 1])
      <4> TAKE i \in 1..n
      <4>1. i > 1 => i - 1 \in 1..n /\ i - 1 # n
        BY <1>1
      <4> QED
        BY <2>3, <2>4, <3>0, <4>1
    <3>4. point = At(s, p, n)
      BY <1>1, <3>0, <3>1
    <3> QED
      BY <2>3, <3>2, <3>3, <3>4 DEF Chain
  <2>7. ~Evictable(p[n])
    BY <2>3 DEF Evictable
  <2> QED
    BY <1>1, <2>3, <2>5, <2>6, <2>7 DEF n, es
<1>4. CASE q.lastPoint = point /\ ~(n > 0 /\ es[n].phase = "move")
  <2>1. p = es
    BY <1>4 DEF FinalPoint
  <2>2. es # <<>> => ~Evictable(es[n])
    BY <1>1, <1>4 DEF Evictable
  <2> QED
    BY <1>1, <1>4, <2>1, <2>2
<1> QED
  BY <1>2, <1>3, <1>4

\* The queue of a result goes on with the gesture and has so many more edges.
GoesOn(r, q, s, c, l, edges) ==
  /\ r.accepted \in BOOLEAN /\ GestureQueue(r.queue, s, c, l)
  /\ EdgesIn(r.queue.entries) = EdgesIn(q.entries) + edges

SameCounts(r, q) ==
  /\ r.discardedMotionCount = q.discardedMotionCount /\ r.rejectedGestureCount = q.rejectedGestureCount
  /\ r.rejectingContact = q.rejectingContact

LEMMA RejectedGoesOn ==
  ASSUME NEW q, NEW s, NEW c, NEW l, GestureQueue(q, s, c, l)
  PROVE  GoesOn(Rejected(q), q, s, c, l, 0) /\ ~Rejected(q).accepted /\ Rejected(q).queue = q
<1>1. EdgesIn(q.entries) \in Nat
  BY EdgesAreCounted DEF GestureQueue, QueueType
<1> QED
  BY <1>1 DEF GoesOn, Rejected

LEMMA DownGoesOn ==
  ASSUME NEW q, NEW s \in Nat, NEW c \in Nat, NEW l \in Nat, GestureQueue(q, s, c, l),
         NEW point \in Nat \ {NoPoint}, NEW r, r = EnqueueDown(q, point)
  PROVE  /\ GoesOn(r, q, s, c, l, IF r.accepted THEN 1 ELSE 0)
         /\ q.active => r = Rejected(q)
         /\ ~q.active /\ Len(q.entries) <= c - 3 =>
               /\ r.accepted /\ SameCounts(r.queue, q) /\ r.queue.lastPoint = point
               /\ Len(r.queue.entries) = Len(q.entries) + 1
<1> DEFINE room == SampleLimit(q)
           roomy == MakeRoom(q, room)
<1>1. /\ q \in QueueType /\ q.capacity = c /\ q.limit = l /\ Chain(s, q.entries, q.lastPoint) /\ q.lastPoint \in Nat
      /\ (q.active <=> q.lastPoint # NoPoint) /\ q.active \in BOOLEAN
      /\ Len(q.entries) <= c - IF q.active THEN 2 ELSE 0
  BY DEF GestureQueue, QueueWithin, QueueType
<1>2. room = c - 3 /\ room \in Int
  BY <1>1 DEF SampleLimit
<1>3. CASE q.active
  <2>1. r = Rejected(q)
    BY <1>3 DEF EnqueueDown
  <2> QED
    BY <1>3, <2>1, RejectedGoesOn
<1>4. CASE ~q.active
  <2>1. q.lastPoint = NoPoint
    BY <1>1, <1>4
  <2> HIDE DEF roomy, room
  <2>2. /\ roomy \in QueueType /\ SameButSamples(roomy, q) /\ Len(roomy.entries) <= Len(q.entries)
        /\ EdgesIn(roomy.entries) = EdgesIn(q.entries)
        /\ Len(q.entries) <= room => /\ roomy.discardedMotionCount = q.discardedMotionCount
                                     /\ Len(roomy.entries) = Len(q.entries)
        /\ \E u \in Nat : /\ Chain(s, roomy.entries, u) /\ (u = NoPoint <=> q.lastPoint = NoPoint)
                          /\ Len(roomy.entries) = Len(q.entries) => u = q.lastPoint
    <3>1. RoomMade(roomy, q, room, s, q.lastPoint)
      BY <1>1, <1>2, MakeRoomKeeps DEF roomy
    <3> QED
      BY <3>1 DEF RoomMade
  <2>3. Chain(s, roomy.entries, NoPoint)
    BY <2>1, <2>2
  <2>4. roomy.entries \in Seq(EntryType) /\ Len(roomy.entries) \in Nat /\ Len(q.entries) \in Nat
        /\ EdgesIn(roomy.entries) \in Nat
    BY <1>1, <2>2, QueueEntries
  <2>5. CASE Len(roomy.entries) > room
    <3> DEFINE w == [roomy EXCEPT !.rejectingContact = TRUE, !.rejectedGestureCount = @ + 1]
    <3>1. r = Rejected(w)
      BY <1>4, <2>5 DEF EnqueueDown, roomy, room
    <3>2. /\ w \in QueueType /\ w.entries = roomy.entries /\ w.capacity = c /\ w.limit = l /\ ~w.active
          /\ w.lastPoint = NoPoint
      <4>1. w \in QueueType
        <5> DEFINE k == roomy.rejectedGestureCount + 1
        <5>1. k \in Nat
          BY <2>2 DEF QueueType
        <5>2. w = [roomy EXCEPT !.rejectingContact = TRUE, !.rejectedGestureCount = k]
          OBVIOUS
        <5> HIDE DEF k, w
        <5> QED
          BY <2>2, <5>1, <5>2 DEF QueueType
      <4>2. /\ w.entries = roomy.entries /\ w.capacity = roomy.capacity /\ w.limit = roomy.limit
            /\ w.active = roomy.active /\ w.lastPoint = roomy.lastPoint
        BY <2>2 DEF QueueType
      <4> HIDE DEF w
      <4> QED
        BY <1>1, <1>4, <2>1, <2>2, <4>1, <4>2 DEF SameButSamples
    <3> HIDE DEF w
    <3>3. GestureQueue(w, s, c, l)
      BY <1>1, <1>4, <2>2, <2>3, <2>4, <3>2 DEF GestureQueue, QueueWithin
    <3>4. GoesOn(r, q, s, c, l, 0) /\ ~r.accepted
      BY <2>2, <2>4, <3>1, <3>2, <3>3 DEF GoesOn, Rejected
    <3> QED
      BY <1>2, <1>4, <2>2, <2>4, <2>5, <3>4
  <2>6. CASE ~(Len(roomy.entries) > room)
    <3> DEFINE e == Entry("down", point, FALSE)
               w == [roomy EXCEPT !.active = TRUE, !.lastPoint = point, !.entries = Append(@, e)]
    <3>1. r = Accepted(w)
      BY <1>4, <2>6 DEF EnqueueDown, roomy, room
    <3>2. e \in EntryType /\ After(e) = point /\ Fits(NoPoint, e) /\ IsEdge(e) = 1 /\ e.phase \notin Releases
      BY DEF Entry, EntryType, Edges, After, IsDown, Fits, Releases, IsEdge
    <3> HIDE DEF e
    <3>3. /\ w \in QueueType /\ w.entries = Append(roomy.entries, e) /\ w.capacity = c /\ w.limit = l /\ w.active
          /\ w.lastPoint = point /\ w.discardedMotionCount = roomy.discardedMotionCount
          /\ w.rejectedGestureCount = q.rejectedGestureCount /\ w.rejectingContact = q.rejectingContact
      <4>1. Append(roomy.entries, e) \in Seq(EntryType)
        BY <2>4, <3>2
      <4>2. w \in QueueType
        BY <2>2, <4>1 DEF QueueType
      <4>3. /\ w.entries = Append(roomy.entries, e) /\ w.capacity = roomy.capacity /\ w.limit = roomy.limit
            /\ w.active = TRUE /\ w.lastPoint = point /\ w.discardedMotionCount = roomy.discardedMotionCount
            /\ w.rejectedGestureCount = roomy.rejectedGestureCount /\ w.rejectingContact = roomy.rejectingContact
        BY <2>2 DEF QueueType
      <4> HIDE DEF w
      <4> QED
        BY <1>1, <2>2, <4>2, <4>3 DEF SameButSamples
    <3> HIDE DEF w
    <3>4. Chain(s, w.entries, point)
      BY <2>3, <2>4, <3>2, <3>3, ChainAppended
    <3>5. EdgesIn(w.entries) = EdgesIn(q.entries) + 1
      BY <2>2, <2>4, <3>2, <3>3, EdgesAppended
    <3>6. Len(w.entries) = Len(roomy.entries) + 1
      BY <2>4, <3>2, <3>3
    <3>7. GestureQueue(w, s, c, l)
      BY <1>2, <2>4, <2>6, <3>3, <3>4, <3>6 DEF GestureQueue, QueueWithin
    <3>8. GoesOn(r, q, s, c, l, 1) /\ r.accepted /\ r.queue = w
      BY <3>1, <3>5, <3>7 DEF GoesOn, Accepted
    <3>9. Len(q.entries) <= c - 3 => SameCounts(r.queue, q) /\ Len(r.queue.entries) = Len(q.entries) + 1
      BY <1>2, <2>2, <3>3, <3>6, <3>8 DEF SameCounts
    <3> QED
      BY <1>4, <3>3, <3>8, <3>9
  <2> QED
    BY <2>5, <2>6
<1> QED
  BY <1>1, <1>3, <1>4


LEMMA MoveGoesOn ==
  ASSUME NEW q, NEW s \in Nat, NEW c \in Nat, NEW l \in Nat, GestureQueue(q, s, c, l),
         NEW point \in Nat \ {NoPoint}, NEW r, r = EnqueueMove(q, point)
  PROVE  /\ GoesOn(r, q, s, c, l, 0)
         /\ ~q.active => r = Rejected(q)
         /\ q.active /\ l = 0 /\ Len(q.entries) <= c - 3 =>
               /\ r.accepted /\ SameCounts(r.queue, q) /\ r.queue.lastPoint = point
               /\ Len(r.queue.entries) = Len(q.entries) + 1
<1> DEFINE room == SampleLimit(q)
           roomy == MakeRoom(q, room)
<1>1. /\ q \in QueueType /\ q.capacity = c /\ q.limit = l /\ Chain(s, q.entries, q.lastPoint) /\ q.lastPoint \in Nat
      /\ (q.active <=> q.lastPoint # NoPoint) /\ q.active \in BOOLEAN
      /\ Len(q.entries) <= c - IF q.active THEN 2 ELSE 0
  BY DEF GestureQueue, QueueWithin, QueueType
<1>2. room = c - 3 /\ room \in Int
  BY <1>1 DEF SampleLimit
<1>3. CASE ~q.active
  <2>1. r = Rejected(q)
    BY <1>3 DEF EnqueueMove
  <2> QED
    BY <1>3, <2>1, RejectedGoesOn
<1>4. CASE q.active
  <2>1. q.lastPoint # NoPoint
    BY <1>1, <1>4
  <2> HIDE DEF roomy, room
  <2>2. /\ roomy \in QueueType /\ SameButSamples(roomy, q) /\ Len(roomy.entries) <= Len(q.entries)
        /\ EdgesIn(roomy.entries) = EdgesIn(q.entries)
        /\ Len(q.entries) <= room => /\ roomy.discardedMotionCount = q.discardedMotionCount
                                     /\ Len(roomy.entries) = Len(q.entries)
        /\ \E u \in Nat : /\ Chain(s, roomy.entries, u) /\ (u = NoPoint <=> q.lastPoint = NoPoint)
                          /\ Len(roomy.entries) = Len(q.entries) => u = q.lastPoint
    <3>1. RoomMade(roomy, q, room, s, q.lastPoint)
      BY <1>1, <1>2, MakeRoomKeeps DEF roomy
    <3> QED
      BY <3>1 DEF RoomMade
  <2>3. roomy.entries \in Seq(EntryType) /\ Len(roomy.entries) \in Nat /\ Len(q.entries) \in Nat
        /\ EdgesIn(roomy.entries) \in Nat
    BY <1>1, <2>2, QueueEntries
  <2>4. CASE Len(roomy.entries) > room
    <3>1. r = Rejected(roomy)
      BY <1>4, <2>4 DEF EnqueueMove, roomy, room
    <3>2. Len(roomy.entries) = Len(q.entries)
      BY <1>1, <1>2, <1>4, <2>2, <2>3, <2>4
    <3>3. Chain(s, roomy.entries, q.lastPoint)
      BY <2>2, <3>2
    <3>4. GestureQueue(roomy, s, c, l)
      BY <1>1, <2>2, <3>2, <3>3 DEF GestureQueue, QueueWithin, SameButSamples
    <3>5. GoesOn(r, q, s, c, l, 0)
      BY <2>2, <2>3, <3>1, <3>4 DEF GoesOn, Rejected
    <3> QED
      BY <1>2, <1>4, <2>3, <2>4, <3>2, <3>5
  <2>5. CASE ~(Len(roomy.entries) > room)
    <3> DEFINE e == Entry("move", point, FALSE)
               w == [roomy EXCEPT !.lastPoint = point, !.entries = Append(@, e)]
               z == CompactPendingMotionHistory(w)
    <3>1. r = Accepted(z)
      BY <1>4, <2>5 DEF EnqueueMove, roomy, room
    <3>2. e \in EntryType /\ After(e) = point /\ (\A u : u # NoPoint => Fits(u, e)) /\ IsEdge(e) = 0
          /\ e.phase \notin Releases
      BY DEF Entry, EntryType, After, IsDown, Fits, Releases, IsEdge
    <3> HIDE DEF e
    <3>3. /\ w \in QueueType /\ w.entries = Append(roomy.entries, e) /\ w.capacity = c /\ w.limit = l /\ w.active
          /\ w.lastPoint = point /\ w.discardedMotionCount = roomy.discardedMotionCount
          /\ w.rejectedGestureCount = q.rejectedGestureCount /\ w.rejectingContact = q.rejectingContact
      <4>1. Append(roomy.entries, e) \in Seq(EntryType)
        BY <2>3, <3>2
      <4>2. w \in QueueType
        BY <2>2, <4>1 DEF QueueType
      <4>3. /\ w.entries = Append(roomy.entries, e) /\ w.capacity = roomy.capacity /\ w.limit = roomy.limit
            /\ w.active = roomy.active /\ w.lastPoint = point /\ w.discardedMotionCount = roomy.discardedMotionCount
            /\ w.rejectedGestureCount = roomy.rejectedGestureCount /\ w.rejectingContact = roomy.rejectingContact
        BY <2>2 DEF QueueType
      <4> HIDE DEF w
      <4> QED
        BY <1>1, <1>4, <2>2, <4>2, <4>3 DEF SameButSamples
    <3> HIDE DEF w
    <3>4. Chain(s, w.entries, point)
      <4>1. PICK u \in Nat : Chain(s, roomy.entries, u) /\ u # NoPoint
        BY <2>1, <2>2
      <4> QED
        BY <2>3, <3>2, <3>3, <4>1, ChainAppended
    <3>5. EdgesIn(w.entries) = EdgesIn(q.entries)
      BY <2>2, <2>3, <3>2, <3>3, EdgesAppended
    <3>6. Len(w.entries) = Len(roomy.entries) + 1
      BY <2>3, <3>2, <3>3
    <3>7. /\ z \in QueueType /\ SameButSamples(z, w) /\ Len(z.entries) <= Len(w.entries)
          /\ EdgesIn(z.entries) = EdgesIn(w.entries) /\ Chain(s, z.entries, point)
          /\ w.limit = 0 => z = w
      BY <3>3, <3>4, CompactionKeeps
    <3> HIDE DEF z
    <3>8. z.entries \in Seq(EntryType) /\ Len(z.entries) \in Nat
      BY <3>7 DEF QueueType
    <3>9. GestureQueue(z, s, c, l)
      BY <1>2, <2>3, <2>5, <3>3, <3>6, <3>7, <3>8 DEF GestureQueue, QueueWithin, SameButSamples
    <3>10. GoesOn(r, q, s, c, l, 0) /\ r.accepted /\ r.queue = z
      BY <2>2, <2>3, <3>1, <3>5, <3>7, <3>9 DEF GoesOn, Accepted
    <3>11. l = 0 /\ Len(q.entries) <= c - 3 =>
              SameCounts(z, q) /\ Len(z.entries) = Len(q.entries) + 1
      BY <1>2, <2>2, <3>3, <3>6, <3>7 DEF SameCounts
    <3>12. z.lastPoint = point
      BY <3>3, <3>7 DEF SameButSamples
    <3> QED
      BY <1>4, <3>10, <3>11, <3>12
  <2> QED
    BY <2>4, <2>5
<1> QED
  BY <1>1, <1>3, <1>4

LEMMA ReleaseGoesOn ==
  ASSUME NEW q, NEW s \in Nat, NEW c \in Nat, NEW l \in Nat, GestureQueue(q, s, c, l), NEW phase \in Releases,
         NEW point \in Nat \ {NoPoint}, NEW r, r = EnqueueRelease(q, phase, point)
  PROVE  /\ GoesOn(r, q, s, c, l, IF r.accepted THEN 1 ELSE 0)
         /\ ~q.active => r = Rejected(q)
         /\ q.active =>
               /\ r.accepted /\ SameCounts(r.queue, q) /\ r.queue.lastPoint = NoPoint
               /\ q.lastPoint = point => Len(r.queue.entries) = Len(q.entries) + 1
<1>1. /\ q \in QueueType /\ q.capacity = c /\ q.limit = l /\ Chain(s, q.entries, q.lastPoint) /\ q.lastPoint \in Nat
      /\ (q.active <=> q.lastPoint # NoPoint) /\ q.active \in BOOLEAN
      /\ Len(q.entries) <= c - IF q.active THEN 2 ELSE 0
  BY DEF GestureQueue, QueueWithin, QueueType
<1>2. CASE ~q.active
  <2>1. r = Rejected(q)
    BY <1>2 DEF EnqueueRelease
  <2> QED
    BY <1>2, <2>1, RejectedGoesOn
<1>3. CASE q.active
  <2> DEFINE p == FinalPoint(q, point)
             e == Entry(phase, point, FALSE)
             w == [q EXCEPT !.active = FALSE, !.lastPoint = NoPoint, !.entries = Append(p, e)]
  <2>1. /\ p \in Seq(EntryType) /\ EdgesIn(p) = EdgesIn(q.entries) /\ Chain(s, p, point)
        /\ p # <<>> => ~Evictable(p[Len(p)])
        /\ Len(p) <= Len(q.entries) + 1 /\ (q.lastPoint = point => Len(p) = Len(q.entries))
    BY <1>1, <1>3, FinalPointEnds
  <2>2. r = Accepted(w)
    BY <1>3 DEF EnqueueRelease
  <2>3. e \in EntryType /\ After(e) = NoPoint /\ Fits(point, e) /\ IsEdge(e) = 1
    BY DEF Entry, EntryType, Edges, After, IsDown, Fits, Releases, IsEdge
  <2> HIDE DEF e, p
  <2>4. /\ w \in QueueType /\ w.entries = Append(p, e) /\ w.capacity = q.capacity /\ w.limit = q.limit
        /\ w.active = FALSE /\ w.lastPoint = NoPoint /\ w.discardedMotionCount = q.discardedMotionCount
        /\ w.rejectedGestureCount = q.rejectedGestureCount /\ w.rejectingContact = q.rejectingContact
    <3>1. Append(p, e) \in Seq(EntryType) /\ NoPoint \in Nat
      BY <2>1, <2>3 DEF NoPoint
    <3>2. w \in QueueType
      BY <1>1, <3>1 DEF QueueType
    <3> QED
      BY <1>1, <3>2 DEF QueueType
  <2> HIDE DEF w
  <2>5. Chain(s, w.entries, NoPoint)
    <3>1. Chain(s, Append(p, e), After(e))
      BY <2>1, <2>3, ChainAppended
    <3> QED
      BY <2>3, <2>4, <3>1
  <2>6. EdgesIn(w.entries) = EdgesIn(q.entries) + 1
    BY <2>1, <2>3, <2>4, EdgesAppended
  <2>7. Len(w.entries) = Len(p) + 1 /\ Len(p) \in Nat /\ Len(q.entries) \in Nat
    BY <1>1, <2>1, <2>3, <2>4 DEF QueueType
  <2>8. GestureQueue(w, s, c, l)
    BY <1>1, <1>3, <2>1, <2>4, <2>5, <2>7 DEF GestureQueue, QueueWithin
  <2>9. GoesOn(r, q, s, c, l, 1) /\ r.accepted /\ r.queue = w
    BY <2>2, <2>6, <2>8 DEF GoesOn, Accepted
  <2>10. SameCounts(w, q)
    BY <2>4 DEF SameCounts
  <2> QED
    BY <1>3, <2>1, <2>4, <2>7, <2>9, <2>10
<1> QED
  BY <1>1, <1>2, <1>3

CanRelease(q, s, c, l, phase, point) ==
  /\ s \in Nat /\ c \in Nat /\ l \in Nat /\ GestureQueue(q, s, c, l)
  /\ phase \in Releases /\ point \in Nat \ {NoPoint}
LEMMA AnyReleaseGoesOn ==
  ASSUME NEW q, NEW s, NEW c, NEW l, NEW phase, NEW point, CanRelease(q, s, c, l, phase, point)
  PROVE  GoesOn(EnqueueRelease(q, phase, point), q, s, c, l, IF EnqueueRelease(q, phase, point).accepted THEN 1 ELSE 0)
<1> DEFINE r == EnqueueRelease(q, phase, point)
<1>1. /\ s \in Nat /\ c \in Nat /\ l \in Nat /\ GestureQueue(q, s, c, l)
      /\ phase \in Releases /\ point \in Nat \ {NoPoint} /\ r = EnqueueRelease(q, phase, point)
  BY DEF CanRelease
<1> HIDE DEF r
<1>2. GoesOn(r, q, s, c, l, IF r.accepted THEN 1 ELSE 0)
  BY <1>1, ReleaseGoesOn
<1> QED
  BY <1>2 DEF r

-----------------------------------------------------------------------------
(* enqueue, in front of the virtual machine and inside the device.         *)

TouchType == [phase : Edges \cup {"move", "none"}, isDown : BOOLEAN, point : Nat \ {NoPoint}]

LEMMA EnqueueGoesOn ==
  ASSUME NEW q, NEW s \in Nat, NEW c \in Nat, NEW l \in Nat, GestureQueue(q, s, c, l),
         NEW touch \in TouchType, NEW r, r = Enqueue(q, touch)
  PROVE  GoesOn(r, q, s, c, l, IF r.accepted /\ PhaseOf(q, touch) # "move" THEN 1 ELSE 0)
<1> DEFINE phase == PhaseOf(q, touch)
<1>1. touch.phase \in {"down", "up", "cancel", "move", "none"} /\ touch.isDown \in BOOLEAN
      /\ touch.point \in Nat \ {NoPoint}
  BY DEF TouchType, Edges
<1>2. phase \in {"down", "move", "up", "cancel"}
  BY <1>1 DEF PhaseOf
<1>3. q \in QueueType
  BY DEF GestureQueue
<1> HIDE DEF phase
<1>4. CASE touch.phase # "none" /\ IsDown(touch.phase) # touch.isDown
  <2>1. r = Rejected(q)
    BY <1>4 DEF Enqueue
  <2> QED
    BY <2>1, RejectedGoesOn
<1>5. CASE ~(touch.phase # "none" /\ IsDown(touch.phase) # touch.isDown) /\ q.rejectingContact
  <2> DEFINE w == [q EXCEPT !.rejectingContact = touch.isDown]
  <2>1. r = Rejected(w)
    BY <1>5 DEF Enqueue
  <2>2. /\ w \in QueueType /\ w.entries = q.entries /\ w.capacity = q.capacity /\ w.limit = q.limit
        /\ w.active = q.active /\ w.lastPoint = q.lastPoint
    BY <1>1, <1>3 DEF QueueType
  <2> HIDE DEF w
  <2>3. GestureQueue(w, s, c, l)
    BY <2>2 DEF GestureQueue, QueueWithin
  <2>4. EdgesIn(q.entries) \in Nat
    BY <1>3, EdgesAreCounted DEF QueueType
  <2> QED
    BY <2>1, <2>2, <2>3, <2>4 DEF GoesOn, Rejected
<1>6. CASE ~(touch.phase # "none" /\ IsDown(touch.phase) # touch.isDown) /\ ~q.rejectingContact
  <2>1. r = CASE phase = "down" -> EnqueueDown(q, touch.point)
              [] phase = "move" -> EnqueueMove(q, touch.point)
              [] phase \in {"up", "cancel"} -> EnqueueRelease(q, phase, touch.point)
    BY <1>6 DEF Enqueue, phase
  <2>2. CASE phase = "down"
    <3>1. r = EnqueueDown(q, touch.point)
      BY <2>1, <2>2
    <3>2. GoesOn(r, q, s, c, l, IF r.accepted THEN 1 ELSE 0)
      BY <1>1, <3>1, DownGoesOn
    <3> QED
      BY <2>2, <3>2 DEF phase
  <2>3. CASE phase = "move"
    <3>1. r = EnqueueMove(q, touch.point)
      BY <2>1, <2>3
    <3>2. GoesOn(r, q, s, c, l, 0)
      BY <1>1, <3>1, MoveGoesOn
    <3> QED
      BY <2>3, <3>2 DEF phase
  <2>4. CASE phase \in Releases
    <3>1. r = EnqueueRelease(q, phase, touch.point) /\ phase # "move"
      BY <2>1, <2>4 DEF Releases
    <3>2. CanRelease(q, s, c, l, phase, touch.point)
      BY <1>1, <2>4 DEF CanRelease
    <3> HIDE DEF phase
    <3>3. GoesOn(r, q, s, c, l, IF r.accepted THEN 1 ELSE 0)
      BY <3>1, <3>2, AnyReleaseGoesOn
    <3> QED
      BY <3>1, <3>3 DEF phase
  <2> QED
    BY <1>2, <2>2, <2>3, <2>4 DEF Releases
<1> QED
  BY <1>4, <1>5, <1>6

\* A queue of the device that has no sample limit and has dropped nothing, where
\* the batch goes on at m; after a reset it may have missed the press.
Receives(q, s, m) ==
  /\ GestureQueue(q, s, DeviceCapacity, 0) /\ q.lastPoint \in {NoPoint, m}
  /\ q.discardedMotionCount = 0 /\ q.rejectedGestureCount = 0 /\ ~q.rejectingContact

\* A sample with room for a release behind it is never dropped.
LEMMA DeviceTakesSample ==
  ASSUME NEW q, NEW s \in Nat, NEW m \in Nat, Receives(q, s, m), NEW e \in EntryType, Fits(m, e),
         Len(q.entries) <= DeviceCapacity - 3, NEW w, w = Enqueue(q, TouchOf(e)).queue
  PROVE  /\ Receives(w, s, After(e)) /\ Len(w.entries) <= Len(q.entries) + 1
         /\ q.lastPoint = m => w.lastPoint = After(e) /\ EdgesIn(w.entries) = EdgesIn(q.entries) + IsEdge(e)
<1> DEFINE touch == TouchOf(e)
           r == Enqueue(q, touch)
<1>1. /\ touch.phase = e.phase /\ touch.isDown = IsDown(e.phase) /\ touch.point = e.point
      /\ e.phase \in {"down", "up", "cancel", "move"} /\ e.point \in Nat \ {NoPoint}
  BY DEF TouchOf, EntryType, Edges
<1>2. /\ GestureQueue(q, s, DeviceCapacity, 0) /\ q.lastPoint \in {NoPoint, m} /\ q \in QueueType
      /\ (q.active <=> q.lastPoint # NoPoint)
      /\ q.discardedMotionCount = 0 /\ q.rejectedGestureCount = 0 /\ ~q.rejectingContact
  BY DEF Receives, GestureQueue, QueueWithin
<1>3. DeviceCapacity \in Nat /\ Len(q.entries) \in Nat /\ EdgesIn(q.entries) \in Nat
  BY <1>2, CapacityAssumption, EdgesAreCounted DEF QueueType
<1>4. PhaseOf(q, touch) = e.phase
  BY <1>1 DEF PhaseOf
<1>5. r = CASE e.phase = "down" -> EnqueueDown(q, e.point)
            [] e.phase = "move" -> EnqueueMove(q, e.point)
            [] e.phase \in {"up", "cancel"} -> EnqueueRelease(q, e.phase, e.point)
  BY <1>1, <1>2, <1>4 DEF Enqueue
<1> HIDE DEF touch, r
<1>6. w = r.queue
  BY DEF r, touch
<1>7. ASSUME r = Rejected(q), q.lastPoint = NoPoint, e.phase # "down"
      PROVE  /\ Receives(w, s, After(e)) /\ Len(w.entries) <= Len(q.entries) + 1
             /\ q.lastPoint # m
  <2>1. w = q
    BY <1>6, <1>7 DEF Rejected
  <2>2. m # NoPoint
    BY <1>1, <1>7 DEF Fits
  <2> QED
    BY <1>2, <1>3, <1>7, <2>1, <2>2 DEF Receives
<1>8. ASSUME r.accepted, SameCounts(w, q), w.lastPoint = After(e), Len(w.entries) = Len(q.entries) + 1,
             GoesOn(r, q, s, DeviceCapacity, 0, IsEdge(e))
      PROVE  /\ Receives(w, s, After(e)) /\ Len(w.entries) <= Len(q.entries) + 1
             /\ EdgesIn(w.entries) = EdgesIn(q.entries) + IsEdge(e)
  BY <1>2, <1>3, <1>6, <1>8 DEF GoesOn, SameCounts, Receives
<1>9. CASE e.phase = "down"
  <2>1. r = EnqueueDown(q, e.point) /\ m = NoPoint /\ After(e) = e.point /\ IsEdge(e) = 1
    BY <1>5, <1>9 DEF Fits, After, IsDown, IsEdge
  <2>2. ~q.active
    BY <1>2, <2>1
  <2>3. /\ GoesOn(r, q, s, DeviceCapacity, 0, IF r.accepted THEN 1 ELSE 0)
        /\ r.accepted /\ SameCounts(r.queue, q) /\ r.queue.lastPoint = e.point
        /\ Len(r.queue.entries) = Len(q.entries) + 1
    BY <1>1, <1>2, <1>3, <2>1, <2>2, DownGoesOn
  <2> QED
    BY <1>6, <1>8, <2>1, <2>3
<1>10. CASE e.phase = "move"
  <2>1. r = EnqueueMove(q, e.point) /\ After(e) = e.point /\ IsEdge(e) = 0
    BY <1>5, <1>10 DEF After, IsDown, IsEdge
  <2>2. CASE ~q.active
    <3>1. r = Rejected(q)
      BY <1>1, <1>2, <1>3, <2>1, <2>2, MoveGoesOn
    <3> QED
      BY <1>2, <1>7, <1>10, <2>2, <3>1
  <2>3. CASE q.active
    <3>1. /\ GoesOn(r, q, s, DeviceCapacity, 0, 0)
          /\ r.accepted /\ SameCounts(r.queue, q) /\ r.queue.lastPoint = e.point
          /\ Len(r.queue.entries) = Len(q.entries) + 1
      BY <1>1, <1>2, <1>3, <2>1, <2>3, MoveGoesOn
    <3> QED
      BY <1>6, <1>8, <2>1, <3>1
  <2> QED
    BY <2>2, <2>3
<1>11. CASE e.phase \in Releases
  <2>1. r = EnqueueRelease(q, e.phase, e.point) /\ After(e) = NoPoint /\ IsEdge(e) = 1 /\ e.phase # "down"
        /\ e.point = m
    BY <1>5, <1>11 DEF Releases, After, IsDown, IsEdge, Fits
  <2>2. CASE ~q.active
    <3>1. r = Rejected(q)
      BY <1>1, <1>2, <1>3, <1>11, <2>1, <2>2, ReleaseGoesOn
    <3> QED
      BY <1>2, <1>7, <2>1, <2>2, <3>1
  <2>3. CASE q.active
    <3>1. q.lastPoint = e.point
      BY <1>2, <2>1, <2>3
    <3>2. /\ GoesOn(r, q, s, DeviceCapacity, 0, IF r.accepted THEN 1 ELSE 0)
          /\ r.accepted /\ SameCounts(r.queue, q) /\ r.queue.lastPoint = NoPoint
          /\ Len(r.queue.entries) = Len(q.entries) + 1
      BY <1>1, <1>2, <1>3, <1>11, <2>1, <2>3, <3>1, ReleaseGoesOn
    <3> QED
      BY <1>6, <1>8, <2>1, <3>2
  <2> QED
    BY <2>2, <2>3
<1> QED
  BY <1>1, <1>9, <1>10, <1>11 DEF Releases


-----------------------------------------------------------------------------
(* The batch.                                                              *)

\* One sample of the batch, and the queue after each of the first n.
Taken(q, e) == Enqueue(q, TouchOf(e)).queue
IsTaking(f, q, batch, n) ==
  /\ DOMAIN f = 0..n
  /\ \A i \in 0..n : f[i] = IF i = 0 THEN q ELSE Taken(f[i - 1], batch[i])

Tabled(f, n) == f = [i \in 0..n |-> f[i]]

LEMMA TakingExists ==
  ASSUME NEW q, NEW batch \in Seq(EntryType), NEW n \in 0..Len(batch)
  PROVE  \E f : IsTaking(f, q, batch, n) /\ Tabled(f, n)
<1> DEFINE Good(n1) == \E f : IsTaking(f, q, batch, n1) /\ Tabled(f, n1)
           Bad == {n1 \in 0..Len(batch) : ~Good(n1)}
<1>1. SUFFICES ASSUME Bad # {} PROVE FALSE
  OBVIOUS
<1>2. Len(batch) \in Nat /\ Bad \in SUBSET Nat
  OBVIOUS
<1> HIDE DEF Good
<1>3. PICK k \in Bad : \A j \in Bad : k <= j
  BY <1>1, <1>2, LowestIsMember
<1>4. k \in 0..Len(batch) /\ k \in Nat /\ ~Good(k)
  OBVIOUS
<1>5. CASE k = 0
  <2> DEFINE f == [i \in 0..0 |-> q]
  <2>1. IsTaking(f, q, batch, 0) /\ Tabled(f, 0)
    BY DEF IsTaking, Tabled
  <2> HIDE DEF f
  <2> QED
    BY <1>4, <1>5, <2>1 DEF Good
<1>6. CASE k # 0
  <2>1. k - 1 \in 0..Len(batch) /\ ~(k <= k - 1)
    BY <1>2, <1>4, <1>6
  <2>2. Good(k - 1)
    BY <1>3, <2>1
  <2>3. PICK g : IsTaking(g, q, batch, k - 1)
    BY <2>2 DEF Good
  <2>4. DOMAIN g = 0..k - 1 /\ \A i \in 0..k - 1 : g[i] = IF i = 0 THEN q ELSE Taken(g[i - 1], batch[i])
    BY <2>3 DEF IsTaking
  <2> DEFINE f == [i \in 0..k |-> IF i < k THEN g[i] ELSE Taken(g[k - 1], batch[k])]
  <2>5. ASSUME NEW i \in 0..k PROVE f[i] = IF i = 0 THEN q ELSE Taken(f[i - 1], batch[i])
    <3>1. CASE i < k
      <4>1. i \in 0..k - 1 /\ i \in Nat
        BY <1>4, <3>1
      <4>2. f[i] = g[i] /\ (i # 0 => i - 1 \in 0..k /\ i - 1 < k /\ f[i - 1] = g[i - 1])
        BY <1>4, <3>1
      <4> HIDE DEF f
      <4> QED
        BY <2>4, <4>1, <4>2
    <3>2. CASE i = k
      <4>1. k \in 0..k /\ k - 1 \in 0..k /\ k - 1 < k /\ ~(k < k)
        BY <1>4, <1>6
      <4>2. f[k] = Taken(g[k - 1], batch[k]) /\ f[k - 1] = g[k - 1]
        BY <4>1
      <4> HIDE DEF f
      <4> QED
        BY <1>6, <3>2, <4>2
    <3> QED
      BY <1>4, <3>1, <3>2
  <2>6. DOMAIN f = 0..k /\ Tabled(f, k)
    BY DEF Tabled
  <2> HIDE DEF f
  <2>7. IsTaking(f, q, batch, k)
    BY <2>5, <2>6 DEF IsTaking
  <2> QED
    BY <1>4, <2>6, <2>7 DEF Good
<1> QED
  BY <1>5, <1>6

LEMMA EnqueueAllTakes ==
  ASSUME NEW q, NEW batch \in Seq(EntryType)
  PROVE  \E f : IsTaking(f, q, batch, Len(batch)) /\ EnqueueAll(q, batch) = f[Len(batch)]
<1> DEFINE h == CHOOSE f : f = [n \in 0..Len(batch) |-> IF n = 0 THEN q ELSE Taken(f[n - 1], batch[n])]
<1>1. EnqueueAll(q, batch) = h[Len(batch)]
  BY Zenon DEF EnqueueAll, Taken
<1>2. PICK g : IsTaking(g, q, batch, Len(batch)) /\ Tabled(g, Len(batch))
  <2>1. Len(batch) \in 0..Len(batch)
    OBVIOUS
  <2> QED
    BY <2>1, TakingExists
<1>3. g = [n \in 0..Len(batch) |-> IF n = 0 THEN q ELSE Taken(g[n - 1], batch[n])]
  BY <1>2 DEF IsTaking, Tabled
<1>4. h = [n \in 0..Len(batch) |-> IF n = 0 THEN q ELSE Taken(h[n - 1], batch[n])]
  BY <1>3, Zenon
<1> HIDE DEF h
<1>5. IsTaking(h, q, batch, Len(batch))
  BY <1>4 DEF IsTaking
<1> QED
  BY <1>1, <1>5

LEMMA ReceiverTypes ==
  ASSUME NEW q, NEW s, NEW m, Receives(q, s, m)
  PROVE  q \in QueueType /\ q.entries \in Seq(EntryType) /\ Len(q.entries) \in Nat /\ EdgesIn(q.entries) \in Nat
  BY EdgesAreCounted DEF Receives, GestureQueue, QueueType

\* A batch for which there is room arrives in full.
LEMMA DeviceTakesBatch ==
  ASSUME NEW q, NEW s \in Nat, NEW m \in Nat, Receives(q, s, m), NEW batch \in Seq(EntryType), NEW n \in Nat,
         Chain(m, batch, n), Len(q.entries) + Len(batch) <= DeviceCapacity - 2,
         NEW w, w = EnqueueAll(q, batch)
  PROVE  /\ Receives(w, s, n) /\ Len(w.entries) <= Len(q.entries) + Len(batch)
         /\ q.lastPoint = m => w.lastPoint = n /\ EdgesIn(w.entries) = EdgesIn(q.entries) + EdgesIn(batch)
<1>1. PICK f : IsTaking(f, q, batch, Len(batch)) /\ w = f[Len(batch)]
  BY EnqueueAllTakes
<1> DEFINE part(i) == SubSeq(batch, 1, i)
           Good(i) ==
             /\ Receives(f[i], s, At(m, batch, i)) /\ Len(f[i].entries) <= Len(q.entries) + i
             /\ q.lastPoint = m => /\ f[i].lastPoint = At(m, batch, i)
                                   /\ EdgesIn(f[i].entries) = EdgesIn(q.entries) + EdgesIn(part(i))
           Bad == {i \in 0..Len(batch) : ~Good(i)}
<1>2. /\ Len(batch) \in Nat /\ Len(q.entries) \in Nat /\ DeviceCapacity \in Nat /\ EdgesIn(q.entries) \in Nat
      /\ \A i \in 1..Len(batch) : batch[i] \in EntryType
  BY CapacityAssumption, EdgesAreCounted DEF Receives, GestureQueue, QueueType
<1>3. \A i \in 0..Len(batch) : part(i) \in Seq(EntryType)
  OBVIOUS
<1>4. part(0) = <<>> /\ part(Len(batch)) = batch
  OBVIOUS
<1>5. \A i \in 1..Len(batch) : part(i) = Append(part(i - 1), batch[i])
  <2> TAKE i \in 1..Len(batch)
  <2>1. i - 1 \in 0..Len(batch) /\ i \in 0..Len(batch)
    BY <1>2
  <2>2. Len(part(i)) = i /\ Len(part(i - 1)) = i - 1
    BY <1>2, <2>1
  <2>3. \A j \in 1..i : part(i)[j] = batch[j]
    BY <1>2, <2>1
  <2>4. \A j \in 1..i - 1 : part(i - 1)[j] = batch[j]
    BY <1>2, <2>1
  <2>5. part(i) \in Seq(EntryType) /\ part(i - 1) \in Seq(EntryType) /\ batch[i] \in EntryType /\ i \in Nat
    BY <1>2, <1>3, <2>1
  <2> HIDE DEF part
  <2>6. Append(part(i - 1), batch[i]) \in Seq(EntryType) /\ Len(Append(part(i - 1), batch[i])) = i
    BY <2>2, <2>5
  <2>7. ASSUME NEW j \in 1..i PROVE Append(part(i - 1), batch[i])[j] = part(i)[j]
    <3>1. CASE j = i
      <4>1. Append(part(i - 1), batch[i])[Len(part(i - 1)) + 1] = batch[i]
        BY <2>5
      <4> QED
        BY <2>2, <2>3, <2>5, <3>1, <4>1
    <3>2. CASE j # i
      <4>1. j \in 1..i - 1
        BY <2>5, <3>2
      <4>2. Append(part(i - 1), batch[i])[j] = part(i - 1)[j]
        BY <2>2, <2>5, <4>1
      <4> QED
        BY <2>3, <2>4, <4>1, <4>2
    <3> QED
      BY <3>1, <3>2
  <2> QED
    BY <2>2, <2>5, <2>6, <2>7
<1> HIDE DEF part
<1>6. Bad = {}
  <2>1. SUFFICES ASSUME Bad # {} PROVE FALSE
    OBVIOUS
  <2>2. Bad \in SUBSET Nat
    OBVIOUS
  <2> HIDE DEF Good
  <2>3. PICK k \in Bad : \A j \in Bad : k <= j
    BY <2>1, <2>2, LowestIsMember
  <2>4. k \in 0..Len(batch) /\ k \in Nat /\ ~Good(k)
    OBVIOUS
  <2>5. CASE k = 0
    <3>1. f[0] = q /\ At(m, batch, 0) = m /\ EdgesIn(part(0)) = 0
      BY <1>1, <1>2, <1>4, EdgesOfNothing DEF IsTaking, At
    <3>2. Good(0)
      BY <1>2, <3>1 DEF Good
    <3> QED
      BY <2>4, <2>5, <3>2
  <2>6. CASE k # 0
    <3>1. k - 1 \in 0..Len(batch) /\ ~(k <= k - 1) /\ k \in 1..Len(batch)
      BY <1>2, <2>4, <2>6
    <3>2. Good(k - 1)
      BY <2>3, <3>1
    <3> DEFINE p == f[k - 1]
               e == batch[k]
               a == At(m, batch, k - 1)
    <3>3. f[k] = Taken(p, e)
      BY <1>1, <2>4, <2>6 DEF IsTaking
    <3>4. /\ Receives(p, s, a) /\ Len(p.entries) <= Len(q.entries) + (k - 1)
          /\ q.lastPoint = m => p.lastPoint = a /\ EdgesIn(p.entries) = EdgesIn(q.entries) + EdgesIn(part(k - 1))
      BY <3>2 DEF Good
    <3>5. e \in EntryType /\ Fits(a, e)
      BY <1>2, <3>1 DEF Chain
    <3>6. a \in Nat
      <4>1. k - 1 # 0 => k - 1 \in 1..Len(batch) /\ batch[k - 1] \in EntryType
        BY <1>2, <3>1
      <4> QED
        BY <4>1 DEF At, After, EntryType, NoPoint
    <3>7. Len(p.entries) \in Nat /\ EdgesIn(p.entries) \in Nat
      BY <3>4, ReceiverTypes
    <3>8. At(m, batch, k) = After(e)
      BY <2>6 DEF At
    <3>9. EdgesIn(part(k)) = EdgesIn(part(k - 1)) + IsEdge(e) /\ EdgesIn(part(k - 1)) \in Nat
      BY <1>3, <1>5, <3>1, <3>5, EdgesAppended, EdgesAreCounted
    <3> HIDE DEF p, e, a
    <3>10. Len(p.entries) <= DeviceCapacity - 3
      <4> DEFINE before == Len(q.entries)
                 now == Len(p.entries)
                 all == Len(batch)
      <4>1. before \in Nat /\ now \in Nat /\ all \in Nat /\ DeviceCapacity \in Nat /\ k \in 1..all
        BY <1>2, <3>1, <3>7
      <4>2. now <= before + (k - 1) /\ before + all <= DeviceCapacity - 2
        BY <3>4
      <4> HIDE DEF before, now, all
      <4>3. now <= DeviceCapacity - 3
        BY <4>1, <4>2
      <4> QED
        BY <4>3 DEF now
    <3>11. f[k] = Enqueue(p, TouchOf(e)).queue
      BY <3>3 DEF Taken
    <3>12. /\ Receives(f[k], s, After(e)) /\ Len(f[k].entries) <= Len(p.entries) + 1
           /\ p.lastPoint = a => f[k].lastPoint = After(e) /\ EdgesIn(f[k].entries) = EdgesIn(p.entries) + IsEdge(e)
      BY <3>4, <3>5, <3>6, <3>10, <3>11, DeviceTakesSample
    <3>13. Len(f[k].entries) \in Nat
      BY <3>12, ReceiverTypes
    <3>14. Len(f[k].entries) <= Len(q.entries) + k
      <4> DEFINE a1 == Len(f[k].entries)
                 a2 == Len(p.entries)
                 a3 == Len(q.entries)
      <4>1. a1 \in Nat /\ a2 \in Nat /\ a3 \in Nat /\ k \in Nat /\ a1 <= a2 + 1 /\ a2 <= a3 + (k - 1)
        BY <1>2, <2>4, <3>4, <3>7, <3>12, <3>13
      <4> HIDE DEF a1, a2, a3
      <4>2. a1 <= a3 + k
        BY <4>1
      <4> QED
        BY <4>2 DEF a1, a3
    <3>15. IsEdge(e) \in Nat
      BY DEF IsEdge
    <3>16. q.lastPoint = m => EdgesIn(f[k].entries) = EdgesIn(q.entries) + EdgesIn(part(k))
      BY <1>2, <3>4, <3>9, <3>12, <3>15
    <3>17. Good(k)
      BY <3>4, <3>8, <3>12, <3>14, <3>16 DEF Good
    <3> QED
      BY <2>4, <3>17
  <2> QED
    BY <2>5, <2>6
<1>7. Good(Len(batch))
  <2> HIDE DEF Good
  <2>1. Len(batch) \in 0..Len(batch)
    BY <1>2
  <2> QED
    BY <1>6, <2>1
<1>8. At(m, batch, Len(batch)) = n
  BY DEF Chain
<1> QED
  BY <1>1, <1>4, <1>7, <1>8

BatchFits(q, s, m, batch, n) ==
  /\ s \in Nat /\ m \in Nat /\ n \in Nat /\ Receives(q, s, m) /\ batch \in Seq(EntryType) /\ Chain(m, batch, n)
  /\ Len(q.entries) + Len(batch) <= DeviceCapacity - 2
LEMMA BatchIsTaken ==
  ASSUME NEW q, NEW s, NEW m, NEW batch, NEW n, BatchFits(q, s, m, batch, n)
  PROVE  /\ Receives(EnqueueAll(q, batch), s, n) /\ Len(EnqueueAll(q, batch).entries) <= Len(q.entries) + Len(batch)
         /\ q.lastPoint = m => /\ EnqueueAll(q, batch).lastPoint = n
                               /\ EdgesIn(EnqueueAll(q, batch).entries) = EdgesIn(q.entries) + EdgesIn(batch)
<1>1. /\ s \in Nat /\ m \in Nat /\ n \in Nat /\ Receives(q, s, m) /\ batch \in Seq(EntryType) /\ Chain(m, batch, n)
      /\ Len(q.entries) + Len(batch) <= DeviceCapacity - 2
  BY DEF BatchFits
<1> QED
  BY <1>1, DeviceTakesBatch


-----------------------------------------------------------------------------
(* The events.                                                             *)

\* Whether a contact is down, and its last position.
Spots == [down : BOOLEAN, at : Nat]

\* An event that fits: contacts begin and end in turn, a release is where the
\* last position was, and positions belong to a contact.
EventFits(a, e) ==
  /\ e.kind = "contact" => /\ e.value \in NoContact..MaxTrackingID /\ (e.value = NoContact <=> a.down)
                           /\ e.value = NoContact => e.at = a.at
  /\ e.kind = "position" => a.down /\ e.value \in Nat
AfterEvent(a, e) == [down |-> IF e.kind = "contact" THEN e.value # NoContact ELSE a.down,
                     at |-> IF e.kind = "position" THEN e.value ELSE a.at]

\* The events take a contact from a to b.
IsTrack(f, a, es, b) ==
  /\ f \in [0..Len(es) -> Spots] /\ f[0] = a /\ f[Len(es)] = b
  /\ \A i \in 1..Len(es) : EventFits(f[i - 1], es[i]) /\ f[i] = AfterEvent(f[i - 1], es[i])
Track(a, es, b) == \E f : IsTrack(f, a, es, b)

LEMMA AfterEventType ==
  ASSUME NEW a \in Spots, NEW e, EventFits(a, e)
  PROVE  AfterEvent(a, e) \in Spots
  BY DEF AfterEvent, EventFits, Spots

LEMMA TrackOfNothing ==
  ASSUME NEW a \in Spots
  PROVE  Track(a, <<>>, a) /\ \A b : Track(a, <<>>, b) => b = a
<1> DEFINE f == [i \in 0..0 |-> a]
<1>1. f \in [0..0 -> Spots] /\ f[0] = a /\ Len(<<>>) = 0
  OBVIOUS
<1> HIDE DEF f
<1>2. Track(a, <<>>, a)
  BY <1>1 DEF IsTrack, Track
<1>3. ASSUME NEW b, Track(a, <<>>, b) PROVE b = a
  BY <1>1, <1>3 DEF IsTrack, Track
<1> QED
  BY <1>2, <1>3

LEMMA TrackAppended ==
  ASSUME NEW es \in Seq(EventType), NEW e \in EventType, NEW a \in Spots, NEW b \in Spots, Track(a, es, b),
         EventFits(b, e)
  PROVE  Track(a, Append(es, e), AfterEvent(b, e))
<1> DEFINE n == Len(es)
           gs == Append(es, e)
           z == AfterEvent(b, e)
<1>1. PICK f : IsTrack(f, a, es, b)
  BY DEF Track
<1>2. n \in Nat /\ Len(gs) = n + 1 /\ gs[n + 1] = e /\ \A i \in 1..n : gs[i] = es[i]
  OBVIOUS
<1>3. /\ f \in [0..n -> Spots] /\ f[0] = a /\ f[n] = b
      /\ \A i \in 1..n : EventFits(f[i - 1], es[i]) /\ f[i] = AfterEvent(f[i - 1], es[i])
  BY <1>1 DEF IsTrack
<1>4. z \in Spots
  BY AfterEventType
<1> HIDE DEF z, n, gs
<1> DEFINE g == [i \in 0..n + 1 |-> IF i = n + 1 THEN z ELSE f[i]]
<1>5. g[n + 1] = z /\ \A i \in 0..n : g[i] = f[i]
  BY <1>2
<1>6. g \in [0..n + 1 -> Spots]
  BY <1>2, <1>3, <1>4
<1> HIDE DEF g
<1>7. ASSUME NEW i \in 1..n + 1 PROVE EventFits(g[i - 1], gs[i]) /\ g[i] = AfterEvent(g[i - 1], gs[i])
  <2>1. CASE i \in 1..n
    <3>1. i \in 0..n /\ i - 1 \in 0..n
      BY <1>2, <2>1
    <3> QED
      BY <1>2, <1>3, <1>5, <2>1, <3>1
  <2>2. CASE i = n + 1
    <3>1. i - 1 = n /\ n \in 0..n
      BY <1>2, <2>2
    <3>2. g[i - 1] = b /\ gs[i] = e /\ g[i] = z
      BY <1>2, <1>3, <1>5, <2>2, <3>1
    <3> QED
      BY <3>2 DEF z
  <2> QED
    BY <1>2, <2>1, <2>2
<1>8. 0 \in 0..n
  BY <1>2
<1>9. IsTrack(g, a, gs, z)
  BY <1>2, <1>3, <1>5, <1>6, <1>7, <1>8 DEF IsTrack
<1> QED
  BY <1>9 DEF Track, gs, z

LEMMA TrackFirst ==
  ASSUME NEW es \in Seq(EventType), es # <<>>, NEW a \in Spots, NEW b \in Spots, Track(a, es, b)
  PROVE  /\ EventFits(a, es[1]) /\ AfterEvent(a, es[1]) \in Spots
         /\ Track(AfterEvent(a, es[1]), Tail(es), b)
<1> DEFINE n == Len(es)
           gs == Tail(es)
           z == AfterEvent(a, es[1])
<1>1. PICK f : IsTrack(f, a, es, b)
  BY DEF Track
<1>2. n \in Nat /\ n > 0 /\ Len(gs) = n - 1 /\ \A i \in 1..n - 1 : gs[i] = es[i + 1]
  OBVIOUS
<1>3. /\ f \in [0..n -> Spots] /\ f[0] = a /\ f[n] = b
      /\ \A i \in 1..n : EventFits(f[i - 1], es[i]) /\ f[i] = AfterEvent(f[i - 1], es[i])
  BY <1>1 DEF IsTrack
<1> HIDE DEF n, gs
<1>4. 1 \in 1..n /\ 1 - 1 = 0
  BY <1>2
<1>5. EventFits(a, es[1]) /\ f[1] = z
  BY <1>3, <1>4
<1> HIDE DEF z
<1> DEFINE g == [i \in 0..n - 1 |-> f[i + 1]]
<1>6. g \in [0..n - 1 -> Spots] /\ g[0] = z /\ g[n - 1] = b /\ \A i \in 0..n - 1 : g[i] = f[i + 1]
  BY <1>2, <1>3, <1>5
<1> HIDE DEF g
<1>7. ASSUME NEW i \in 1..n - 1 PROVE EventFits(g[i - 1], gs[i]) /\ g[i] = AfterEvent(g[i - 1], gs[i])
  <2>1. i + 1 \in 1..n /\ (i + 1) - 1 = i /\ i - 1 \in 0..n - 1 /\ i \in 0..n - 1 /\ (i - 1) + 1 = i
    BY <1>2
  <2> QED
    BY <1>2, <1>3, <1>6, <2>1
<1>8. IsTrack(g, z, gs, b)
  BY <1>2, <1>6, <1>7 DEF IsTrack
<1>9. AfterEvent(a, es[1]) \in Spots
  BY <1>5, AfterEventType
<1> QED
  BY <1>5, <1>8, <1>9 DEF Track, gs, z

DeviceType ==
  [queue : QueueType, pendingInputEvents : Seq(EventType), touchContactActive : BOOLEAN,
   nextTouchTrackingID : 0..MaxTrackingID]

\* From u the pending events take the contact to where the queue goes on.
FramesOK(d, u) ==
  /\ d \in DeviceType
  /\ \E v \in Spots :
       /\ Track(u, d.pendingInputEvents, v) /\ v.down = d.touchContactActive /\ (v.down => v.at # NoPoint)
       /\ Chain(IF v.down THEN v.at ELSE NoPoint, d.queue.entries, d.queue.lastPoint)

\* The rest of a queue goes on where its first sample ends.
LEMMA ChainSplit ==
  ASSUME NEW es \in Seq(EntryType), NEW s \in Nat, NEW t, Chain(s, es, t), NEW n \in 0..Len(es)
  PROVE  /\ At(s, es, n) \in Nat /\ Chain(s, SubSeq(es, 1, n), At(s, es, n))
         /\ Chain(At(s, es, n), SubSeq(es, n + 1, Len(es)), t)
<1> DEFINE a == SubSeq(es, 1, n)
           b == SubSeq(es, n + 1, Len(es))
           u == At(s, es, n)
           m == Len(es)
<1>1. /\ \A i \in 1..m : Fits(At(s, es, i - 1), es[i])
      /\ \A i \in 1..m : i > 1 /\ es[i].phase \in Releases => ~Evictable(es[i - 1])
      /\ t = At(s, es, m)
  BY DEF Chain
<1>2. m \in Nat /\ n \in Nat /\ n <= m
  OBVIOUS
<1>3. a \in Seq(EntryType) /\ Len(a) = n /\ \A i \in 1..n : a[i] = es[i]
  OBVIOUS
<1>4. b \in Seq(EntryType) /\ Len(b) = m - n /\ \A i \in 1..m - n : b[i] = es[n + i]
  OBVIOUS
<1>5. u \in Nat
  <2>1. n # 0 => n \in 1..m /\ es[n] \in EntryType
    BY <1>2
  <2> QED
    BY <2>1 DEF At, After, EntryType, NoPoint
<1> HIDE DEF a, b, m
<1>6. Chain(s, a, u)
  <2>1. \A i \in 0..n : At(s, a, i) = At(s, es, i)
    BY <1>2, <1>3 DEF At
  <2>2. ASSUME NEW i \in 1..n
        PROVE  Fits(At(s, a, i - 1), a[i]) /\ (i > 1 /\ a[i].phase \in Releases => ~Evictable(a[i - 1]))
    <3>1. i - 1 \in 0..n /\ i \in 1..m /\ (i > 1 => i - 1 \in 1..n)
      BY <1>2
    <3> QED
      BY <1>1, <1>3, <2>1, <3>1
  <2>3. n \in 0..n
    BY <1>2
  <2> QED
    BY <1>3, <2>1, <2>2, <2>3 DEF Chain
<1>7. Chain(u, b, t)
  <2> HIDE DEF u
  <2>1. \A i \in 0..m - n : At(u, b, i) = At(s, es, n + i)
    <3> TAKE i \in 0..m - n
    <3>1. CASE i = 0
      <4>1. n + i = n
        BY <1>2, <3>1
      <4> QED
        BY <3>1, <4>1 DEF At, u
    <3>2. CASE i # 0
      <4>1. i \in 1..m - n /\ n + i # 0
        BY <1>2, <3>2
      <4> QED
        BY <1>4, <3>2, <4>1 DEF At
    <3> QED
      BY <3>1, <3>2
  <2>2. ASSUME NEW i \in 1..m - n
        PROVE  Fits(At(u, b, i - 1), b[i]) /\ (i > 1 /\ b[i].phase \in Releases => ~Evictable(b[i - 1]))
    <3>1. i - 1 \in 0..m - n /\ n + i \in 1..m /\ (i > 1 => i - 1 \in 1..m - n /\ n + i > 1)
          /\ n + (i - 1) = (n + i) - 1
      BY <1>2
    <3> QED
      BY <1>1, <1>4, <2>1, <3>1
  <2>3. m - n \in 0..m - n /\ n + (m - n) = m
    BY <1>2
  <2> QED
    BY <1>1, <1>4, <2>1, <2>2, <2>3 DEF Chain
<1> QED
  BY <1>5, <1>6, <1>7 DEF a, b, m


LEMMA EqualSequences ==
  ASSUME NEW T, NEW a \in Seq(T), NEW b \in Seq(T), Len(a) = Len(b), \A i \in 1..Len(a) : a[i] = b[i]
  PROVE  a = b
  OBVIOUS

\* Short sequences, one member after the other.
LEMMA OneMember ==
  ASSUME NEW T, NEW e \in T
  PROVE  <<e>> \in Seq(T) /\ <<>> \in Seq(T) /\ Append(<<>>, e) = <<e>>
  OBVIOUS

LEMMA TwoMembers ==
  ASSUME NEW T, NEW e \in T, NEW f \in T
  PROVE  <<e, f>> \in Seq(T) /\ Append(<<e>>, f) = <<e, f>>
<1>1. <<e>> \in Seq(T) /\ <<e, f>> \in Seq(T)
  OBVIOUS
<1>2. Append(<<e>>, f) \in Seq(T) /\ Len(Append(<<e>>, f)) = 2 /\ Len(<<e, f>>) = 2
  OBVIOUS
<1>3. \A i \in 1..2 : Append(<<e>>, f)[i] = <<e, f>>[i]
  OBVIOUS
<1> QED
  BY <1>1, <1>2, <1>3, EqualSequences

LEMMA ThreeMembers ==
  ASSUME NEW T, NEW e \in T, NEW f \in T, NEW g \in T
  PROVE  <<e, f, g>> \in Seq(T) /\ Append(<<e, f>>, g) = <<e, f, g>>
<1>1. <<e, f>> \in Seq(T) /\ <<e, f, g>> \in Seq(T)
  OBVIOUS
<1>2. Append(<<e, f>>, g) \in Seq(T) /\ Len(Append(<<e, f>>, g)) = 3 /\ Len(<<e, f, g>>) = 3
  OBVIOUS
<1>3. \A i \in 1..3 : Append(<<e, f>>, g)[i] = <<e, f, g>>[i]
  OBVIOUS
<1> QED
  BY <1>1, <1>2, <1>3, EqualSequences

LEMMA FourMembers ==
  ASSUME NEW T, NEW e \in T, NEW f \in T, NEW g \in T, NEW h \in T
  PROVE  <<e, f, g, h>> \in Seq(T) /\ Append(<<e, f, g>>, h) = <<e, f, g, h>>
<1>1. <<e, f, g>> \in Seq(T) /\ <<e, f, g, h>> \in Seq(T)
  OBVIOUS
<1>2. Append(<<e, f, g>>, h) \in Seq(T) /\ Len(Append(<<e, f, g>>, h)) = 4 /\ Len(<<e, f, g, h>>) = 4
  OBVIOUS
<1>3. \A i \in 1..4 : Append(<<e, f, g>>, h)[i] = <<e, f, g, h>>[i]
  OBVIOUS
<1> QED
  BY <1>1, <1>2, <1>3, EqualSequences

\* Events with no contact and no position change nothing.
Silent(e) == e \in EventType /\ e.kind \in {"time", "sync"}
LEMMA SilentFits ==
  ASSUME NEW a \in Spots, NEW e, Silent(e)
  PROVE  EventFits(a, e) /\ AfterEvent(a, e) = a /\ IsContact(e) = 0
  BY DEF Silent, EventFits, AfterEvent, Spots, IsContact

LEMMA TimeOnly ==
  ASSUME NEW u \in Spots, NEW e, Silent(e)
  PROVE  /\ <<e>> \in Seq(EventType) /\ Track(u, <<e>>, u)
         /\ ContactsIn(<<e>>) = 0
<1>1. e \in EventType /\ EventFits(u, e) /\ AfterEvent(u, e) = u /\ IsContact(e) = 0
  BY SilentFits DEF Silent
<1>2. Append(<<>>, e) = <<e>> /\ <<>> \in Seq(EventType)
  OBVIOUS
<1>3. Track(u, <<>>, u)
  BY TrackOfNothing
<1>4. Track(u, Append(<<>>, e), AfterEvent(u, e))
  BY <1>1, <1>2, <1>3, TrackAppended
<1> QED
  BY <1>1, <1>2, <1>4, ContactsOfEvent

\* Events that take the contact from u to v, with n contacts among them.
Frame(u, es, v, n) ==
  /\ u \in Spots /\ es \in Seq(EventType) /\ v \in Spots /\ Track(u, es, v)
  /\ n \in Nat /\ ContactsIn(es) = n

LEMMA FrameGrows ==
  ASSUME NEW u, NEW es, NEW v, NEW n, Frame(u, es, v, n), NEW e \in EventType, EventFits(v, e)
  PROVE  Frame(u, Append(es, e), AfterEvent(v, e), n + IsContact(e))
<1>1. u \in Spots /\ es \in Seq(EventType) /\ v \in Spots /\ Track(u, es, v) /\ n \in Nat /\ ContactsIn(es) = n
  BY DEF Frame
<1>2. Append(es, e) \in Seq(EventType) /\ IsContact(e) \in Nat
  BY <1>1 DEF IsContact
<1>3. AfterEvent(v, e) \in Spots /\ Track(u, Append(es, e), AfterEvent(v, e))
  BY <1>1, AfterEventType, TrackAppended
<1>4. ContactsIn(Append(es, e)) = n + IsContact(e)
  BY <1>1, ContactsAppended
<1>5. n + IsContact(e) \in Nat
  BY <1>1, <1>2
<1> QED
  BY <1>1, <1>2, <1>3, <1>4, <1>5 DEF Frame

\* A silent event in front of them or behind.
LEMMA FrameStarts ==
  ASSUME NEW u \in Spots, NEW e, Silent(e)
  PROVE  Frame(u, <<e>>, u, 0)
  BY TimeOnly DEF Frame

LEMMA FrameEnds ==
  ASSUME NEW u, NEW es, NEW v, NEW n, Frame(u, es, v, n), NEW e, Silent(e)
  PROVE  Frame(u, Append(es, e), v, n)
<1>1. EventFits(v, e) /\ AfterEvent(v, e) = v /\ IsContact(e) = 0 /\ e \in EventType /\ n \in Nat
  BY SilentFits DEF Frame, Silent
<1>2. Frame(u, Append(es, e), AfterEvent(v, e), n + IsContact(e))
  BY <1>1, FrameGrows
<1>3. n + IsContact(e) = n
  BY <1>1
<1> QED
  BY <1>1, <1>2, <1>3

LEMMA FrameOfOne ==
  ASSUME NEW u \in Spots, NEW e, Silent(e), NEW f, Silent(f), NEW g \in EventType, EventFits(u, g)
  PROVE  Frame(u, <<e, g, f>>, AfterEvent(u, g), IsContact(g))
<1> DEFINE x == <<e>>
           y == <<e, g>>
           z == <<e, g, f>>
<1>1. y = Append(x, g) /\ z = Append(y, f)
  BY TwoMembers, ThreeMembers DEF Silent
<1>2. Frame(u, x, u, 0)
  BY FrameStarts
<1>3. 0 + IsContact(g) = IsContact(g)
  BY DEF IsContact
<1> HIDE DEF x, y, z
<1>4. Frame(u, y, AfterEvent(u, g), IsContact(g))
  BY <1>1, <1>2, <1>3, FrameGrows
<1>5. Frame(u, z, AfterEvent(u, g), IsContact(g))
  BY <1>1, <1>4, FrameEnds
<1> QED
  BY <1>5 DEF z

LEMMA FrameOfTwo ==
  ASSUME NEW u \in Spots, NEW e, Silent(e), NEW f, Silent(f), NEW g \in EventType, EventFits(u, g),
         NEW h \in EventType, EventFits(AfterEvent(u, g), h)
  PROVE  Frame(u, <<e, g, h, f>>, AfterEvent(AfterEvent(u, g), h), IsContact(g) + IsContact(h))
<1> DEFINE x == <<e>>
           y == <<e, g>>
           z == <<e, g, h>>
           r == <<e, g, h, f>>
           v == AfterEvent(u, g)
           w == AfterEvent(v, h)
<1>1. y = Append(x, g) /\ z = Append(y, h) /\ r = Append(z, f)
  BY TwoMembers, ThreeMembers, FourMembers DEF Silent
<1>2. Frame(u, x, u, 0)
  BY FrameStarts
<1>3. 0 + IsContact(g) = IsContact(g)
  BY DEF IsContact
<1> HIDE DEF x, y, z, r
<1>4. Frame(u, y, v, IsContact(g))
  BY <1>1, <1>2, <1>3, FrameGrows
<1> HIDE DEF v
<1>5. Frame(u, z, w, IsContact(g) + IsContact(h))
  BY <1>1, <1>4, FrameGrows DEF v
<1> HIDE DEF w
<1>6. Frame(u, r, w, IsContact(g) + IsContact(h))
  BY <1>1, <1>5, FrameEnds
<1> QED
  BY <1>6 DEF r, v, w

LEMMA DrainKeeps ==
  ASSUME NEW q \in QueueType, NEW n \in 0..Len(q.entries), NEW r, r = Drain(q, n)
  PROVE  /\ r \in QueueType /\ SameButSamples(r, q) /\ r.discardedMotionCount = q.discardedMotionCount
         /\ r.entries = SubSeq(q.entries, n + 1, Len(q.entries)) /\ Len(r.entries) = Len(q.entries) - n
<1> DEFINE rest == SubSeq(q.entries, n + 1, Len(q.entries))
<1>1. q.entries \in Seq(EntryType)
  BY DEF QueueType
<1>2. rest \in Seq(EntryType) /\ Len(rest) = Len(q.entries) - n
  BY <1>1
<1>3. r = [q EXCEPT !.entries = rest]
  BY DEF Drain
<1> HIDE DEF rest
<1>4. r \in QueueType
  BY <1>2, <1>3 DEF QueueType
<1>5. /\ r.entries = rest /\ SameButSamples(r, q) /\ r.discardedMotionCount = q.discardedMotionCount
  BY <1>3 DEF QueueType, SameButSamples
<1> QED
  BY <1>2, <1>4, <1>5 DEF rest

Advanced(r, q) ==
  /\ r \in QueueType /\ SameButSamples(r, q) /\ r.discardedMotionCount = q.discardedMotionCount
  /\ Len(r.entries) <= Len(q.entries)

\* The next frame is staged: what the queue held, the events hold.
LEMMA StagingKeeps ==
  ASSUME NEW d, NEW u \in Spots, FramesOK(d, u), NEW r, r = StageNextTouchFrame(d)
  PROVE  /\ FramesOK(r, u) /\ Advanced(r.queue, d.queue)
         /\ ContactsIn(r.pendingInputEvents) + EdgesIn(r.queue.entries)
              = ContactsIn(d.pendingInputEvents) + EdgesIn(d.queue.entries)
<1> DEFINE q == d.queue
           es == q.entries
<1>1. d \in DeviceType /\ q \in QueueType /\ es \in Seq(EntryType)
  BY DEF FramesOK, DeviceType, QueueType
<1>2. CASE ~(d.pendingInputEvents = <<>> /\ es # <<>>)
  <2>1. r = d
    BY <1>2 DEF StageNextTouchFrame
  <2>2. Len(es) \in Nat
    BY <1>1
  <2> QED
    BY <1>1, <2>1, <2>2 DEF Advanced, SameButSamples
<1>3. CASE d.pendingInputEvents = <<>> /\ es # <<>>
  <2> DEFINE p == Drain(q, 1)
             e == es[1]
  <2>1. Len(es) \in Nat /\ Len(es) >= 1 /\ 1 \in 0..Len(es) /\ e \in EntryType
    BY <1>1, <1>3
  <2>2. /\ p \in QueueType /\ SameButSamples(p, q) /\ p.discardedMotionCount = q.discardedMotionCount
        /\ p.entries = SubSeq(es, 1 + 1, Len(es)) /\ Len(p.entries) = Len(es) - 1
    BY <1>1, <2>1, DrainKeeps
  <2>3. EdgesIn(es) = IsEdge(e) + EdgesIn(p.entries) /\ EdgesIn(p.entries) \in Nat
    <3>1. SubSeq(es, 1 + 1, Len(es)) = Tail(es)
      BY <1>1, <2>1
    <3> QED
      BY <1>1, <1>3, <2>2, <3>1, EdgesOfFirst, EdgesAreCounted DEF QueueType
  <2>4. Advanced(p, q)
    BY <2>1, <2>2 DEF Advanced
  <2>5. r = AppendTouchFrame([d EXCEPT !.queue = p], e)
    BY <1>3 DEF StageNextTouchFrame
  <2>6. ContactsIn(d.pendingInputEvents) = 0
    BY <1>3, ContactsOfNothing
  <2>7. PICK v \in Spots :
           /\ Track(u, d.pendingInputEvents, v) /\ v.down = d.touchContactActive /\ (v.down => v.at # NoPoint)
           /\ Chain(IF v.down THEN v.at ELSE NoPoint, es, q.lastPoint)
    BY DEF FramesOK
  <2>8. v = u
    BY <1>3, <2>7, TrackOfNothing
  <2> DEFINE s == IF u.down THEN u.at ELSE NoPoint
  <2>9. s \in Nat /\ u.down \in BOOLEAN /\ u.down = d.touchContactActive /\ (u.down => u.at # NoPoint) /\ u.at \in Nat
    BY <2>7, <2>8 DEF Spots, NoPoint
  <2>10. Fits(s, e) /\ Chain(After(e), p.entries, p.lastPoint)
    <3>1. Chain(s, es, q.lastPoint)
      BY <2>7, <2>8
    <3> HIDE DEF s
    <3>2. Fits(At(s, es, 1 - 1), e)
      BY <2>1, <3>1 DEF Chain
    <3>3. At(s, es, 1 - 1) = s /\ At(s, es, 1) = After(e)
      BY DEF At
    <3>4. Chain(At(s, es, 1), SubSeq(es, 1 + 1, Len(es)), q.lastPoint)
      BY <1>1, <2>1, <2>9, <3>1, ChainSplit
    <3> QED
      BY <2>2, <3>2, <3>3, <3>4 DEF SameButSamples
  <2> DEFINE time == Event("time", 0)
             position == Event("position", e.point)
  <2>11. Silent(time) /\ Silent(Sync) /\ position \in EventType /\ position.kind = "position" /\ position.value = e.point
         /\ e.point \in Nat /\ e.point # NoPoint /\ IsContact(position) = 0
    BY <2>1 DEF Event, Silent, Sync, EventType, EntryType, IsContact, NoPoint
  <2>12. d.pendingInputEvents = <<>> /\ d.touchContactActive \in BOOLEAN /\ d.nextTouchTrackingID \in 0..MaxTrackingID
         /\ MaxTrackingID \in Nat \ {0}
    BY <1>1, <1>3, CapacityAssumption DEF DeviceType
  <2>13. ASSUME NEW new \in Seq(EventType), NEW active \in BOOLEAN, NEW id \in 0..MaxTrackingID,
                r = [queue |-> p, pendingInputEvents |-> new, touchContactActive |-> active, nextTouchTrackingID |-> id],
                NEW w \in Spots, Track(u, new, w), w.down = active, w.down => w.at # NoPoint,
                (IF w.down THEN w.at ELSE NoPoint) = After(e), ContactsIn(new) = IsEdge(e)
         PROVE  /\ FramesOK(r, u) /\ Advanced(r.queue, d.queue)
                /\ ContactsIn(r.pendingInputEvents) + EdgesIn(r.queue.entries)
                     = ContactsIn(d.pendingInputEvents) + EdgesIn(d.queue.entries)
    <3> HIDE DEF p, q, es, e
    <3>1. r \in DeviceType
      BY <2>2, <2>13 DEF DeviceType
    <3>2. FramesOK(r, u)
      BY <2>10, <2>13, <3>1 DEF FramesOK
    <3>3. IsEdge(e) \in Nat
      BY DEF IsEdge
    <3>4. r.queue = p /\ r.pendingInputEvents = new /\ d.queue = q /\ d.queue.entries = es
      BY <2>13 DEF q, es
    <3> QED
      BY <2>3, <2>4, <2>6, <2>13, <3>2, <3>3, <3>4
  <2>14. d = [queue |-> q, pendingInputEvents |-> <<>>, touchContactActive |-> d.touchContactActive,
              nextTouchTrackingID |-> d.nextTouchTrackingID]
    BY <1>1, <2>12 DEF DeviceType
  <2> HIDE DEF p, q, es, e
  <2>15. CASE IsDown(e.phase) /\ ~d.touchContactActive
    <3> DEFINE contact == Event("contact", d.nextTouchTrackingID)
               new == <<time, contact, position, Sync>>
               id == NextTrackingID(d.nextTouchTrackingID)
               w == AfterEvent(AfterEvent(u, contact), position)
    <3>1. r = [queue |-> p, pendingInputEvents |-> <<>> \o new, touchContactActive |-> TRUE, nextTouchTrackingID |-> id]
      BY <2>5, <2>12, <2>14, <2>15 DEF AppendTouchFrame
    <3>2. <<>> \o new = new
      OBVIOUS
    <3>3. id \in 0..MaxTrackingID
      BY <2>12 DEF NextTrackingID
    <3>4. contact \in EventType /\ contact.kind = "contact" /\ contact.value = d.nextTouchTrackingID /\ IsContact(contact) = 1
      BY <2>12 DEF Event, EventType, IsContact, NoPoint
    <3>5. EventFits(u, contact) /\ AfterEvent(u, contact) = [down |-> TRUE, at |-> u.at]
      <4> HIDE DEF contact
      <4>1. contact.value \in NoContact..MaxTrackingID /\ contact.value # NoContact
        BY <2>12, <3>4 DEF NoContact
      <4>2. ~u.down
        BY <2>9, <2>15
      <4>3. EventFits(u, contact)
        BY <3>4, <4>1, <4>2 DEF EventFits
      <4>4. AfterEvent(u, contact) = [down |-> TRUE, at |-> u.at]
        BY <3>4, <4>1 DEF AfterEvent
      <4> QED
        BY <4>3, <4>4
    <3>6. EventFits(AfterEvent(u, contact), position) /\ w = [down |-> TRUE, at |-> e.point]
      <4> HIDE DEF contact, position
      <4> QED
        BY <2>11, <3>5 DEF EventFits, AfterEvent
    <3>7. w \in Spots /\ w.down /\ w.at = e.point
      <4> HIDE DEF w
      <4> QED
        BY <2>11, <3>6 DEF Spots
    <3> HIDE DEF contact, position, time
    <3>8. new \in Seq(EventType) /\ Track(u, new, w) /\ ContactsIn(new) = 1
      <4>1. Frame(u, new, w, IsContact(contact) + IsContact(position))
        BY <2>11, <3>4, <3>5, <3>6, FrameOfTwo
      <4> QED
        BY <2>11, <3>4, <4>1 DEF Frame
    <3>9. After(e) = e.point /\ IsEdge(e) = 1
      <4>1. e.phase = "down"
        BY <2>9, <2>10, <2>15 DEF Fits, IsDown
      <4> QED
        BY <4>1 DEF After, IsDown, IsEdge
    <3> HIDE DEF new, id, w
    <3> QED
      BY <2>11, <2>13, <3>1, <3>2, <3>3, <3>7, <3>8, <3>9
  <2>16. CASE IsDown(e.phase) /\ d.touchContactActive
    <3> DEFINE new == <<time, position, Sync>>
               w == AfterEvent(u, position)
    <3>1. r = [queue |-> p, pendingInputEvents |-> <<>> \o new, touchContactActive |-> d.touchContactActive,
               nextTouchTrackingID |-> d.nextTouchTrackingID]
      BY <2>5, <2>12, <2>14, <2>16 DEF AppendTouchFrame
    <3>2. <<>> \o new = new
      OBVIOUS
    <3>3. EventFits(u, position) /\ w = [down |-> TRUE, at |-> e.point]
      <4> HIDE DEF position
      <4> QED
        BY <2>9, <2>11, <2>16 DEF EventFits, AfterEvent
    <3>4. w \in Spots /\ w.down /\ w.at = e.point
      <4> HIDE DEF w
      <4> QED
        BY <2>11, <3>3 DEF Spots
    <3> HIDE DEF position, time
    <3>5. new \in Seq(EventType) /\ Track(u, new, w) /\ ContactsIn(new) = 0
      <4>1. Frame(u, new, w, IsContact(position))
        BY <2>11, <3>3, FrameOfOne
      <4> QED
        BY <2>11, <4>1 DEF Frame
    <3>6. After(e) = e.point /\ IsEdge(e) = 0
      <4>1. e.phase = "move"
        BY <2>9, <2>10, <2>16 DEF Fits, IsDown
      <4> QED
        BY <4>1 DEF After, IsDown, IsEdge
    <3> HIDE DEF new, w
    <3> QED
      BY <2>11, <2>12, <2>13, <2>16, <3>1, <3>2, <3>4, <3>5, <3>6
  <2>17. CASE ~IsDown(e.phase)
    <3> DEFINE release == Release(e.point)
               new == <<time, release, Sync>>
               w == AfterEvent(u, release)
    <3>1. e.phase \in Releases /\ d.touchContactActive /\ e.point = u.at /\ u.down
      BY <2>1, <2>9, <2>10, <2>17 DEF Fits, IsDown, Releases, EntryType, Edges
    <3>2. r = [queue |-> p, pendingInputEvents |-> <<>> \o new, touchContactActive |-> FALSE,
               nextTouchTrackingID |-> d.nextTouchTrackingID]
      BY <2>5, <2>12, <2>14, <2>17, <3>1 DEF AppendTouchFrame
    <3>3. <<>> \o new = new
      OBVIOUS
    <3>4. release \in EventType /\ release.kind = "contact" /\ release.value = NoContact /\ release.at = e.point
          /\ IsContact(release) = 1
      BY <2>11 DEF Release, EventType, IsContact, NoContact
    <3>5. EventFits(u, release) /\ w = [down |-> FALSE, at |-> u.at]
      <4> HIDE DEF release
      <4>1. release.value \in NoContact..MaxTrackingID
        BY <2>12, <3>4 DEF NoContact
      <4>2. EventFits(u, release)
        BY <3>1, <3>4, <4>1 DEF EventFits
      <4>3. w = [down |-> FALSE, at |-> u.at]
        BY <3>4 DEF AfterEvent
      <4> QED
        BY <4>2, <4>3
    <3>6. w \in Spots /\ w.down = FALSE
      <4> HIDE DEF w
      <4> QED
        BY <2>9, <3>5 DEF Spots
    <3> HIDE DEF release, time
    <3>7. new \in Seq(EventType) /\ Track(u, new, w) /\ ContactsIn(new) = 1
      <4>1. Frame(u, new, w, IsContact(release))
        BY <2>11, <3>4, <3>5, FrameOfOne
      <4> QED
        BY <3>4, <4>1 DEF Frame
    <3>8. After(e) = NoPoint /\ IsEdge(e) = 1
      BY <3>1 DEF After, IsDown, Releases, IsEdge
    <3> HIDE DEF new, w
    <3> QED
      BY <2>12, <2>13, <3>2, <3>3, <3>6, <3>7, <3>8
  <2> QED
    BY <2>12, <2>15, <2>16, <2>17
<1> QED
  BY <1>2, <1>3

-----------------------------------------------------------------------------
(* The invariant of the pipeline.                                          *)

\* The queues keep their bounds, and the device's has dropped nothing.
QueuesKept ==
  /\ QueueWithin(hostQueue, HostCapacity, MotionLimit) /\ QueueWithin(device.queue, DeviceCapacity, 0)
  /\ DeviceNeverDrops

\* The device's queue, the batch and the first queue are one gesture after the
\* other; only a reset leaves the device without the press of the one under way.
InOrder ==
  \E m, n \in Nat :
    /\ Chain(m, runner.batch, n) /\ Chain(n, hostQueue.entries, hostQueue.lastPoint)
    /\ device.queue.lastPoint \in {NoPoint, m}
    /\ touchResets = 0 => device.queue.lastPoint = m

\* The room that the runtime loop has read is still there when it uses it.
RoomIsKept ==
  /\ Len(device.queue.entries) <= DeviceCapacity - 2
  /\ runner.step = "inject" => Len(device.queue.entries) + Len(runner.batch) <= DeviceCapacity - 2
  /\ runner.step # "inject" => runner.batch = <<>>
  /\ runner.step = "drain" /\ runner.capacity > 0 =>
        Len(device.queue.entries) + runner.capacity <= DeviceCapacity - 2
  /\ processing.by = "runner" => runner.step = "processing"

\* What the guest knows of the contact.
SpotOf(g) == [down |-> g.contact # NoContact, at |-> g.point]

\* The events in the ring and in the device lead from what the guest knows to
\* where the device's queue goes on.
EventsInOrder == \E u \in Spots : Track(SpotOf(guest), usedEvents, u) /\ FramesOK(device, u)

\* A buffer is available or holds an event.
BuffersCounted ==
  /\ buffers + Len(usedEvents) = IF touchReady THEN RingSize ELSE 0
  /\ processing.available <= buffers
  /\ processing.by = "nobody" => processing.available = 0

TouchInvariant ==
  /\ TouchTypes /\ QueuesKept /\ InOrder /\ RoomIsKept /\ EventsInOrder /\ BuffersCounted /\ EdgesConserved

LEMMA TouchConstants ==
  /\ HostCapacity \in Nat /\ DeviceCapacity \in Nat /\ MotionLimit \in Nat /\ RingSize \in Nat /\ MaxTrackingID \in Nat
  /\ HostCapacity >= 4 /\ DeviceCapacity >= 4
  /\ Touches \subseteq TouchType
  BY CapacityAssumption, TouchesAssumption DEF TouchType

LEMMA EmptyQueueType ==
  ASSUME NEW c \in Nat, NEW l \in Nat
  PROVE  /\ EmptyQueue(c, l) \in QueueType /\ QueueWithin(EmptyQueue(c, l), c, l)
         /\ EmptyQueue(c, l).entries = <<>> /\ EmptyQueue(c, l).lastPoint = NoPoint
         /\ EmptyQueue(c, l).discardedMotionCount = 0 /\ EmptyQueue(c, l).rejectedGestureCount = 0
         /\ EmptyQueue(c, l).rejectingContact = FALSE
<1>1. <<>> \in Seq(EntryType) /\ Len(<<>>) = 0
  OBVIOUS
<1> QED
  BY <1>1 DEF EmptyQueue, QueueType, QueueWithin, NoPoint

\* A new device has nothing to say.
LEMMA NewDeviceQuiet ==
  ASSUME NEW u \in Spots, u.down = FALSE
  PROVE  /\ NewDevice \in DeviceType /\ FramesOK(NewDevice, u)
         /\ QueueWithin(NewDevice.queue, DeviceCapacity, 0)
         /\ NewDevice.queue.entries = <<>> /\ NewDevice.queue.lastPoint = NoPoint
         /\ NewDevice.queue.discardedMotionCount = 0 /\ NewDevice.queue.rejectedGestureCount = 0
         /\ NewDevice.queue.rejectingContact = FALSE /\ NewDevice.pendingInputEvents = <<>>
<1> DEFINE q == EmptyQueue(DeviceCapacity, 0)
<1>1. /\ q \in QueueType /\ QueueWithin(q, DeviceCapacity, 0) /\ q.entries = <<>> /\ q.lastPoint = NoPoint
      /\ q.discardedMotionCount = 0 /\ q.rejectedGestureCount = 0 /\ q.rejectingContact = FALSE
  BY TouchConstants, EmptyQueueType
<1> HIDE DEF q
<1>2. NewDevice = [queue |-> q, pendingInputEvents |-> <<>>, touchContactActive |-> FALSE, nextTouchTrackingID |-> 0]
  BY DEF NewDevice, q
<1>3. NewDevice \in DeviceType
  BY <1>1, <1>2, TouchConstants DEF DeviceType
<1>4. Track(u, <<>>, u)
  BY TrackOfNothing
<1>5. Chain(NoPoint, <<>>, NoPoint)
  BY ChainNowhere
<1>6. FramesOK(NewDevice, u)
  BY <1>1, <1>2, <1>3, <1>4, <1>5 DEF FramesOK
<1> QED
  BY <1>1, <1>2, <1>3, <1>6

LEMMA TouchInitially == TouchInit => TouchInvariant
<1> SUFFICES ASSUME TouchInit PROVE TouchInvariant
  OBVIOUS
<1> DEFINE u == SpotOf(guest)
<1>1. u \in Spots /\ u.down = FALSE
  BY DEF TouchInit, NewGuest, SpotOf, Spots, NoContact, NoPoint
<1> HIDE DEF u
<1>2. /\ NewDevice \in DeviceType /\ FramesOK(NewDevice, u)
      /\ QueueWithin(NewDevice.queue, DeviceCapacity, 0)
      /\ NewDevice.queue.entries = <<>> /\ NewDevice.queue.lastPoint = NoPoint
      /\ NewDevice.queue.discardedMotionCount = 0 /\ NewDevice.queue.rejectedGestureCount = 0
      /\ NewDevice.queue.rejectingContact = FALSE /\ NewDevice.pendingInputEvents = <<>>
  BY <1>1, NewDeviceQuiet
<1>3. /\ EmptyQueue(HostCapacity, MotionLimit) \in QueueType
      /\ QueueWithin(EmptyQueue(HostCapacity, MotionLimit), HostCapacity, MotionLimit)
      /\ EmptyQueue(HostCapacity, MotionLimit).entries = <<>> /\ EmptyQueue(HostCapacity, MotionLimit).lastPoint = NoPoint
  BY TouchConstants, EmptyQueueType
<1>4. TouchTypes
  <2>1. hostQueue \in QueueType /\ device \in DeviceType
    BY <1>2, <1>3 DEF TouchInit
  <2>2. runner \in [step : {"idle", "drain", "inject", "processing"}, capacity : Nat, batch : Seq(EntryType)]
    BY DEF TouchInit
  <2>3. /\ processing \in [by : {"nobody", "runner", "vcpu"}, available : Nat, delivered : Nat]
        /\ driver \in [inISR : BOOLEAN, kick : BOOLEAN]
    BY DEF TouchInit, NotProcessing
  <2>4. guest \in [contact : NoContact..MaxTrackingID, point : Nat, edges : Nat]
    BY TouchConstants DEF TouchInit, NewGuest, NoContact, NoPoint
  <2>5. buffers \in 0..RingSize /\ usedEvents \in Seq(EventType)
    BY TouchConstants DEF TouchInit
  <2> QED
    BY <2>1, <2>2, <2>3, <2>4, <2>5 DEF TouchInit, TouchTypes, DeviceType
<1>5. QueuesKept
  BY <1>2, <1>3 DEF TouchInit, QueuesKept, DeviceNeverDrops
<1>6. InOrder
  <2>1. Chain(NoPoint, <<>>, NoPoint) /\ NoPoint \in Nat
    BY ChainNowhere DEF NoPoint
  <2>2. /\ Chain(NoPoint, runner.batch, NoPoint) /\ Chain(NoPoint, hostQueue.entries, hostQueue.lastPoint)
        /\ device.queue.lastPoint = NoPoint
    BY <1>2, <1>3, <2>1 DEF TouchInit
  <2> QED
    BY <2>1, <2>2 DEF InOrder
<1>7. RoomIsKept
  BY <1>2, TouchConstants DEF TouchInit, RoomIsKept, NotProcessing
<1>8. EventsInOrder
  BY <1>1, <1>2, TrackOfNothing DEF TouchInit, EventsInOrder, u
<1>9. BuffersCounted
  BY DEF TouchInit, BuffersCounted, NotProcessing
<1>10. EdgesConserved
  <2>1. ContactsIn(<<>>) = 0 /\ EdgesIn(<<>>) = 0
    BY ContactsOfNothing, EdgesOfNothing
  <2>2. /\ usedEvents = <<>> /\ device.pendingInputEvents = <<>> /\ device.queue.entries = <<>> /\ runner.batch = <<>>
        /\ hostQueue.entries = <<>> /\ acceptedEdges = 0 /\ guest.edges = 0
    BY <1>2, <1>3 DEF TouchInit, NewGuest
  <2> QED
    BY <2>1, <2>2 DEF EdgesConserved
<1> QED
  BY <1>4, <1>5, <1>6, <1>7, <1>8, <1>9, <1>10 DEF TouchInvariant

\* The counts that the invariant adds up.
LEMMA TouchFacts ==
  ASSUME TouchInvariant
  PROVE  /\ hostQueue \in QueueType /\ device \in DeviceType /\ device.queue \in QueueType
         /\ device.pendingInputEvents \in Seq(EventType) /\ usedEvents \in Seq(EventType)
         /\ hostQueue.entries \in Seq(EntryType) /\ device.queue.entries \in Seq(EntryType)
         /\ runner.batch \in Seq(EntryType) /\ runner.capacity \in Nat
         /\ Len(hostQueue.entries) \in Nat /\ Len(device.queue.entries) \in Nat /\ Len(runner.batch) \in Nat
         /\ Len(usedEvents) \in Nat
         /\ EdgesIn(hostQueue.entries) \in Nat /\ EdgesIn(device.queue.entries) \in Nat /\ EdgesIn(runner.batch) \in Nat
         /\ ContactsIn(usedEvents) \in Nat /\ ContactsIn(device.pendingInputEvents) \in Nat
         /\ guest.edges \in Nat /\ acceptedEdges \in Nat /\ SpotOf(guest) \in Spots
<1>1. TouchTypes
  BY DEF TouchInvariant
<1>2. /\ hostQueue \in QueueType /\ device \in DeviceType
      /\ runner.batch \in Seq(EntryType) /\ runner.capacity \in Nat /\ usedEvents \in Seq(EventType)
      /\ guest \in [contact : NoContact..MaxTrackingID, point : Nat, edges : Nat] /\ acceptedEdges \in Nat
  BY <1>1 DEF TouchTypes, DeviceType
<1>3. device.queue \in QueueType /\ device.pendingInputEvents \in Seq(EventType)
  BY <1>2 DEF DeviceType
<1>4. hostQueue.entries \in Seq(EntryType) /\ device.queue.entries \in Seq(EntryType)
  BY <1>2, <1>3 DEF QueueType
<1>5. ContactsIn(usedEvents) \in Nat /\ ContactsIn(device.pendingInputEvents) \in Nat
  BY <1>2, <1>3, ContactsAreCounted
<1>6. SpotOf(guest) \in Spots
  BY <1>2 DEF SpotOf, Spots
<1>7. /\ EdgesIn(hostQueue.entries) \in Nat /\ EdgesIn(device.queue.entries) \in Nat /\ EdgesIn(runner.batch) \in Nat
  BY <1>2, <1>4, EdgesAreCounted
<1>8. Len(hostQueue.entries) \in Nat /\ Len(device.queue.entries) \in Nat /\ Len(runner.batch) \in Nat
  BY <1>2, <1>4
<1>9. Len(usedEvents) \in Nat /\ guest.edges \in Nat
  BY <1>2
<1> QED
  BY <1>2, <1>3, <1>4, <1>5, <1>6, <1>7, <1>8, <1>9

-----------------------------------------------------------------------------
(* Every step keeps the invariant.                                         *)

LEMMA HostTakesTouch ==
  ASSUME TouchInvariant, NEW touch \in Touches, QueueTouch(touch)
  PROVE  TouchInvariant'
<1> DEFINE r == Enqueue(hostQueue, touch)
           edge == IF r.accepted /\ PhaseOf(hostQueue, touch) # "move" THEN 1 ELSE 0
<1>1. /\ hostQueue \in QueueType /\ EdgesIn(hostQueue.entries) \in Nat /\ acceptedEdges \in Nat
      /\ guest.edges \in Nat /\ ContactsIn(usedEvents) \in Nat /\ ContactsIn(device.pendingInputEvents) \in Nat
      /\ EdgesIn(device.queue.entries) \in Nat /\ EdgesIn(runner.batch) \in Nat
  BY TouchFacts
<1>2. /\ hostQueue' = r.queue /\ acceptedEdges' = acceptedEdges + edge /\ sent' = sent + 1
      /\ runner' = runner /\ device' = device /\ processing' = processing /\ touchReady' = touchReady
      /\ touchInterrupt' = touchInterrupt /\ buffers' = buffers /\ usedEvents' = usedEvents /\ driver' = driver
      /\ guest' = guest /\ touchResets' = touchResets
  BY DEF QueueTouch, virtio, guestSide
<1>3. PICK m \in Nat, n \in Nat :
        /\ Chain(m, runner.batch, n) /\ Chain(n, hostQueue.entries, hostQueue.lastPoint)
        /\ device.queue.lastPoint \in {NoPoint, m} /\ (touchResets = 0 => device.queue.lastPoint = m)
  BY DEF TouchInvariant, InOrder
<1>4. GestureQueue(hostQueue, n, HostCapacity, MotionLimit)
  BY <1>1, <1>3 DEF TouchInvariant, QueuesKept, GestureQueue
<1>5. GoesOn(r, hostQueue, n, HostCapacity, MotionLimit, edge)
  BY <1>4, TouchConstants, EnqueueGoesOn
<1> HIDE DEF r
<1>6. edge \in {0, 1}
  OBVIOUS
<1> HIDE DEF edge
<1>7. /\ hostQueue' \in QueueType /\ QueueWithin(hostQueue', HostCapacity, MotionLimit)
      /\ Chain(n, hostQueue'.entries, hostQueue'.lastPoint)
      /\ EdgesIn(hostQueue'.entries) = EdgesIn(hostQueue.entries) + edge
  BY <1>2, <1>5 DEF GoesOn, GestureQueue
<1>8. TouchTypes'
  <2>1. sent' \in Nat /\ acceptedEdges' \in Nat
    BY <1>1, <1>2, <1>6 DEF TouchInvariant, TouchTypes
  <2> QED
    BY <1>2, <1>7, <2>1 DEF TouchInvariant, TouchTypes
<1>9. QueuesKept'
  BY <1>2, <1>7 DEF TouchInvariant, QueuesKept, DeviceNeverDrops
<1>10. InOrder'
  <2>1. /\ Chain(m, runner'.batch, n) /\ Chain(n, hostQueue'.entries, hostQueue'.lastPoint)
        /\ device'.queue.lastPoint \in {NoPoint, m} /\ (touchResets' = 0 => device'.queue.lastPoint = m)
    BY <1>2, <1>3, <1>7
  <2> QED
    BY <2>1 DEF InOrder
<1>11. RoomIsKept' /\ BuffersCounted'
  BY <1>2 DEF TouchInvariant, RoomIsKept, BuffersCounted
<1>12. EventsInOrder'
  BY <1>2 DEF TouchInvariant, EventsInOrder
<1>13. EdgesConserved'
  BY <1>1, <1>2, <1>6, <1>7 DEF TouchInvariant, EdgesConserved
<1> QED
  BY <1>8, <1>9, <1>10, <1>11, <1>12, <1>13 DEF TouchInvariant

LEMMA CapacityIsRead ==
  ASSUME TouchInvariant, ReadCapacity
  PROVE  TouchInvariant'
<1> DEFINE room == AvailableTouchSampleCapacity
<1>1. /\ Len(device.queue.entries) \in Nat /\ DeviceCapacity \in Nat
  BY TouchFacts, TouchConstants
<1>2. room \in Nat /\ (room > 0 => Len(device.queue.entries) + room <= DeviceCapacity - 2)
  <2> DEFINE left == DeviceCapacity - Len(device.queue.entries) - 2
  <2>1. left \in Int /\ Len(device.queue.entries) + left = DeviceCapacity - 2
    BY <1>1
  <2>2. room = IF left > 0 THEN left ELSE 0
    BY DEF AvailableTouchSampleCapacity
  <2> HIDE DEF left, room
  <2> QED
    BY <1>1, <2>1, <2>2
<1> HIDE DEF room
<1>3. /\ runner.step = "idle" /\ runner' = [runner EXCEPT !.step = "drain", !.capacity = room] /\ DeviceLockFree
      /\ hostQueue' = hostQueue /\ sent' = sent /\ acceptedEdges' = acceptedEdges
      /\ device' = device /\ processing' = processing /\ touchReady' = touchReady
      /\ touchInterrupt' = touchInterrupt /\ buffers' = buffers /\ usedEvents' = usedEvents /\ driver' = driver
      /\ guest' = guest /\ touchResets' = touchResets
  BY DEF ReadCapacity, room, ui, virtio, guestSide
<1>4. /\ runner' \in [step : {"idle", "drain", "inject", "processing"}, capacity : Nat, batch : Seq(EntryType)]
      /\ runner'.step = "drain" /\ runner'.capacity = room /\ runner'.batch = runner.batch
  BY <1>2, <1>3 DEF TouchInvariant, TouchTypes
<1>5. TouchTypes'
  BY <1>3, <1>4 DEF TouchInvariant, TouchTypes
<1>6. QueuesKept' /\ BuffersCounted' /\ EventsInOrder'
  BY <1>3 DEF TouchInvariant, QueuesKept, DeviceNeverDrops, BuffersCounted, EventsInOrder
<1>7. InOrder' /\ EdgesConserved'
  BY <1>3, <1>4 DEF TouchInvariant, InOrder, EdgesConserved
<1>8. RoomIsKept'
  BY <1>2, <1>3, <1>4 DEF TouchInvariant, RoomIsKept, DeviceLockFree
<1> QED
  BY <1>5, <1>6, <1>7, <1>8 DEF TouchInvariant

LEMMA BatchIsDrained ==
  ASSUME TouchInvariant, DrainTouches
  PROVE  TouchInvariant'
<1> DEFINE count == Len(hostQueue.entries)
           k == IF runner.capacity < count THEN runner.capacity ELSE count
           first == SubSeq(hostQueue.entries, 1, k)
           rest == SubSeq(hostQueue.entries, k + 1, count)
           next == IF k = 0 THEN "idle" ELSE "inject"
<1>1. /\ hostQueue \in QueueType /\ hostQueue.entries \in Seq(EntryType) /\ EdgesIn(hostQueue.entries) \in Nat
      /\ count \in Nat /\ runner.capacity \in Nat /\ Len(device.queue.entries) \in Nat /\ DeviceCapacity \in Nat
      /\ acceptedEdges \in Nat
      /\ guest.edges \in Nat /\ ContactsIn(usedEvents) \in Nat /\ ContactsIn(device.pendingInputEvents) \in Nat
      /\ EdgesIn(device.queue.entries) \in Nat
  BY TouchFacts, TouchConstants
<1>2. k \in 0..count /\ k <= runner.capacity
  BY <1>1
<1>3. /\ runner.step = "drain" /\ hostQueue' = Drain(hostQueue, k)
      /\ runner' = [runner EXCEPT !.step = next, !.capacity = 0, !.batch = first]
      /\ sent' = sent /\ acceptedEdges' = acceptedEdges
      /\ device' = device /\ processing' = processing /\ touchReady' = touchReady
      /\ touchInterrupt' = touchInterrupt /\ buffers' = buffers /\ usedEvents' = usedEvents /\ driver' = driver
      /\ guest' = guest /\ touchResets' = touchResets
  BY DEF DrainTouches, virtio, guestSide
<1>4. first \in Seq(EntryType) /\ Len(first) = k /\ (k = 0 => first = <<>>)
  BY <1>1, <1>2
<1>5. next \in {"idle", "inject"} /\ (next = "inject" => k > 0) /\ (next = "idle" => k = 0)
  BY <1>1, <1>2
<1> HIDE DEF k
<1>6. /\ hostQueue' \in QueueType /\ SameButSamples(hostQueue', hostQueue)
      /\ hostQueue'.entries = rest /\ Len(hostQueue'.entries) = count - k
  BY <1>1, <1>2, <1>3, DrainKeeps
<1>7. runner.batch = <<>>
  BY <1>3 DEF TouchInvariant, RoomIsKept
<1>8. PICK m \in Nat, n \in Nat :
        /\ Chain(m, runner.batch, n) /\ Chain(n, hostQueue.entries, hostQueue.lastPoint)
        /\ device.queue.lastPoint \in {NoPoint, m} /\ (touchResets = 0 => device.queue.lastPoint = m)
  BY DEF TouchInvariant, InOrder
<1>9. n = m
  <2>1. Len(<<>>) = 0
    OBVIOUS
  <2> QED
    BY <1>7, <1>8, <2>1 DEF Chain, At
<1> DEFINE u == At(m, hostQueue.entries, k)
<1>10. u \in Nat /\ Chain(m, first, u) /\ Chain(u, rest, hostQueue.lastPoint)
  BY <1>1, <1>2, <1>8, <1>9, ChainSplit
<1>11. EdgesIn(hostQueue.entries) = EdgesIn(first) + EdgesIn(rest)
  BY <1>1, <1>2, EdgesOfParts
<1> HIDE DEF first, rest, next, u, count
<1>12. /\ runner' \in [step : {"idle", "drain", "inject", "processing"}, capacity : Nat, batch : Seq(EntryType)]
       /\ runner'.step = next /\ runner'.capacity = 0 /\ runner'.batch = first
  <2>1. runner \in [step : {"idle", "drain", "inject", "processing"}, capacity : Nat, batch : Seq(EntryType)]
    BY DEF TouchInvariant, TouchTypes
  <2> QED
    BY <1>3, <1>4, <1>5, <2>1
<1>13. TouchTypes'
  BY <1>3, <1>6, <1>12 DEF TouchInvariant, TouchTypes
<1>14. QueuesKept'
  <2>1. QueueWithin(hostQueue, HostCapacity, MotionLimit) /\ QueueWithin(device.queue, DeviceCapacity, 0) /\ DeviceNeverDrops
    BY DEF TouchInvariant, QueuesKept
  <2>2. QueueWithin(hostQueue', HostCapacity, MotionLimit)
    <3>1. count <= HostCapacity - IF hostQueue.active THEN 2 ELSE 0
      BY <2>1 DEF QueueWithin, count
    <3>2. HostCapacity \in Nat /\ hostQueue.active \in BOOLEAN
      BY <1>1, TouchConstants DEF QueueType
    <3>3. Len(hostQueue'.entries) <= HostCapacity - IF hostQueue.active THEN 2 ELSE 0
      BY <1>1, <1>2, <1>6, <3>1, <3>2
    <3> QED
      BY <1>6, <2>1, <3>3 DEF QueueWithin, SameButSamples
  <2> QED
    BY <1>3, <2>1, <2>2 DEF QueuesKept, DeviceNeverDrops
<1>15. InOrder'
  <2>1. /\ Chain(m, runner'.batch, u) /\ Chain(u, hostQueue'.entries, hostQueue'.lastPoint)
        /\ device'.queue.lastPoint \in {NoPoint, m} /\ (touchResets' = 0 => device'.queue.lastPoint = m)
    BY <1>3, <1>6, <1>8, <1>10, <1>12 DEF SameButSamples
  <2> QED
    BY <1>10, <2>1 DEF InOrder
<1>16. RoomIsKept'
  <2>1. /\ Len(device.queue.entries) <= DeviceCapacity - 2
        /\ runner.capacity > 0 => Len(device.queue.entries) + runner.capacity <= DeviceCapacity - 2
        /\ processing.by # "runner"
    BY <1>3 DEF TouchInvariant, RoomIsKept
  <2>2. ASSUME next = "inject" PROVE Len(device.queue.entries) + Len(first) <= DeviceCapacity - 2
    <3> DEFINE waiting == Len(device.queue.entries)
               room == runner.capacity
    <3>1. waiting \in Nat /\ room \in Nat /\ DeviceCapacity \in Nat /\ k \in Nat /\ k > 0 /\ k <= room
      BY <1>1, <1>2, <1>5, <2>2
    <3>2. room > 0 => waiting + room <= DeviceCapacity - 2
      BY <2>1
    <3> HIDE DEF waiting, room
    <3>3. waiting + k <= DeviceCapacity - 2
      BY <3>1, <3>2
    <3> QED
      BY <1>4, <3>3 DEF waiting
  <2>3. next # "inject" => first = <<>>
    BY <1>4, <1>5
  <2> QED
    BY <1>3, <1>12, <2>1, <2>2, <2>3 DEF RoomIsKept
<1>17. EventsInOrder' /\ BuffersCounted'
  BY <1>3 DEF TouchInvariant, EventsInOrder, BuffersCounted
<1>18. EdgesConserved'
  <2>1. EdgesIn(runner.batch) = 0
    BY <1>7, EdgesOfNothing
  <2>2. EdgesIn(first) \in Nat /\ EdgesIn(rest) \in Nat
    BY <1>4, <1>6, EdgesAreCounted DEF QueueType
  <2>3. /\ runner'.batch = first /\ hostQueue'.entries = rest /\ device' = device /\ usedEvents' = usedEvents
        /\ acceptedEdges' = acceptedEdges /\ guest' = guest /\ touchResets' = touchResets
    BY <1>3, <1>6, <1>12
  <2>4. touchResets = 0 =>
          acceptedEdges = guest.edges + ContactsIn(usedEvents) + ContactsIn(device.pendingInputEvents)
                          + EdgesIn(device.queue.entries) + 0 + EdgesIn(hostQueue.entries)
    BY <2>1 DEF TouchInvariant, EdgesConserved
  <2>5. touchResets = 0 =>
          acceptedEdges = guest.edges + ContactsIn(usedEvents) + ContactsIn(device.pendingInputEvents)
                          + EdgesIn(device.queue.entries) + EdgesIn(first) + EdgesIn(rest)
    BY <1>1, <1>11, <2>2, <2>4
  <2> QED
    BY <2>3, <2>5 DEF EdgesConserved
<1> QED
  BY <1>13, <1>14, <1>15, <1>16, <1>17, <1>18 DEF TouchInvariant

-----------------------------------------------------------------------------
(* The steps in which the device stages samples.                           *)

LEMMA AtMost ==
  ASSUME NEW x \in Int, NEW y \in Int, NEW z \in Int, x <= y, y <= z
  PROVE  x <= z
  OBVIOUS

LEMMA FewerSamples ==
  ASSUME NEW q \in QueueType, NEW r \in QueueType, NEW c \in Nat, NEW l \in Nat, QueueWithin(q, c, l),
         SameButSamples(r, q), Len(r.entries) <= Len(q.entries)
  PROVE  QueueWithin(r, c, l)
<1> DEFINE x == Len(r.entries)
           y == Len(q.entries)
           z == c - IF q.active THEN 2 ELSE 0
<1>1. y <= z
  BY DEF QueueWithin
<1>2. x \in Int /\ y \in Int
  <2>1. r.entries \in Seq(EntryType) /\ q.entries \in Seq(EntryType)
    BY DEF QueueType
  <2> QED
    BY <2>1
<1>3. z \in Int
  BY DEF QueueType
<1> HIDE DEF y, z
<1>4. x <= z
  BY <1>1, <1>2, <1>3, AtMost DEF y
<1> QED
  BY <1>4 DEF QueueWithin, SameButSamples, z

LEMMA DeviceTakesTouches ==
  ASSUME TouchInvariant, EnqueueTouches
  PROVE  TouchInvariant'
<1> DEFINE q == device.queue
           w == EnqueueAll(q, runner.batch)
           d == [device EXCEPT !.queue = w]
           r == StageNextTouchFrame(d)
           available == IF touchReady /\ r.pendingInputEvents # <<>> THEN buffers ELSE 0
<1>1. /\ hostQueue \in QueueType /\ device \in DeviceType /\ q \in QueueType
      /\ device.pendingInputEvents \in Seq(EventType) /\ usedEvents \in Seq(EventType)
      /\ runner.batch \in Seq(EntryType) /\ Len(runner.batch) \in Nat /\ Len(q.entries) \in Nat
      /\ EdgesIn(hostQueue.entries) \in Nat /\ EdgesIn(q.entries) \in Nat /\ EdgesIn(runner.batch) \in Nat
      /\ ContactsIn(usedEvents) \in Nat /\ ContactsIn(device.pendingInputEvents) \in Nat
      /\ guest.edges \in Nat /\ acceptedEdges \in Nat /\ DeviceCapacity \in Nat
  BY TouchFacts, TouchConstants
<1>2. /\ runner.step = "inject" /\ DeviceLockFree
      /\ runner' = [runner EXCEPT !.step = "processing", !.batch = <<>>]
      /\ device' = r /\ processing' = [by |-> "runner", delivered |-> 0, available |-> available]
      /\ hostQueue' = hostQueue /\ sent' = sent /\ acceptedEdges' = acceptedEdges /\ touchReady' = touchReady
      /\ touchInterrupt' = touchInterrupt /\ buffers' = buffers /\ usedEvents' = usedEvents /\ driver' = driver
      /\ guest' = guest /\ touchResets' = touchResets
  BY DEF EnqueueTouches, StartProcessing, ui, virtio, guestSide
<1>3. PICK m \in Nat, n \in Nat :
        /\ Chain(m, runner.batch, n) /\ Chain(n, hostQueue.entries, hostQueue.lastPoint)
        /\ device.queue.lastPoint \in {NoPoint, m} /\ (touchResets = 0 => device.queue.lastPoint = m)
  BY DEF TouchInvariant, InOrder
<1>4. PICK u \in Spots : Track(SpotOf(guest), usedEvents, u) /\ FramesOK(device, u)
  BY DEF TouchInvariant, EventsInOrder
<1>5. PICK v \in Spots :
        /\ Track(u, device.pendingInputEvents, v) /\ v.down = device.touchContactActive /\ (v.down => v.at # NoPoint)
        /\ Chain(IF v.down THEN v.at ELSE NoPoint, device.queue.entries, device.queue.lastPoint)
  BY <1>4 DEF FramesOK
<1> DEFINE s == IF v.down THEN v.at ELSE NoPoint
<1>6. s \in Nat
  BY DEF Spots, NoPoint
<1> HIDE DEF s
<1>7. Receives(q, s, m) /\ Len(q.entries) + Len(runner.batch) <= DeviceCapacity - 2
  BY <1>1, <1>2, <1>3, <1>5 DEF TouchInvariant, QueuesKept, DeviceNeverDrops, RoomIsKept, Receives, GestureQueue, s
<1>8. /\ Receives(w, s, n) /\ Len(w.entries) <= Len(q.entries) + Len(runner.batch)
      /\ q.lastPoint = m => w.lastPoint = n /\ EdgesIn(w.entries) = EdgesIn(q.entries) + EdgesIn(runner.batch)
  <2>1. runner.batch \in Seq(EntryType) /\ Chain(m, runner.batch, n)
    BY <1>1, <1>3
  <2>2. BatchFits(q, s, m, runner.batch, n)
    BY <1>6, <1>7, <2>1 DEF BatchFits
  <2> HIDE DEF q, d, r, available
  <2>3. Receives(EnqueueAll(q, runner.batch), s, n)
    BY <2>2, BatchIsTaken
  <2>4. Len(EnqueueAll(q, runner.batch).entries) <= Len(q.entries) + Len(runner.batch)
    BY <2>2, BatchIsTaken
  <2>5. ASSUME q.lastPoint = m
        PROVE  EnqueueAll(q, runner.batch).lastPoint = n
    BY <2>2, <2>5, BatchIsTaken
  <2>6. ASSUME q.lastPoint = m
        PROVE  EdgesIn(EnqueueAll(q, runner.batch).entries) = EdgesIn(q.entries) + EdgesIn(runner.batch)
    BY <2>2, <2>6, BatchIsTaken
  <2> QED
    BY <2>3, <2>4, <2>5, <2>6
<1> HIDE DEF w
<1>9. /\ w \in QueueType /\ QueueWithin(w, DeviceCapacity, 0) /\ Chain(s, w.entries, w.lastPoint)
      /\ w.lastPoint \in {NoPoint, n}
      /\ w.discardedMotionCount = 0 /\ w.rejectedGestureCount = 0 /\ ~w.rejectingContact
  BY <1>8 DEF Receives, GestureQueue
<1>10. /\ d \in DeviceType /\ d.queue = w /\ d.pendingInputEvents = device.pendingInputEvents
       /\ d.touchContactActive = device.touchContactActive
  BY <1>1, <1>9 DEF DeviceType
<1> HIDE DEF d, q
<1>11. FramesOK(d, u)
  BY <1>5, <1>9, <1>10 DEF FramesOK, s
<1>12. /\ FramesOK(r, u) /\ Advanced(r.queue, d.queue)
       /\ ContactsIn(r.pendingInputEvents) + EdgesIn(r.queue.entries)
            = ContactsIn(d.pendingInputEvents) + EdgesIn(d.queue.entries)
  BY <1>11, StagingKeeps
<1>13. buffers \in Nat
  BY TouchConstants DEF TouchInvariant, TouchTypes
<1>14. available \in Nat /\ available <= buffers
  BY <1>13
<1> HIDE DEF r, available
<1>15. /\ r \in DeviceType /\ r.queue \in QueueType /\ SameButSamples(r.queue, w) /\ r.queue.discardedMotionCount = 0
       /\ Len(r.queue.entries) <= Len(w.entries)
  BY <1>9, <1>10, <1>12 DEF FramesOK, Advanced
<1>16. Len(w.entries) \in Nat /\ Len(r.queue.entries) \in Nat /\ Len(r.queue.entries) <= DeviceCapacity - 2
  <2>1. w.entries \in Seq(EntryType) /\ r.queue.entries \in Seq(EntryType)
    BY <1>9, <1>15 DEF QueueType
  <2>2. Len(w.entries) \in Nat /\ Len(r.queue.entries) \in Nat
    BY <2>1
  <2> QED
    <3>1. Len(q.entries) + Len(runner.batch) \in Int /\ DeviceCapacity - 2 \in Int
      BY <1>1
    <3>2. Len(w.entries) <= DeviceCapacity - 2
      <4> DEFINE most == Len(q.entries) + Len(runner.batch)
      <4>1. most \in Int /\ Len(w.entries) <= most /\ most <= DeviceCapacity - 2
        BY <1>7, <1>8, <3>1
      <4> HIDE DEF most
      <4> QED
        BY <2>2, <3>1, <4>1, AtMost
    <3> QED
      BY <1>15, <2>2, <3>1, <3>2, AtMost
<1>17. /\ runner' \in [step : {"idle", "drain", "inject", "processing"}, capacity : Nat, batch : Seq(EntryType)]
       /\ runner'.step = "processing" /\ runner'.batch = <<>>
  <2>1. runner \in [step : {"idle", "drain", "inject", "processing"}, capacity : Nat, batch : Seq(EntryType)]
    BY DEF TouchInvariant, TouchTypes
  <2>2. runner' = [runner EXCEPT !.step = "processing", !.batch = <<>>] /\ <<>> \in Seq(EntryType)
    BY <1>2
  <2> QED
    BY <2>1, <2>2
<1>18. processing' \in [by : {"nobody", "runner", "vcpu"}, available : Nat, delivered : Nat]
  BY <1>2, <1>14
<1>19. TouchTypes'
  BY <1>2, <1>15, <1>17, <1>18 DEF TouchInvariant, TouchTypes, DeviceType
<1>20. QueuesKept'
  <2>1. QueueWithin(r.queue, DeviceCapacity, 0)
    BY <1>1, <1>9, <1>15, 0 \in Nat, FewerSamples
  <2>2. r.queue.rejectedGestureCount = 0 /\ ~r.queue.rejectingContact
    BY <1>9, <1>15 DEF SameButSamples
  <2> QED
    BY <1>2, <1>15, <2>1, <2>2 DEF TouchInvariant, QueuesKept, DeviceNeverDrops
<1>21. InOrder'
  <2>1. r.queue.lastPoint = w.lastPoint
    BY <1>15 DEF SameButSamples
  <2>2. Chain(n, <<>>, n)
    BY ChainNowhere
  <2>3. /\ Chain(n, runner'.batch, n) /\ Chain(n, hostQueue'.entries, hostQueue'.lastPoint)
        /\ device'.queue.lastPoint \in {NoPoint, n} /\ (touchResets' = 0 => device'.queue.lastPoint = n)
    BY <1>2, <1>3, <1>8, <1>9, <1>17, <2>1, <2>2 DEF q
  <2> QED
    BY <2>3 DEF InOrder
<1>22. RoomIsKept'
  BY <1>2, <1>16, <1>17 DEF RoomIsKept
<1>23. EventsInOrder'
  BY <1>2, <1>4, <1>12 DEF EventsInOrder
<1>24. BuffersCounted'
  BY <1>2, <1>14 DEF TouchInvariant, BuffersCounted
<1>25. EdgesConserved'
  <2>1. EdgesIn(<<>>) = 0
    BY EdgesOfNothing
  <2>2. ContactsIn(r.pendingInputEvents) \in Nat /\ EdgesIn(r.queue.entries) \in Nat /\ EdgesIn(w.entries) \in Nat
    BY <1>9, <1>15, ContactsAreCounted, EdgesAreCounted DEF DeviceType, QueueType
  <2>3. touchResets = 0 =>
          acceptedEdges = guest.edges + ContactsIn(usedEvents) + ContactsIn(device.pendingInputEvents)
                          + EdgesIn(q.entries) + EdgesIn(runner.batch) + EdgesIn(hostQueue.entries)
    BY DEF TouchInvariant, EdgesConserved, q
  <2>4. touchResets = 0 =>
          acceptedEdges = guest.edges + ContactsIn(usedEvents) + ContactsIn(r.pendingInputEvents)
                          + EdgesIn(r.queue.entries) + 0 + EdgesIn(hostQueue.entries)
    <3> SUFFICES ASSUME touchResets = 0
                 PROVE  acceptedEdges = guest.edges + ContactsIn(usedEvents) + ContactsIn(r.pendingInputEvents)
                          + EdgesIn(r.queue.entries) + 0 + EdgesIn(hostQueue.entries)
      OBVIOUS
    <3>1. EdgesIn(w.entries) = EdgesIn(q.entries) + EdgesIn(runner.batch)
      BY <1>3, <1>8 DEF q
    <3>2. ContactsIn(r.pendingInputEvents) + EdgesIn(r.queue.entries)
            = ContactsIn(device.pendingInputEvents) + EdgesIn(w.entries)
      BY <1>10, <1>12
    <3>3. acceptedEdges = guest.edges + ContactsIn(usedEvents) + ContactsIn(device.pendingInputEvents)
                          + EdgesIn(q.entries) + EdgesIn(runner.batch) + EdgesIn(hostQueue.entries)
      BY <2>3
    <3>4. /\ EdgesIn(w.entries) \in Nat /\ EdgesIn(q.entries) \in Nat /\ EdgesIn(runner.batch) \in Nat
          /\ EdgesIn(hostQueue.entries) \in Nat /\ guest.edges \in Nat /\ ContactsIn(usedEvents) \in Nat
          /\ ContactsIn(device.pendingInputEvents) \in Nat
      BY <1>1, <2>2
    <3> QED
      BY <2>2, <3>1, <3>2, <3>3, <3>4
  <2>5. /\ runner'.batch = <<>> /\ hostQueue' = hostQueue /\ device' = r /\ usedEvents' = usedEvents
        /\ acceptedEdges' = acceptedEdges /\ guest' = guest /\ touchResets' = touchResets
    BY <1>2, <1>17
  <2> QED
    BY <2>1, <2>4, <2>5 DEF EdgesConserved
<1> QED
  BY <1>19, <1>20, <1>21, <1>22, <1>23, <1>24, <1>25 DEF TouchInvariant

LEMMA StagedQueueKept ==
  ASSUME TouchInvariant, NEW r, r \in DeviceType, Advanced(r.queue, device.queue), device' = r,
         hostQueue' = hostQueue, runner'.batch = runner.batch, runner'.step = runner.step,
         runner'.capacity = runner.capacity, touchResets' = touchResets
  PROVE  /\ QueuesKept' /\ InOrder' /\ device' \in DeviceType
         /\ Len(device'.queue.entries) \in Nat /\ Len(device'.queue.entries) <= DeviceCapacity - 2
         /\ runner'.step = "inject" => Len(device'.queue.entries) + Len(runner'.batch) <= DeviceCapacity - 2
         /\ runner'.step # "inject" => runner'.batch = <<>>
         /\ runner'.step = "drain" /\ runner'.capacity > 0 =>
              Len(device'.queue.entries) + runner'.capacity <= DeviceCapacity - 2
<1> DEFINE q == device.queue
           w == r.queue
<1>1. /\ q \in QueueType /\ Len(q.entries) \in Nat /\ Len(runner.batch) \in Nat /\ runner.capacity \in Nat
      /\ DeviceCapacity \in Nat
  BY TouchFacts, TouchConstants
<1>2. w \in QueueType /\ SameButSamples(w, q) /\ w.discardedMotionCount = q.discardedMotionCount
      /\ Len(w.entries) <= Len(q.entries)
  BY DEF Advanced
<1>3. Len(w.entries) \in Nat
  <2>1. w.entries \in Seq(EntryType)
    BY <1>2 DEF QueueType
  <2> QED
    BY <2>1
<1>4. QueueWithin(q, DeviceCapacity, 0) /\ QueueWithin(hostQueue, HostCapacity, MotionLimit)
      /\ q.discardedMotionCount = 0 /\ q.rejectedGestureCount = 0 /\ ~q.rejectingContact
  BY DEF TouchInvariant, QueuesKept, DeviceNeverDrops
<1>5. /\ Len(q.entries) <= DeviceCapacity - 2
      /\ runner.step = "inject" => Len(q.entries) + Len(runner.batch) <= DeviceCapacity - 2
      /\ runner.step # "inject" => runner.batch = <<>>
      /\ runner.step = "drain" /\ runner.capacity > 0 => Len(q.entries) + runner.capacity <= DeviceCapacity - 2
  BY DEF TouchInvariant, RoomIsKept
<1>6. device'.queue = w
  OBVIOUS
<1>7. QueueWithin(w, DeviceCapacity, 0)
  BY <1>1, <1>2, <1>4, 0 \in Nat, FewerSamples
<1>8. InOrder'
  <2>1. w.lastPoint = q.lastPoint
    BY <1>2 DEF SameButSamples
  <2> QED
    BY <1>6, <2>1 DEF TouchInvariant, InOrder
<1> HIDE DEF q, w
<1>9. QueuesKept'
  BY <1>2, <1>4, <1>6, <1>7 DEF QueuesKept, DeviceNeverDrops, SameButSamples
<1>10. Len(w.entries) <= DeviceCapacity - 2
  BY <1>1, <1>2, <1>3, <1>5
<1>11. runner.step = "inject" => Len(w.entries) + Len(runner.batch) <= DeviceCapacity - 2
  <2> DEFINE x == Len(w.entries)
             y == Len(q.entries)
             b == Len(runner.batch)
  <2>1. x \in Nat /\ y \in Nat /\ b \in Nat /\ x <= y /\ (runner.step = "inject" => y + b <= DeviceCapacity - 2)
    BY <1>1, <1>2, <1>3, <1>5
  <2> HIDE DEF x, y, b
  <2>2. runner.step = "inject" => x + b <= DeviceCapacity - 2
    BY <1>1, <2>1
  <2> QED
    BY <2>2 DEF x, b
<1>12. runner.step = "drain" /\ runner.capacity > 0 => Len(w.entries) + runner.capacity <= DeviceCapacity - 2
  BY <1>1, <1>2, <1>3, <1>5
<1>13. device'.queue.entries = w.entries
  BY <1>6
<1> QED
  BY <1>3, <1>5, <1>8, <1>9, <1>10, <1>11, <1>12, <1>13

LEMMA DeviceCounts ==
  ASSUME NEW r \in DeviceType
  PROVE  ContactsIn(r.pendingInputEvents) \in Nat /\ EdgesIn(r.queue.entries) \in Nat
  BY ContactsAreCounted, EdgesAreCounted DEF DeviceType, QueueType

LEMMA EventsAreNotified ==
  ASSUME TouchInvariant, NotifyEvents
  PROVE  TouchInvariant'
<1>1. /\ DeviceLockFree /\ driver.kick /\ driver' = [driver EXCEPT !.kick = FALSE]
      /\ IF touchReady THEN StartProcessing("vcpu", device) ELSE device' = device /\ processing' = processing
      /\ hostQueue' = hostQueue /\ sent' = sent /\ acceptedEdges' = acceptedEdges /\ touchReady' = touchReady
      /\ touchInterrupt' = touchInterrupt /\ buffers' = buffers /\ usedEvents' = usedEvents /\ runner' = runner
      /\ guest' = guest /\ touchResets' = touchResets
  BY DEF NotifyEvents, ui, virtio
<1>2. PICK u \in Spots : Track(SpotOf(guest), usedEvents, u) /\ FramesOK(device, u)
  BY DEF TouchInvariant, EventsInOrder
<1>3. /\ device \in DeviceType /\ device.queue \in QueueType
      /\ device.pendingInputEvents \in Seq(EventType)
      /\ EdgesIn(hostQueue.entries) \in Nat /\ EdgesIn(device.queue.entries) \in Nat /\ EdgesIn(runner.batch) \in Nat
      /\ ContactsIn(usedEvents) \in Nat /\ ContactsIn(device.pendingInputEvents) \in Nat
      /\ guest.edges \in Nat /\ Len(device.queue.entries) \in Nat
  BY TouchFacts
<1>4. buffers \in Nat /\ processing \in [by : {"nobody", "runner", "vcpu"}, available : Nat, delivered : Nat]
      /\ processing.available <= buffers /\ processing.by = "nobody"
      /\ (processing.by = "nobody" => processing.available = 0)
  BY <1>1, TouchConstants DEF TouchInvariant, TouchTypes, BuffersCounted, DeviceLockFree
<1>5. /\ FramesOK(device', u) /\ Advanced(device'.queue, device.queue)
      /\ ContactsIn(device'.pendingInputEvents) + EdgesIn(device'.queue.entries)
           = ContactsIn(device.pendingInputEvents) + EdgesIn(device.queue.entries)
  <2>1. CASE touchReady
    <3>1. device' = StageNextTouchFrame(device)
      BY <1>1, <2>1 DEF StartProcessing
    <3> QED
      BY <1>2, <3>1, StagingKeeps
  <2>2. CASE ~touchReady
    <3>1. device' = device
      BY <1>1, <2>2
    <3>2. Advanced(device.queue, device.queue)
      BY <1>3 DEF Advanced, SameButSamples
    <3> QED
      BY <1>2, <3>1, <3>2
  <2> QED
    BY <2>1, <2>2
<1>6. /\ processing' \in [by : {"nobody", "runner", "vcpu"}, available : Nat, delivered : Nat]
      /\ processing'.by \in {"nobody", "vcpu"} /\ processing'.available <= buffers
      /\ (processing'.by = "nobody" => processing'.available = 0)
  <2>1. CASE touchReady
    <3> DEFINE k == IF touchReady /\ StageNextTouchFrame(device).pendingInputEvents # <<>> THEN buffers ELSE 0
    <3>1. processing' = [by |-> "vcpu", delivered |-> 0, available |-> k]
      BY <1>1, <2>1 DEF StartProcessing
    <3>2. k \in Nat /\ k <= buffers
      BY <1>4
    <3> HIDE DEF k
    <3> QED
      BY <3>1, <3>2
  <2>2. CASE ~touchReady
    BY <1>1, <1>4, <2>2
  <2> QED
    BY <2>1, <2>2
<1>7. /\ QueuesKept' /\ InOrder' /\ device' \in DeviceType
      /\ Len(device'.queue.entries) <= DeviceCapacity - 2
      /\ runner'.step = "inject" => Len(device'.queue.entries) + Len(runner'.batch) <= DeviceCapacity - 2
      /\ runner'.step # "inject" => runner'.batch = <<>>
      /\ runner'.step = "drain" /\ runner'.capacity > 0 =>
           Len(device'.queue.entries) + runner'.capacity <= DeviceCapacity - 2
  <2> DEFINE r == device'
  <2>1. r \in DeviceType /\ Advanced(r.queue, device.queue) /\ device' = r
    BY <1>5 DEF FramesOK
  <2>2. /\ hostQueue' = hostQueue /\ runner'.batch = runner.batch /\ runner'.step = runner.step
        /\ runner'.capacity = runner.capacity /\ touchResets' = touchResets
    BY <1>1
  <2> HIDE DEF r
  <2> QED
    BY <2>1, <2>2, StagedQueueKept
<1>8. TouchTypes'
  <2>1. driver' \in [inISR : BOOLEAN, kick : BOOLEAN]
    BY <1>1 DEF TouchInvariant, TouchTypes
  <2> QED
    BY <1>1, <1>6, <1>7, <2>1 DEF TouchInvariant, TouchTypes, DeviceType
<1>9. RoomIsKept'
  BY <1>6, <1>7 DEF RoomIsKept
<1>10. EventsInOrder'
  BY <1>1, <1>2, <1>5 DEF EventsInOrder
<1>11. BuffersCounted'
  BY <1>1, <1>6 DEF TouchInvariant, BuffersCounted
<1>12. EdgesConserved'
  <2>1. SUFFICES ASSUME touchResets = 0
                 PROVE  acceptedEdges = guest.edges + ContactsIn(usedEvents) + ContactsIn(device'.pendingInputEvents)
                          + EdgesIn(device'.queue.entries) + EdgesIn(runner.batch) + EdgesIn(hostQueue.entries)
    BY <1>1 DEF EdgesConserved
  <2>2. acceptedEdges = guest.edges + ContactsIn(usedEvents) + ContactsIn(device.pendingInputEvents)
                          + EdgesIn(device.queue.entries) + EdgesIn(runner.batch) + EdgesIn(hostQueue.entries)
    BY <2>1 DEF TouchInvariant, EdgesConserved
  <2>3. ContactsIn(device'.pendingInputEvents) \in Nat /\ EdgesIn(device'.queue.entries) \in Nat
    BY <1>7, DeviceCounts
  <2>4. ContactsIn(device'.pendingInputEvents) + EdgesIn(device'.queue.entries)
          = ContactsIn(device.pendingInputEvents) + EdgesIn(device.queue.entries)
    BY <1>5
  <2> DEFINE p == ContactsIn(device'.pendingInputEvents)
             x == EdgesIn(device'.queue.entries)
             o == ContactsIn(device.pendingInputEvents)
             y == EdgesIn(device.queue.entries)
             g == guest.edges
             w == ContactsIn(usedEvents)
             b == EdgesIn(runner.batch)
             h == EdgesIn(hostQueue.entries)
  <2>5. /\ p \in Nat /\ x \in Nat /\ o \in Nat /\ y \in Nat /\ g \in Nat /\ w \in Nat /\ b \in Nat /\ h \in Nat
        /\ p + x = o + y /\ acceptedEdges = g + w + o + y + b + h
    BY <1>3, <2>2, <2>3, <2>4
  <2> HIDE DEF p, x, o, y, g, w, b, h
  <2>6. acceptedEdges = g + w + p + x + b + h
    BY <2>5
  <2> QED
    BY <2>6 DEF g, w, p, x, b, h
<1> QED
  BY <1>7, <1>8, <1>9, <1>10, <1>11, <1>12 DEF TouchInvariant

LEMMA EventIsDelivered ==
  ASSUME TouchInvariant, DeliverEvent
  PROVE  TouchInvariant'
<1> DEFINE pending == device.pendingInputEvents
           event == pending[1]
           d == [device EXCEPT !.pendingInputEvents = Tail(@)]
<1>1. /\ processing.available > 0 /\ pending # <<>> /\ buffers' = buffers - 1
      /\ usedEvents' = Append(usedEvents, Head(pending)) /\ device' = StageNextTouchFrame(d)
      /\ processing' = [processing EXCEPT !.available = @ - 1, !.delivered = @ + 1]
      /\ hostQueue' = hostQueue /\ sent' = sent /\ acceptedEdges' = acceptedEdges /\ touchReady' = touchReady
      /\ touchInterrupt' = touchInterrupt /\ driver' = driver /\ runner' = runner
      /\ guest' = guest /\ touchResets' = touchResets
  BY DEF DeliverEvent, ui, virtio
<1>2. PICK u \in Spots : Track(SpotOf(guest), usedEvents, u) /\ FramesOK(device, u)
  BY DEF TouchInvariant, EventsInOrder
<1>3. PICK v \in Spots :
        /\ Track(u, pending, v) /\ v.down = device.touchContactActive /\ (v.down => v.at # NoPoint)
        /\ Chain(IF v.down THEN v.at ELSE NoPoint, device.queue.entries, device.queue.lastPoint)
  BY <1>2 DEF FramesOK
<1>4. /\ device \in DeviceType /\ device.queue \in QueueType
      /\ pending \in Seq(EventType) /\ usedEvents \in Seq(EventType) /\ Len(usedEvents) \in Nat
      /\ EdgesIn(hostQueue.entries) \in Nat /\ EdgesIn(device.queue.entries) \in Nat /\ EdgesIn(runner.batch) \in Nat
      /\ ContactsIn(usedEvents) \in Nat /\ ContactsIn(pending) \in Nat
      /\ guest.edges \in Nat /\ SpotOf(guest) \in Spots /\ RingSize \in Nat
  BY TouchFacts, TouchConstants
<1>5. Head(pending) = event /\ event \in EventType /\ Tail(pending) \in Seq(EventType)
  BY <1>1, <1>4
<1> DEFINE w == AfterEvent(u, event)
<1>6. EventFits(u, event) /\ w \in Spots /\ Track(w, Tail(pending), v)
  BY <1>1, <1>3, <1>4, TrackFirst
<1>7. Track(SpotOf(guest), Append(usedEvents, event), w)
  BY <1>2, <1>4, <1>5, <1>6, TrackAppended
<1>8. /\ ContactsIn(pending) = IsContact(event) + ContactsIn(Tail(pending)) /\ ContactsIn(Tail(pending)) \in Nat
      /\ ContactsIn(Append(usedEvents, event)) = ContactsIn(usedEvents) + IsContact(event)
      /\ IsContact(event) \in Nat
  BY <1>1, <1>4, <1>5, ContactsOfFirst, ContactsAppended DEF IsContact
<1>9. Append(usedEvents, event) \in Seq(EventType) /\ Len(Append(usedEvents, event)) = Len(usedEvents) + 1
  BY <1>4, <1>5
<1> HIDE DEF w
<1>10. /\ d \in DeviceType /\ d.queue = device.queue /\ d.pendingInputEvents = Tail(pending)
       /\ d.touchContactActive = device.touchContactActive
  <2> HIDE DEF event
  <2> QED
    BY <1>4, <1>5 DEF DeviceType
<1> HIDE DEF d, event, pending
<1>11. FramesOK(d, w)
  BY <1>3, <1>6, <1>10 DEF FramesOK
<1>12. /\ FramesOK(device', w) /\ Advanced(device'.queue, d.queue)
       /\ ContactsIn(device'.pendingInputEvents) + EdgesIn(device'.queue.entries)
            = ContactsIn(d.pendingInputEvents) + EdgesIn(d.queue.entries)
  BY <1>1, <1>6, <1>11, StagingKeeps
<1>13. /\ QueuesKept' /\ InOrder' /\ device' \in DeviceType
       /\ Len(device'.queue.entries) <= DeviceCapacity - 2
       /\ runner'.step = "inject" => Len(device'.queue.entries) + Len(runner'.batch) <= DeviceCapacity - 2
       /\ runner'.step # "inject" => runner'.batch = <<>>
       /\ runner'.step = "drain" /\ runner'.capacity > 0 =>
            Len(device'.queue.entries) + runner'.capacity <= DeviceCapacity - 2
  <2> DEFINE r == device'
  <2>1. r \in DeviceType /\ Advanced(r.queue, device.queue) /\ device' = r
    BY <1>10, <1>12 DEF FramesOK
  <2>2. /\ hostQueue' = hostQueue /\ runner'.batch = runner.batch /\ runner'.step = runner.step
        /\ runner'.capacity = runner.capacity /\ touchResets' = touchResets
    BY <1>1
  <2> HIDE DEF r
  <2> QED
    BY <2>1, <2>2, StagedQueueKept
<1>14. /\ processing \in [by : {"nobody", "runner", "vcpu"}, available : Nat, delivered : Nat]
       /\ buffers \in 0..RingSize /\ processing.available <= buffers /\ processing.by # "nobody"
       /\ buffers + Len(usedEvents) = IF touchReady THEN RingSize ELSE 0
  BY <1>1 DEF TouchInvariant, TouchTypes, BuffersCounted
<1>15. /\ processing' \in [by : {"nobody", "runner", "vcpu"}, available : Nat, delivered : Nat]
       /\ processing'.by = processing.by /\ processing'.available = processing.available - 1
  <2> DEFINE x == processing.available - 1
             y == processing.delivered + 1
  <2>1. x \in Nat /\ y \in Nat
    BY <1>1, <1>14
  <2>2. processing' = [processing EXCEPT !.available = x, !.delivered = y]
    BY <1>1
  <2> HIDE DEF x, y
  <2>3. processing'.by = processing.by /\ processing'.available = x
    BY <1>14, <2>2
  <2>4. processing' \in [by : {"nobody", "runner", "vcpu"}, available : Nat, delivered : Nat]
    BY <1>14, <2>1, <2>2
  <2> QED
    BY <2>3, <2>4 DEF x
<1>16. buffers' \in 0..RingSize /\ processing'.available <= buffers'
  <2> DEFINE left == processing.available
  <2>1. left \in Nat /\ left > 0 /\ left <= buffers /\ buffers \in 0..RingSize /\ RingSize \in Nat
    BY <1>1, <1>4, <1>14
  <2>2. processing'.available = left - 1 /\ buffers' = buffers - 1
    BY <1>1, <1>15
  <2> HIDE DEF left
  <2> QED
    BY <2>1, <2>2
<1>17. usedEvents' = Append(usedEvents, event)
  BY <1>1, <1>5
<1>18. TouchTypes'
  BY <1>1, <1>9, <1>13, <1>15, <1>16, <1>17 DEF TouchInvariant, TouchTypes, DeviceType
<1>19. RoomIsKept'
  BY <1>1, <1>13, <1>15 DEF TouchInvariant, RoomIsKept
<1>20. EventsInOrder'
  BY <1>1, <1>6, <1>7, <1>12, <1>17 DEF EventsInOrder
<1>21. BuffersCounted'
  <2>1. buffers' + Len(usedEvents') = buffers + Len(usedEvents)
    BY <1>1, <1>4, <1>9, <1>14, <1>17
  <2> QED
    BY <1>1, <1>14, <1>15, <1>16, <2>1 DEF BuffersCounted
<1>22. EdgesConserved'
  <2>1. SUFFICES ASSUME touchResets = 0
                 PROVE  acceptedEdges = guest.edges + ContactsIn(usedEvents') + ContactsIn(device'.pendingInputEvents)
                          + EdgesIn(device'.queue.entries) + EdgesIn(runner.batch) + EdgesIn(hostQueue.entries)
    BY <1>1 DEF EdgesConserved
  <2>2. acceptedEdges = guest.edges + ContactsIn(usedEvents) + ContactsIn(pending)
                          + EdgesIn(device.queue.entries) + EdgesIn(runner.batch) + EdgesIn(hostQueue.entries)
    BY <2>1 DEF TouchInvariant, EdgesConserved, pending
  <2>3. ContactsIn(usedEvents') \in Nat /\ ContactsIn(usedEvents') = ContactsIn(usedEvents) + IsContact(event)
    BY <1>4, <1>8, <1>17
  <2>4. acceptedEdges = guest.edges + ContactsIn(usedEvents') + ContactsIn(d.pendingInputEvents)
                          + EdgesIn(d.queue.entries) + EdgesIn(runner.batch) + EdgesIn(hostQueue.entries)
    BY <1>4, <1>8, <1>10, <2>2, <2>3
  <2>5. /\ ContactsIn(device'.pendingInputEvents) \in Nat /\ EdgesIn(device'.queue.entries) \in Nat
        /\ ContactsIn(d.pendingInputEvents) \in Nat /\ EdgesIn(d.queue.entries) \in Nat
    BY <1>10, <1>13, DeviceCounts
  <2>6. ContactsIn(device'.pendingInputEvents) + EdgesIn(device'.queue.entries)
          = ContactsIn(d.pendingInputEvents) + EdgesIn(d.queue.entries)
    BY <1>12
  <2> DEFINE p == ContactsIn(device'.pendingInputEvents)
             x == EdgesIn(device'.queue.entries)
             o == ContactsIn(d.pendingInputEvents)
             y == EdgesIn(d.queue.entries)
             g == guest.edges
             c == ContactsIn(usedEvents')
             b == EdgesIn(runner.batch)
             h == EdgesIn(hostQueue.entries)
  <2>7. /\ p \in Nat /\ x \in Nat /\ o \in Nat /\ y \in Nat /\ g \in Nat /\ c \in Nat /\ b \in Nat /\ h \in Nat
        /\ p + x = o + y /\ acceptedEdges = g + c + o + y + b + h
    BY <1>4, <2>3, <2>4, <2>5, <2>6
  <2> HIDE DEF p, x, o, y, g, c, b, h
  <2>8. acceptedEdges = g + c + p + x + b + h
    BY <2>7
  <2> QED
    BY <2>8 DEF g, c, p, x, b, h
<1> QED
  BY <1>13, <1>18, <1>19, <1>20, <1>21, <1>22 DEF TouchInvariant

LEMMA ProcessingEnds ==
  ASSUME TouchInvariant, EndProcessing
  PROVE  TouchInvariant'
<1>1. /\ processing.by # "nobody" /\ processing' = NotProcessing
      /\ touchInterrupt' = (touchInterrupt \/ processing.delivered > 0)
      /\ runner' = IF processing.by = "runner" THEN [runner EXCEPT !.step = "idle"] ELSE runner
      /\ hostQueue' = hostQueue /\ sent' = sent /\ acceptedEdges' = acceptedEdges /\ touchReady' = touchReady
      /\ device' = device /\ buffers' = buffers /\ usedEvents' = usedEvents /\ driver' = driver
      /\ guest' = guest /\ touchResets' = touchResets
  BY DEF EndProcessing, DeviceLockFree, ui, guestSide
<1>2. runner \in [step : {"idle", "drain", "inject", "processing"}, capacity : Nat, batch : Seq(EntryType)]
  BY DEF TouchInvariant, TouchTypes
<1>3. /\ processing'.by = "nobody" /\ processing'.available = 0
      /\ processing' \in [by : {"nobody", "runner", "vcpu"}, available : Nat, delivered : Nat]
  BY <1>1 DEF NotProcessing
<1>4. /\ runner' \in [step : {"idle", "drain", "inject", "processing"}, capacity : Nat, batch : Seq(EntryType)]
      /\ runner'.batch = runner.batch /\ runner'.capacity = runner.capacity
      /\ (processing.by = "runner" => runner'.step = "idle")
      /\ (processing.by # "runner" => runner'.step = runner.step)
  <2>1. CASE processing.by = "runner"
    BY <1>1, <1>2, <2>1
  <2>2. CASE processing.by # "runner"
    BY <1>1, <1>2, <2>2
  <2> QED
    BY <2>1, <2>2
<1>5. TouchTypes'
  <2>1. touchInterrupt' \in BOOLEAN
    BY <1>1 DEF TouchInvariant, TouchTypes
  <2> QED
    BY <1>1, <1>3, <1>4, <2>1 DEF TouchInvariant, TouchTypes
<1>6. QueuesKept' /\ EventsInOrder'
  BY <1>1 DEF TouchInvariant, QueuesKept, DeviceNeverDrops, EventsInOrder
<1>7. InOrder' /\ EdgesConserved'
  BY <1>1, <1>4 DEF TouchInvariant, InOrder, EdgesConserved
<1>8. RoomIsKept'
  BY <1>1, <1>3, <1>4 DEF TouchInvariant, RoomIsKept
<1>9. BuffersCounted'
  <2>1. buffers \in Nat
    BY TouchConstants DEF TouchInvariant, TouchTypes
  <2> QED
    BY <1>1, <1>3, <2>1 DEF TouchInvariant, BuffersCounted
<1> QED
  BY <1>5, <1>6, <1>7, <1>8, <1>9 DEF TouchInvariant

LEMMA TouchesAcknowledged ==
  ASSUME TouchInvariant, AcknowledgeTouches \/ GuestDone
  PROVE  TouchInvariant'
<1>1. /\ hostQueue' = hostQueue /\ sent' = sent /\ acceptedEdges' = acceptedEdges /\ touchReady' = touchReady
      /\ device' = device /\ buffers' = buffers /\ usedEvents' = usedEvents /\ runner' = runner
      /\ guest' = guest /\ touchResets' = touchResets /\ processing' = processing
      /\ touchInterrupt' \in {FALSE, touchInterrupt}
      /\ driver' \in [inISR : BOOLEAN, kick : BOOLEAN]
  <2>1. driver \in [inISR : BOOLEAN, kick : BOOLEAN]
    BY DEF TouchInvariant, TouchTypes
  <2>2. CASE AcknowledgeTouches
    <3>1. driver' = [driver EXCEPT !.inISR = TRUE]
      BY <2>2 DEF AcknowledgeTouches
    <3>2. driver' \in [inISR : BOOLEAN, kick : BOOLEAN]
      BY <2>1, <3>1
    <3> QED
      BY <2>2, <3>2 DEF AcknowledgeTouches, ui
  <2>3. CASE GuestDone
    <3>1. driver' \in [inISR : BOOLEAN, kick : BOOLEAN]
      BY <2>3 DEF GuestDone
    <3> QED
      BY <2>3, <3>1 DEF GuestDone, ui, virtio
  <2> QED
    BY <2>2, <2>3
<1>2. TouchTypes'
  BY <1>1 DEF TouchInvariant, TouchTypes
<1>3. QueuesKept' /\ EventsInOrder' /\ InOrder'
  BY <1>1 DEF TouchInvariant, QueuesKept, DeviceNeverDrops, EventsInOrder, InOrder
<1>4. RoomIsKept' /\ BuffersCounted' /\ EdgesConserved'
  BY <1>1 DEF TouchInvariant, RoomIsKept, BuffersCounted, EdgesConserved
<1> QED
  BY <1>2, <1>3, <1>4 DEF TouchInvariant

LEMMA EventsAreEnabled ==
  ASSUME TouchInvariant, EnableEvents
  PROVE  TouchInvariant'
<1>1. /\ DeviceLockFree /\ ~touchReady /\ touchReady' = TRUE /\ buffers' = RingSize
      /\ driver' = [driver EXCEPT !.kick = TRUE]
      /\ hostQueue' = hostQueue /\ sent' = sent /\ acceptedEdges' = acceptedEdges /\ touchInterrupt' = touchInterrupt
      /\ device' = device /\ usedEvents' = usedEvents /\ runner' = runner
      /\ guest' = guest /\ touchResets' = touchResets /\ processing' = processing
  BY DEF EnableEvents, ui
<1>2. buffers \in Nat /\ Len(usedEvents) \in Nat /\ RingSize \in Nat
  BY TouchFacts, TouchConstants DEF TouchInvariant, TouchTypes
<1>3. buffers + Len(usedEvents) = 0
  BY <1>1 DEF TouchInvariant, BuffersCounted
<1>4. TouchTypes'
  <2>1. driver' \in [inISR : BOOLEAN, kick : BOOLEAN]
    BY <1>1 DEF TouchInvariant, TouchTypes
  <2>2. buffers' \in 0..RingSize
    BY <1>1, <1>2
  <2> QED
    BY <1>1, <2>1, <2>2 DEF TouchInvariant, TouchTypes
<1>5. QueuesKept' /\ EventsInOrder' /\ InOrder'
  BY <1>1 DEF TouchInvariant, QueuesKept, DeviceNeverDrops, EventsInOrder, InOrder
<1>6. RoomIsKept' /\ EdgesConserved'
  BY <1>1 DEF TouchInvariant, RoomIsKept, EdgesConserved
<1>7. BuffersCounted'
  <2>1. buffers' + Len(usedEvents') = RingSize
    BY <1>1, <1>2, <1>3
  <2>2. processing.by = "nobody" /\ processing.available = 0
    BY <1>1 DEF TouchInvariant, BuffersCounted, DeviceLockFree
  <2> QED
    BY <1>1, <1>2, <2>1, <2>2 DEF BuffersCounted
<1> QED
  BY <1>4, <1>5, <1>6, <1>7 DEF TouchInvariant

LEMMA GuestReadsEvent ==
  ASSUME TouchInvariant, GuestReads
  PROVE  TouchInvariant'
<1> DEFINE event == usedEvents[1]
           rest == Tail(usedEvents)
<1>1. /\ usedEvents # <<>> /\ usedEvents' = rest /\ buffers' = buffers + 1
      /\ guest' = CASE Head(usedEvents).kind = "contact" ->
                         [guest EXCEPT !.contact = Head(usedEvents).value, !.edges = @ + 1]
                    [] Head(usedEvents).kind = "position" -> [guest EXCEPT !.point = Head(usedEvents).value]
                    [] OTHER -> guest
      /\ hostQueue' = hostQueue /\ sent' = sent /\ acceptedEdges' = acceptedEdges /\ touchInterrupt' = touchInterrupt
      /\ device' = device /\ touchReady' = touchReady /\ runner' = runner /\ driver' = driver
      /\ touchResets' = touchResets /\ processing' = processing
  BY DEF GuestReads, ui, virtio
<1>2. /\ usedEvents \in Seq(EventType) /\ Len(usedEvents) \in Nat /\ guest.edges \in Nat
      /\ EdgesIn(hostQueue.entries) \in Nat /\ EdgesIn(device.queue.entries) \in Nat /\ EdgesIn(runner.batch) \in Nat
      /\ ContactsIn(usedEvents) \in Nat /\ ContactsIn(device.pendingInputEvents) \in Nat
      /\ SpotOf(guest) \in Spots /\ RingSize \in Nat
  BY TouchFacts, TouchConstants
<1>3. /\ Head(usedEvents) = event /\ event \in EventType /\ rest \in Seq(EventType)
      /\ Len(rest) = Len(usedEvents) - 1 /\ Len(usedEvents) > 0
  BY <1>1, <1>2
<1>4. PICK u \in Spots : Track(SpotOf(guest), usedEvents, u) /\ FramesOK(device, u)
  BY DEF TouchInvariant, EventsInOrder
<1> DEFINE a == SpotOf(guest)
           z == AfterEvent(a, event)
<1>5. EventFits(a, event) /\ z \in Spots /\ Track(z, rest, u)
  BY <1>1, <1>2, <1>4, TrackFirst
<1>6. ContactsIn(usedEvents) = IsContact(event) + ContactsIn(rest) /\ ContactsIn(rest) \in Nat
  BY <1>1, <1>2, ContactsOfFirst
<1>7. guest' = CASE event.kind = "contact" -> [guest EXCEPT !.contact = event.value, !.edges = @ + 1]
                 [] event.kind = "position" -> [guest EXCEPT !.point = event.value]
                 [] OTHER -> guest
  BY <1>1, <1>3
<1>8. guest \in [contact : NoContact..MaxTrackingID, point : Nat, edges : Nat]
  BY DEF TouchInvariant, TouchTypes
<1> HIDE DEF event, rest, z
<1>9. /\ guest' \in [contact : NoContact..MaxTrackingID, point : Nat, edges : Nat]
      /\ guest'.edges = guest.edges + IsContact(event)
      /\ SpotOf(guest') = z
  <2>1. CASE event.kind = "contact"
    <3> DEFINE k == guest.edges + 1
    <3>1. k \in Nat /\ IsContact(event) = 1
      BY <1>2, <2>1 DEF IsContact
    <3>2. event.value \in NoContact..MaxTrackingID
      BY <1>5, <2>1 DEF EventFits
    <3>3. guest' = [guest EXCEPT !.contact = event.value, !.edges = k]
      BY <1>7, <2>1
    <3> HIDE DEF k
    <3>4. /\ guest' \in [contact : NoContact..MaxTrackingID, point : Nat, edges : Nat]
          /\ guest'.contact = event.value /\ guest'.point = guest.point /\ guest'.edges = k
      BY <1>8, <3>1, <3>2, <3>3
    <3>5. SpotOf(guest') = z
      BY <2>1, <3>4 DEF SpotOf, AfterEvent, z
    <3> QED
      BY <3>1, <3>4, <3>5 DEF k
  <2>2. CASE event.kind = "position"
    <3>1. event.value \in Nat /\ IsContact(event) = 0
      BY <1>5, <2>2 DEF EventFits, IsContact
    <3>2. guest' = [guest EXCEPT !.point = event.value]
      BY <1>7, <2>2
    <3>3. /\ guest' \in [contact : NoContact..MaxTrackingID, point : Nat, edges : Nat]
          /\ guest'.contact = guest.contact /\ guest'.point = event.value /\ guest'.edges = guest.edges
      BY <1>8, <3>1, <3>2
    <3>4. SpotOf(guest') = z
      BY <2>2, <3>3 DEF SpotOf, AfterEvent, z
    <3> QED
      BY <1>2, <3>1, <3>3, <3>4
  <2>3. CASE event.kind # "contact" /\ event.kind # "position"
    <3>1. guest' = guest
      BY <1>7, <2>3
    <3>2. IsContact(event) = 0 /\ SpotOf(guest) = z
      BY <2>3 DEF IsContact, SpotOf, AfterEvent, z
    <3> QED
      BY <1>2, <1>8, <3>1, <3>2
  <2> QED
    BY <2>1, <2>2, <2>3
<1>10. buffers' \in 0..RingSize /\ buffers' + Len(usedEvents') = buffers + Len(usedEvents)
  <2>1. buffers \in 0..RingSize /\ (buffers + Len(usedEvents) = RingSize \/ buffers + Len(usedEvents) = 0)
    BY DEF TouchInvariant, TouchTypes, BuffersCounted
  <2> DEFINE held == Len(usedEvents)
             left == Len(usedEvents')
  <2>2. held \in Nat /\ held > 0 /\ left = held - 1 /\ buffers' = buffers + 1 /\ RingSize \in Nat
    BY <1>1, <1>2, <1>3
  <2>3. buffers \in 0..RingSize /\ (buffers + held = RingSize \/ buffers + held = 0)
    BY <2>1
  <2> HIDE DEF held, left
  <2>4. buffers' \in 0..RingSize /\ buffers' + left = buffers + held
    BY <2>2, <2>3
  <2> QED
    BY <2>4 DEF held, left
<1>11. TouchTypes'
  BY <1>1, <1>3, <1>9, <1>10 DEF TouchInvariant, TouchTypes
<1>12. QueuesKept' /\ InOrder' /\ RoomIsKept'
  BY <1>1 DEF TouchInvariant, QueuesKept, DeviceNeverDrops, InOrder, RoomIsKept
<1>13. EventsInOrder'
  BY <1>1, <1>4, <1>5, <1>9 DEF EventsInOrder
<1>14. BuffersCounted'
  <2>1. buffers \in Nat /\ processing \in [by : {"nobody", "runner", "vcpu"}, available : Nat, delivered : Nat]
        /\ processing.available <= buffers
    BY TouchConstants DEF TouchInvariant, TouchTypes, BuffersCounted
  <2>2. processing.available <= buffers'
    BY <1>1, <2>1
  <2> QED
    BY <1>1, <1>10, <2>2 DEF TouchInvariant, BuffersCounted
<1>15. EdgesConserved'
  <2>1. SUFFICES ASSUME touchResets = 0
                 PROVE  acceptedEdges = guest'.edges + ContactsIn(rest) + ContactsIn(device.pendingInputEvents)
                          + EdgesIn(device.queue.entries) + EdgesIn(runner.batch) + EdgesIn(hostQueue.entries)
    BY <1>1 DEF EdgesConserved
  <2>2. acceptedEdges = guest.edges + ContactsIn(usedEvents) + ContactsIn(device.pendingInputEvents)
                          + EdgesIn(device.queue.entries) + EdgesIn(runner.batch) + EdgesIn(hostQueue.entries)
    BY <2>1 DEF TouchInvariant, EdgesConserved
  <2> DEFINE x == IsContact(event)
             known == guest.edges
             ahead == ContactsIn(rest)
             staged == ContactsIn(device.pendingInputEvents)
             queued == EdgesIn(device.queue.entries)
             carried == EdgesIn(runner.batch)
             waiting == EdgesIn(hostQueue.entries)
  <2>3. /\ x \in Nat /\ known \in Nat /\ ahead \in Nat /\ staged \in Nat /\ queued \in Nat
        /\ carried \in Nat /\ waiting \in Nat
    BY <1>2, <1>6 DEF IsContact
  <2>4. acceptedEdges = known + (x + ahead) + staged + queued + carried + waiting
    BY <1>6, <2>2
  <2> HIDE DEF x, known, ahead, staged, queued, carried, waiting
  <2>5. acceptedEdges = (known + x) + ahead + staged + queued + carried + waiting
    BY <2>3, <2>4
  <2> QED
    BY <1>9, <2>5 DEF x, known, ahead, staged, queued, carried, waiting
<1> QED
  BY <1>11, <1>12, <1>13, <1>14, <1>15 DEF TouchInvariant

LEMMA DeviceIsReset ==
  ASSUME TouchInvariant, ResetDevice
  PROVE  TouchInvariant'
<1>1. /\ DeviceLockFree /\ touchResets' = touchResets + 1 /\ touchReady' = FALSE /\ touchInterrupt' = FALSE
      /\ device' = NewDevice /\ buffers' = 0 /\ usedEvents' = <<>> /\ driver' = [inISR |-> FALSE, kick |-> FALSE]
      /\ guest' = NewGuest(guest.edges)
      /\ hostQueue' = hostQueue /\ sent' = sent /\ acceptedEdges' = acceptedEdges
      /\ runner' = runner /\ processing' = processing
  BY DEF ResetDevice, DeviceAfterReset, ui
<1>2. touchResets \in Nat
  BY DEF TouchInvariant, TouchTypes
<1>3. touchResets' \in Nat /\ touchResets' # 0
  BY <1>1, <1>2
<1> DEFINE u == SpotOf(guest')
<1>4. u \in Spots /\ u.down = FALSE /\ guest' \in [contact : NoContact..MaxTrackingID, point : Nat, edges : Nat]
  <2>1. guest.edges \in Nat /\ MaxTrackingID \in Nat
    BY TouchFacts, TouchConstants
  <2>2. guest' = [contact |-> NoContact, point |-> NoPoint, edges |-> guest.edges]
    BY <1>1 DEF NewGuest
  <2>3. guest' \in [contact : NoContact..MaxTrackingID, point : Nat, edges : Nat]
    BY <2>1, <2>2 DEF NoContact, NoPoint
  <2>4. u = [down |-> FALSE, at |-> NoPoint]
    BY <2>2 DEF SpotOf
  <2> HIDE DEF u
  <2> QED
    BY <2>3, <2>4 DEF Spots, NoPoint
<1> HIDE DEF u
<1>5. /\ NewDevice \in DeviceType /\ FramesOK(NewDevice, u)
      /\ QueueWithin(NewDevice.queue, DeviceCapacity, 0)
      /\ NewDevice.queue.entries = <<>> /\ NewDevice.queue.lastPoint = NoPoint
      /\ NewDevice.queue.discardedMotionCount = 0 /\ NewDevice.queue.rejectedGestureCount = 0
      /\ NewDevice.queue.rejectingContact = FALSE
  BY <1>4, NewDeviceQuiet
<1>6. TouchTypes'
  <2>1. buffers' \in 0..RingSize /\ usedEvents' \in Seq(EventType) /\ driver' \in [inISR : BOOLEAN, kick : BOOLEAN]
    BY <1>1, TouchConstants
  <2> QED
    BY <1>1, <1>3, <1>4, <1>5, <2>1 DEF TouchInvariant, TouchTypes, DeviceType
<1>7. QueuesKept'
  BY <1>1, <1>5 DEF TouchInvariant, QueuesKept, DeviceNeverDrops
<1>8. InOrder'
  BY <1>1, <1>3, <1>5 DEF TouchInvariant, InOrder
<1>9. RoomIsKept'
  <2>1. /\ Len(device.queue.entries) \in Nat /\ Len(runner.batch) \in Nat /\ runner.capacity \in Nat
        /\ DeviceCapacity \in Nat /\ DeviceCapacity >= 4
    BY TouchFacts, TouchConstants
  <2>2. Len(device'.queue.entries) = 0
    BY <1>1, <1>5
  <2>3. /\ Len(device.queue.entries) <= DeviceCapacity - 2
        /\ runner.step = "inject" => Len(device.queue.entries) + Len(runner.batch) <= DeviceCapacity - 2
        /\ runner.step # "inject" => runner.batch = <<>>
        /\ runner.step = "drain" /\ runner.capacity > 0 =>
             Len(device.queue.entries) + runner.capacity <= DeviceCapacity - 2
        /\ processing.by = "runner" => runner.step = "processing"
    BY DEF TouchInvariant, RoomIsKept
  <2>4. /\ runner.step = "inject" => 0 + Len(runner.batch) <= DeviceCapacity - 2
        /\ runner.step = "drain" /\ runner.capacity > 0 => 0 + runner.capacity <= DeviceCapacity - 2
        /\ 0 <= DeviceCapacity - 2
    <3> DEFINE x == Len(device.queue.entries)
               b == Len(runner.batch)
               c == runner.capacity
               y == DeviceCapacity - 2
    <3>1. x \in Nat /\ b \in Nat /\ c \in Nat
      BY <2>1
    <3>3. y \in Nat
      BY <2>1
    <3>4. runner.step = "inject" => x + b <= y
      BY <2>3
    <3>5. runner.step = "drain" /\ c > 0 => x + c <= y
      BY <2>3
    <3> HIDE DEF x, b, c, y
    <3>6. 0 <= y /\ (runner.step = "inject" => 0 + b <= y) /\ (runner.step = "drain" /\ c > 0 => 0 + c <= y)
      BY <3>1, <3>3, <3>4, <3>5
    <3> QED
      BY <3>6 DEF b, c, y
  <2> QED
    BY <1>1, <2>2, <2>3, <2>4 DEF RoomIsKept
<1>10. EventsInOrder'
  BY <1>1, <1>4, <1>5, TrackOfNothing DEF EventsInOrder, u
<1>11. BuffersCounted'
  <2>1. processing.by = "nobody" /\ processing.available = 0
    BY <1>1 DEF TouchInvariant, BuffersCounted, DeviceLockFree
  <2>2. Len(usedEvents') = 0
    BY <1>1
  <2> QED
    BY <1>1, <2>1, <2>2 DEF BuffersCounted
<1>12. EdgesConserved'
  BY <1>3 DEF EdgesConserved
<1> QED
  BY <1>6, <1>7, <1>8, <1>9, <1>10, <1>11, <1>12 DEF TouchInvariant

LEMMA TouchStays ==
  ASSUME TouchInvariant, UNCHANGED touchVars
  PROVE  TouchInvariant'
<1>1. /\ hostQueue' = hostQueue /\ sent' = sent /\ acceptedEdges' = acceptedEdges /\ touchReady' = touchReady
      /\ device' = device /\ buffers' = buffers /\ usedEvents' = usedEvents /\ runner' = runner
      /\ guest' = guest /\ touchResets' = touchResets /\ processing' = processing
      /\ touchInterrupt' = touchInterrupt /\ driver' = driver
  BY DEF touchVars
<1>2. TouchTypes'
  BY <1>1 DEF TouchInvariant, TouchTypes
<1>3. QueuesKept' /\ EventsInOrder' /\ InOrder'
  BY <1>1 DEF TouchInvariant, QueuesKept, DeviceNeverDrops, EventsInOrder, InOrder
<1>4. RoomIsKept' /\ BuffersCounted' /\ EdgesConserved'
  BY <1>1 DEF TouchInvariant, RoomIsKept, BuffersCounted, EdgesConserved
<1> QED
  BY <1>2, <1>3, <1>4 DEF TouchInvariant

(* Whatever is sent and however the threads interleave, the two queues, the *)
(* batch between them and the events behind them stay one gesture after the *)
(* other, and the room that the runtime loop has read stays free until it   *)
(* uses it.                                                                 *)
THEOREM TouchIsInductive == TouchSpec => []TouchInvariant
<1>1. ASSUME TouchInvariant, [TouchNext]_touchVars PROVE TouchInvariant'
  <2>1. CASE \E touch \in Touches : QueueTouch(touch)
    BY <1>1, <2>1, HostTakesTouch
  <2>2. CASE Runtime
    BY <1>1, <2>2, CapacityIsRead, BatchIsDrained, DeviceTakesTouches DEF Runtime
  <2>3. CASE Device
    BY <1>1, <2>3, EventIsDelivered, ProcessingEnds DEF Device
  <2>4. CASE TouchDriver
    BY <1>1, <2>4, EventsAreNotified, TouchesAcknowledged, GuestReadsEvent, EventsAreEnabled DEF TouchDriver
  <2>5. CASE ResetDevice
    BY <1>1, <2>5, DeviceIsReset
  <2>6. CASE UNCHANGED touchVars
    BY <1>1, <2>6, TouchStays
  <2> QED
    BY <1>1, <2>1, <2>2, <2>3, <2>4, <2>5, <2>6 DEF TouchNext
<1> QED
  BY <1>1, TouchInitially, PTL DEF TouchSpec

(* The queues, the device, the threads and the guest keep their types.      *)
THEOREM TouchIsWellTyped == TouchSpec => []TouchTypes
<1>1. TouchInvariant => TouchTypes
  BY DEF TouchInvariant
<1> QED
  BY <1>1, TouchIsInductive, PTL

(* A gesture that enqueue accepts reaches the guest in full, in order and   *)
(* ending at its final point, for any two queues of at least four samples,  *)
(* any number of buffers and touches, and any driver.                       *)
THEOREM AcceptedGesturesSurvive == TouchSpec => []GesturesSurvive
<1>1. TouchInvariant => GesturesSurvive
  <2> SUFFICES ASSUME TouchInvariant PROVE GesturesSurvive
    OBVIOUS
  <2>1. EdgesConserved /\ DeviceNeverDrops
    BY DEF TouchInvariant, QueuesKept
  <2>2. TerminationReserved
    <3>1. QueueWithin(hostQueue, HostCapacity, MotionLimit) /\ QueueWithin(device.queue, DeviceCapacity, 0)
      BY DEF TouchInvariant, QueuesKept
    <3>2. \A q, c, l : QueueWithin(q, c, l) => Len(q.entries) <= q.capacity - IF q.active THEN 2 ELSE 0
      BY DEF QueueWithin
    <3> QED
      BY <3>1, <3>2 DEF TerminationReserved
  <2>3. NextEventFits
    <3> SUFFICES ASSUME usedEvents # <<>>
                 PROVE  LET event == Head(usedEvents)
                        IN  /\ event.kind = "contact" => (event.value = NoContact <=> guest.contact # NoContact)
                            /\ event.kind = "position" => guest.contact # NoContact
                            /\ event.kind = "contact" /\ event.value = NoContact => guest.point = event.at
      BY DEF NextEventFits
    <3>1. PICK u \in Spots : Track(SpotOf(guest), usedEvents, u) /\ FramesOK(device, u)
      BY DEF TouchInvariant, EventsInOrder
    <3>2. usedEvents \in Seq(EventType) /\ SpotOf(guest) \in Spots
      BY TouchFacts
    <3>3. EventFits(SpotOf(guest), usedEvents[1])
      BY <3>1, <3>2, TrackFirst
    <3>4. Head(usedEvents) = usedEvents[1]
      BY <3>2
    <3> QED
      BY <3>3, <3>4 DEF EventFits, SpotOf
  <2> QED
    BY <2>1, <2>2, <2>3 DEF GesturesSurvive
<1> QED
  BY <1>1, TouchIsInductive, PTL

-----------------------------------------------------------------------------
(* The command pipeline of virtio-gpu.                                     *)

(* The request that staging looks at is one the driver put in the ring. *)
LEMMA NextRequestInRing ==
  ASSUME PipelineInvariant, handler.step = "stage", HasRoom
  PROVE  /\ handler.queue \in Queues
         /\ lastAvailableIndex[handler.queue] + 1 \in 1..Len(avail[handler.queue])
         /\ lastAvailableIndex[handler.queue] + 1 <= handler.availableIndex
         /\ NextRequest \in RequestType
         /\ NextRequest.shape.queue = handler.queue
<1> USE DEF PipelineInvariant
<1>1. handler.queue \in Queues  BY DEF TypeOK, HandlerType
<1>2. avail[handler.queue] \in Seq(RequestType)  BY <1>1 DEF TypeOK
<1>3. lastAvailableIndex[handler.queue] < handler.availableIndex
  BY <1>1 DEF TypeOK, HandlerType, Indices, RingIndices, InProcessQueue, HasRoom
<1>4. lastAvailableIndex[handler.queue] + 1 \in 1..Len(avail[handler.queue])
  BY <1>1, <1>2, <1>3 DEF TypeOK, HandlerType, Indices, RingIndices, InProcessQueue
<1>5. NextRequest \in RequestType
  BY <1>2, <1>4 DEF NextRequest
<1>6. NextRequest.shape.queue = handler.queue
  BY <1>1, <1>4 DEF Indices, RingIndices, NextRequest
<1> QED  BY <1>1, <1>3, <1>4, <1>5, <1>6 DEF TypeOK, HandlerType

(* Typing facts in the form the provers use them. *)
LEMMA Types ==
  ASSUME TypeOK
  PROVE  /\ \A q \in Queues : /\ avail[q] \in Seq(RequestType) /\ Len(avail[q]) \in Nat
                               /\ used[q] \in Seq([id : Nat \ {0}, response : Int])
                               /\ Len(used[q]) \in Nat
                               /\ lastAvailableIndex[q] \in Nat
                               /\ \A i \in 1..Len(avail[q]) : avail[q][i] \in RequestType
         /\ \A t \in Tokens : /\ t \in Nat \ {0} /\ t <= nextGPUCommandToken
                               /\ gpuCommands[t] \in CommandType
                               /\ QueueOf(t) \in Queues
                               /\ gpuCommands[t].position \in Nat
                               /\ gpuCommands[t].id \in Nat \ {0}
                               /\ gpuCommands[t].shape \in Shapes
         /\ \A s \in Shapes : s.queue \in Queues
         /\ nextGPUCommandToken \in Nat
         /\ handler.queue \in Queues
         /\ Tokens = DOMAIN gpuCommands
<1>1. \A s \in Shapes : s.queue \in Queues  BY ShapesAssumption DEF ShapeType
<1>2. \A q \in Queues : /\ avail[q] \in Seq(RequestType) /\ Len(avail[q]) \in Nat
                         /\ used[q] \in Seq([id : Nat \ {0}, response : Int])
                         /\ Len(used[q]) \in Nat
                         /\ lastAvailableIndex[q] \in Nat
                         /\ \A i \in 1..Len(avail[q]) : avail[q][i] \in RequestType
  BY DEF TypeOK
<1>3. \A t \in Tokens : t \in Nat \ {0} /\ t <= nextGPUCommandToken /\ gpuCommands[t] \in CommandType
  BY DEF TypeOK
<1>4. \A t \in Tokens : /\ QueueOf(t) \in Queues
                         /\ gpuCommands[t].position \in Nat
                         /\ gpuCommands[t].id \in Nat \ {0}
                         /\ gpuCommands[t].shape \in Shapes
  BY <1>1, <1>3 DEF CommandType, QueueOf
<1> QED  BY <1>1, <1>2, <1>3, <1>4 DEF TypeOK, HandlerType, Tokens

(* Staging one request keeps the invariant. *)
LEMMA StageStep ==
  ASSUME PipelineInvariant, Stage
  PROVE  PipelineInvariant'
<1> USE DEF NoResponse
<1>0. PICK q \in Queues, c \in RequestType, n \in Nat :
        /\ q = handler.queue
        /\ c = NextRequest
        /\ n = nextGPUCommandToken + 1
  <2>1. handler.queue \in Queues /\ NextRequest \in RequestType
    BY NextRequestInRing DEF Stage
  <2>2. nextGPUCommandToken + 1 \in Nat  BY DEF PipelineInvariant, TypeOK
  <2> QED  BY <2>1, <2>2
<1> DEFINE new == [id |-> c.id, shape |-> c.shape, position |-> lastAvailableIndex[q] + 1,
                   started |-> FALSE, response |-> NoResponse]
<1>1. /\ lastAvailableIndex[q] + 1 \in 1..Len(avail[q])
      /\ lastAvailableIndex[q] + 1 <= handler.availableIndex
      /\ c.shape.queue = q
  BY <1>0, NextRequestInRing DEF Stage
<1>2. c = avail[q][lastAvailableIndex[q] + 1]  BY <1>0 DEF NextRequest
<1>3. new \in CommandType
  <2>1. c.id \in Nat \ {0} /\ c.shape \in Shapes  BY DEF RequestType
  <2>2. lastAvailableIndex[q] + 1 \in Nat \ {0}  BY Types DEF PipelineInvariant
  <2> QED  BY <2>1, <2>2 DEF CommandType
<1>4. /\ nextGPUCommandToken' = n
      /\ gpuCommands' = [u \in Tokens \cup {n} |-> IF u = n THEN new ELSE gpuCommands[u]]
      /\ lastAvailableIndex' = [lastAvailableIndex EXCEPT ![q] = @ + 1]
      /\ UNCHANGED <<ring, used, irq, ready, interruptStatus, handler, gate, late, drains>>
  BY <1>0 DEF Stage
<1>5. n \notin Tokens /\ n \in Nat /\ Tokens \subseteq Nat /\ (\A u \in Tokens : u < n)
  BY <1>0 DEF PipelineInvariant, TypeOK
<1>6. /\ Tokens' = Tokens \cup {n}
      /\ gpuCommands'[n] = new
      /\ \A u \in Tokens : gpuCommands'[u] = gpuCommands[u]
  BY <1>4, <1>5 DEF Tokens
<1>7. TypeOK'
  <2>1. Tokens' \subseteq 1..nextGPUCommandToken'
    BY <1>0, <1>4, <1>6 DEF PipelineInvariant, TypeOK
  <2>2. gpuCommands' \in [Tokens' -> CommandType]
    BY <1>3, <1>4, <1>6 DEF PipelineInvariant, TypeOK
  <2>3. DOMAIN reservations \subseteq 1..nextGPUCommandToken'
    BY <1>0, <1>4 DEF PipelineInvariant, TypeOK
  <2>4. lastAvailableIndex' \in [Queues -> Nat]
    BY <1>1, <1>4 DEF PipelineInvariant, TypeOK
  <2> QED  BY <1>4, <1>5, <2>1, <2>2, <2>3, <2>4
           DEF PipelineInvariant, TypeOK, ring, irq, gate, late
<1>8. /\ ready[q]
      /\ lastAvailableIndex'[q] = lastAvailableIndex[q] + 1
      /\ \A r \in Queues : r # q => lastAvailableIndex'[r] = lastAvailableIndex[r]
  BY <1>0, <1>1, <1>4 DEF PipelineInvariant, Indices, TypeOK, InProcessQueue, Stage
<1>9. /\ avail' = avail /\ used' = used /\ ready' = ready /\ handler' = handler
      /\ reservations' = reservations /\ resetEpoch' = resetEpoch /\ accelerator' = accelerator
      /\ delivering' = delivering /\ posted' = posted
  BY <1>4 DEF ring, gate, late
<1> USE DEF PipelineInvariant
<1>a. \A r \in Queues : Len(avail[r]) \in Nat /\ Len(used[r]) \in Nat /\ lastAvailableIndex[r] \in Nat
  BY Types
<1>b. \A t \in Tokens : t \in Nat /\ QueueOf(t) \in Queues /\ gpuCommands[t].position \in Nat
  BY Types
<1>10. Indices'
  <2>1. ASSUME NEW r \in Queues  PROVE  RingIndices(r)'
    BY <1>a, <1>1, <1>8, <1>9 DEF Indices, RingIndices
  <2>2. InProcessQueue' = InProcessQueue /\ handler.queue = q /\ handler'.queue = q
    BY <1>0, <1>9 DEF InProcessQueue
  <2> QED  BY <1>1, <1>8, <1>9, <2>1, <2>2 DEF Indices
<1>11. Positions'
  <2>1. \A t \in Tokens : QueueOf(t)' = QueueOf(t)  BY <1>6 DEF QueueOf
  <2>2. gpuCommands'[n].shape.queue = q  BY <1>1, <1>6
  <2>3. ASSUME NEW t \in Tokens'  PROVE  InItsPlace(t)'
    <3>1. CASE t = n
      BY <3>1, <2>2, <1>a, <1>1, <1>2, <1>6, <1>8, <1>9 DEF Indices, RingIndices, InItsPlace, QueueOf
    <3>2. CASE t # n
      <4>1. t \in Tokens /\ gpuCommands'[t] = gpuCommands[t] /\ QueueOf(t)' = QueueOf(t)
        BY <3>2, <2>1, <1>6
      <4>2. lastAvailableIndex[QueueOf(t)] <= lastAvailableIndex'[QueueOf(t)]
        BY <4>1, <1>a, <1>b, <1>8
      <4>3. /\ lastAvailableIndex'[QueueOf(t)] \in Nat /\ gpuCommands[t].position \in Nat
            /\ lastAvailableIndex[QueueOf(t)] \in Nat
        BY <4>1, <1>a, <1>b, <1>8
      <4> QED  BY <4>1, <4>2, <4>3, <1>9 DEF Positions, InItsPlace
    <3> QED  BY <3>1, <3>2
  <2>4. ASSUME NEW t \in Tokens', NEW u \in Tokens'  PROVE  InTokenOrder(t, u)'
    <3>1. CASE t = n
      <4>1. CASE u = n  BY <4>1, <3>1, <1>5 DEF InTokenOrder
      <4>2. CASE u # n
        <5>1. u \in Tokens /\ QueueOf(u)' = QueueOf(u) /\ gpuCommands'[u] = gpuCommands[u]
          BY <4>2, <2>1, <1>6
        <5>2. gpuCommands[u].position <= lastAvailableIndex[QueueOf(u)]
          BY <5>1 DEF Positions, InItsPlace
        <5>3. QueueOf(t)' = q /\ gpuCommands'[t].position = lastAvailableIndex[q] + 1
          BY <3>1, <2>2, <1>6 DEF QueueOf
        <5> QED  BY <5>1, <5>2, <5>3, <1>a, <1>b DEF InTokenOrder
      <4> QED  BY <4>1, <4>2
    <3>2. CASE t # n
      BY <3>2, <2>1, <1>b, <1>5, <1>6 DEF Positions, InTokenOrder
    <3> QED  BY <3>1, <3>2
  <2>5. ASSUME NEW r \in Queues, ready'[r],
               NEW i \in (Len(used[r]) + 1 .. lastAvailableIndex[r])'
        PROVE  PlaceIsStaged(r, i)'
    <3>1. CASE r = q /\ i = lastAvailableIndex[q] + 1
      BY <3>1, <2>2, <1>6 DEF PlaceIsStaged, QueueOf
    <3>2. CASE ~(r = q /\ i = lastAvailableIndex[q] + 1)
      <4>1. ready[r] /\ i \in Len(used[r]) + 1 .. lastAvailableIndex[r]
        BY <3>2, <2>5, <1>a, <1>1, <1>8, <1>9
      <4> QED  BY <4>1, <2>1, <1>6 DEF Positions, PlaceIsStaged
    <3> QED  BY <3>1, <3>2
  <2> QED  BY <2>3, <2>4, <2>5 DEF Positions
<1>12. Answers'
  BY <1>6 DEF Answers, AnswerIsOwn
<1>13. Reserved'
  <2>1. n \notin DOMAIN reservations  BY <1>0 DEF TypeOK
  <2>2. ASSUME NEW r \in DOMAIN reservations  PROVE  ReservedFor(r)'
    BY <2>1, <1>6, <1>9 DEF Reserved, ReservedFor
  <2> QED  BY <2>2, <1>9 DEF Reserved
<1>14. Late'
  <2>1. ASSUME NEW d \in CompletionType, LateFor(d)  PROVE LateFor(d)'
    BY <2>1, <1>0, <1>4, <1>5, <1>6, <1>9 DEF LateFor, TypeOK, CompletionType
  <2>2. \A d \in delivering : d \in CompletionType  BY DEF TypeOK
  <2>3. \A i \in 1..Len(posted) : posted[i] \in CompletionType  BY DEF TypeOK
  <2> QED  BY <1>9, <2>1, <2>2, <2>3 DEF Late
<1>15. UsedInOrder'
  BY <1>9 DEF UsedInOrder
<1>16. HazardOrder'
  BY <1>b, <1>5, <1>6 DEF HazardOrder
<1> QED  BY <1>7, <1>10, <1>11, <1>12, <1>13, <1>14, <1>15, <1>16

-----------------------------------------------------------------------------
(* Steps that leave every command in its place. *)
LEMMA PlacesUnchanged ==
  ASSUME PipelineInvariant,
         UNCHANGED <<avail, used, ready, lastAvailableIndex>>,
         Tokens' = Tokens,
         \A t \in Tokens : /\ gpuCommands'[t].id = gpuCommands[t].id
                           /\ gpuCommands'[t].shape = gpuCommands[t].shape
                           /\ gpuCommands'[t].position = gpuCommands[t].position
  PROVE  Positions' /\ UsedInOrder' /\ \A q \in Queues : RingIndices(q)'
<1> USE DEF PipelineInvariant
<1>1. \A t \in Tokens : QueueOf(t)' = QueueOf(t)  BY DEF QueueOf
<1>2. \A t \in Tokens' : InItsPlace(t)'  BY <1>1 DEF Positions, InItsPlace
<1>3. \A t, u \in Tokens' : InTokenOrder(t, u)'  BY <1>1 DEF Positions, InTokenOrder
<1>4. \A q \in Queues, n \in Nat : PlaceIsStaged(q, n) => PlaceIsStaged(q, n)'
  BY <1>1 DEF PlaceIsStaged
<1>5. Positions'  BY <1>2, <1>3, <1>4, Types DEF Positions
<1>6. \A q \in Queues : RingIndices(q)'  BY DEF Indices, RingIndices
<1> QED  BY <1>5, <1>6 DEF UsedInOrder

(* The places of the rings the running handler works on. *)
HandlerIndices ==
  InProcessQueue => /\ ready[handler.queue]
                    /\ lastAvailableIndex[handler.queue] <= handler.availableIndex
                    /\ handler.availableIndex <= Len(avail[handler.queue])

(* Steps that move only the thread inside the lock, or the driver. *)
LEMMA HandlerMoves ==
  ASSUME PipelineInvariant, TypeOK',
         UNCHANGED <<avail, used, ready, lastAvailableIndex, gpuCommands,
                     nextGPUCommandToken, reservations, accelerator, resetEpoch,
                     delivering, posted>>,
         HandlerIndices',
         handler.step = "reset" => handler'.step = "reset"
  PROVE  PipelineInvariant'
<1> USE DEF PipelineInvariant
<1>1. Tokens' = Tokens  BY DEF Tokens
<1>2. Positions' /\ UsedInOrder' /\ \A q \in Queues : RingIndices(q)'
  BY <1>1, PlacesUnchanged
<1>3. Indices'  BY <1>2 DEF Indices, HandlerIndices
<1>4. Answers'  BY <1>1 DEF Answers, AnswerIsOwn
<1>5. Reserved'  BY <1>1 DEF Reserved, ReservedFor
<1>6. Late'  BY <1>1 DEF Late, LateFor
<1>7. HazardOrder'  BY <1>1 DEF HazardOrder
<1> QED  BY <1>2, <1>3, <1>4, <1>5, <1>6, <1>7

(* A handler that enters processGPUQueue starts with consistent indices. *)
LEMMA EnterQueue ==
  ASSUME PipelineInvariant, NEW q \in Queues, NEW h, NEW b,
         ready[q], UNCHANGED <<avail, ready, lastAvailableIndex>>,
         handler' = ProcessQueue(h, q, b)
  PROVE  HandlerIndices'
<1>1. handler'.queue = q /\ handler'.availableIndex = Len(avail[q])
  BY DEF ProcessQueue, Idle
<1>2. RingIndices(q) /\ Len(avail[q]) \in Nat  BY Types DEF PipelineInvariant, Indices
<1> QED  BY <1>1, <1>2 DEF HandlerIndices, RingIndices

(* A thread that leaves the lock has no indices to keep. *)
LEMMA IdleIndices ==
  ASSUME handler' = Idle
  PROVE  HandlerIndices'
BY DEF HandlerIndices, InProcessQueue, Idle

-----------------------------------------------------------------------------
(* The type of a handler that enters a queue, or leaves the lock. *)
LEMMA HandlerTypes ==
  ASSUME TypeOK
  PROVE  /\ Idle \in HandlerType
         /\ \A h \in {"mmio", "callback", "async", "host"}, q \in Queues, b \in BOOLEAN :
              /\ ProcessQueue(h, q, b) \in HandlerType
              /\ ProcessQueue(h, q, b).holder = h
              /\ ProcessQueue(h, q, b).step = "stage"
<1>1. \A q \in Queues : Len(avail[q]) \in Nat  BY Types
<1> QED  BY <1>1 DEF HandlerType, Idle, ProcessQueue, Queues, Control, Cursor

(* Driver and host steps that take or use the lock without touching the     *)
(* pipeline.                                                                *)
LEMMA NotifyStep ==
  ASSUME PipelineInvariant, NEW q \in Queues, Notify(q)
  PROVE  PipelineInvariant'
<1> USE DEF PipelineInvariant, Notify, irq, queue, gate, late
<1>1. CASE ready[q]
  <2>1. handler' = ProcessQueue("mmio", q, FALSE)  BY <1>1
  <2>2. HandlerIndices'  BY <1>1, <2>1, EnterQueue
  <2>3. handler' \in HandlerType /\ handler'.holder = "mmio" /\ handler'.step = "stage"
    BY <2>1, HandlerTypes
  <2>4. TypeOK'  BY <2>3 DEF TypeOK, Tokens
  <2>5. handler.step # "reset"  BY DEF TypeOK
  <2> QED  BY <2>2, <2>4, <2>5, HandlerMoves
<1>2. CASE ~ready[q]
  <2>1. handler' = handler  BY <1>2
  <2>2. TypeOK'  BY <2>1 DEF TypeOK, Tokens
  <2>3. HandlerIndices'  BY <2>1 DEF HandlerIndices, Indices, InProcessQueue
  <2> QED  BY <2>1, <2>2, <2>3, HandlerMoves
<1> QED  BY <1>1, <1>2

(* The driver consumes what the used rings hold. *)
LEMMA ScanStep ==
  ASSUME PipelineInvariant, ScanUsedRings
  PROVE  PipelineInvariant'
<1> USE DEF PipelineInvariant, ScanUsedRings, ring, queue, gate, late
<1>1. TypeOK'
  <2>1. seen' \in [Queues -> Nat]  BY Types
  <2> QED  BY <2>1 DEF TypeOK, Tokens
<1>2. HandlerIndices'  BY DEF HandlerIndices, Indices, InProcessQueue
<1> QED  BY <1>1, <1>2, HandlerMoves

(* The driver acknowledges the interrupt. *)
LEMMA AcknowledgeStep ==
  ASSUME PipelineInvariant, AcknowledgeInterrupt
  PROVE  PipelineInvariant'
<1> USE DEF PipelineInvariant, AcknowledgeInterrupt, ring, queue, gate, late
<1>1. TypeOK'  BY DEF TypeOK, Tokens
<1>2. HandlerIndices'  BY DEF HandlerIndices, Indices, InProcessQueue
<1> QED  BY <1>1, <1>2, HandlerMoves

(* The host takes the lock to replace the accelerator. *)
LEMMA BeginReplaceStep ==
  ASSUME PipelineInvariant, BeginReplaceAccelerator
  PROVE  PipelineInvariant'
<1> USE DEF PipelineInvariant, BeginReplaceAccelerator, ring, irq, queue, gate, late
<1>1. handler' \in HandlerType /\ handler'.holder = "host" /\ handler'.step = "replace"
  BY DEF HandlerType, Idle, Queues, Control, Cursor
<1>2. TypeOK'  BY <1>1 DEF TypeOK, Tokens
<1>3. HandlerIndices'  BY <1>1 DEF HandlerIndices, InProcessQueue
<1>4. handler.step # "reset"  BY DEF TypeOK
<1> QED  BY <1>2, <1>3, <1>4, HandlerMoves

(* Staging stops at a limit, at the end of the ring, or on an unusable chain. *)
LEMMA StageEndStep ==
  ASSUME PipelineInvariant, StageEnd
  PROVE  PipelineInvariant'
<1> USE DEF PipelineInvariant, StageEnd, ring, irq, queue, gate, late
<1>1. /\ handler' = [handler EXCEPT !.step = "dispatch",
                        !.stagingError = HasRoom /\ Malformed(NextRequest.shape)]
      /\ (HasRoom /\ Malformed(NextRequest.shape)) \in BOOLEAN
  BY DEF HasRoom, Malformed
<1>2. /\ handler' \in HandlerType /\ handler'.step = "dispatch" /\ handler'.holder = handler.holder
      /\ handler'.queue = handler.queue /\ handler'.availableIndex = handler.availableIndex
  BY <1>1 DEF TypeOK, HandlerType
<1>3. TypeOK'  BY <1>2 DEF TypeOK, Tokens
<1>4. HandlerIndices'  BY <1>2 DEF HandlerIndices, InProcessQueue, Indices
<1> QED  BY <1>3, <1>4, HandlerMoves

(* Dispatch finds nothing it may start. *)
LEMMA DispatchEndStep ==
  ASSUME PipelineInvariant, DispatchEnd
  PROVE  PipelineInvariant'
<1> USE DEF PipelineInvariant, DispatchEnd, ring, irq, queue, gate, late
<1>1. /\ handler' \in HandlerType /\ handler'.step = "retire" /\ handler'.holder = handler.holder
      /\ handler'.queue = handler.queue /\ handler'.availableIndex = handler.availableIndex
  BY DEF TypeOK, HandlerType
<1>2. TypeOK'  BY <1>1 DEF TypeOK, Tokens
<1>3. HandlerIndices'  BY <1>1 DEF HandlerIndices, InProcessQueue, Indices
<1> QED  BY <1>2, <1>3, HandlerMoves

(* Retirement stops at a response that does not fit; nothing is lost. *)
LEMMA RetireThrowsStep ==
  ASSUME PipelineInvariant, NEW t \in Tokens, RetireThrows(t)
  PROVE  PipelineInvariant'
<1> USE DEF PipelineInvariant, RetireThrows, ring, irq, queue, gate, late
<1>1. CASE handler.resume = "dispatch"
  <2>1. /\ handler' \in HandlerType /\ handler'.step = "dispatch" /\ handler'.holder = handler.holder
        /\ handler'.queue = handler.queue /\ handler'.availableIndex = handler.availableIndex
    BY <1>1 DEF TypeOK, HandlerType
  <2>2. TypeOK'  BY <2>1 DEF TypeOK, Tokens
  <2>3. HandlerIndices'  BY <1>1, <2>1 DEF HandlerIndices, InProcessQueue, Indices
  <2> QED  BY <2>2, <2>3, HandlerMoves
<1>2. CASE handler.resume # "dispatch"
  <2>1. handler' = Idle  BY <1>2
  <2>2. TypeOK'  BY <2>1, HandlerTypes DEF TypeOK, Tokens, Idle
  <2> QED  BY <2>1, <2>2, IdleIndices, HandlerMoves
<1> QED  BY <1>1, <1>2

(* Retirement returns to whichever of its three callers is waiting. *)
LEMMA RetireEndStep ==
  ASSUME PipelineInvariant, RetireEnd
  PROVE  PipelineInvariant'
<1> USE DEF PipelineInvariant
<1>f. /\ handler.step = "retire"
      /\ UNCHANGED <<avail, offered, kick, used, seen, inISR, ready, lastAvailableIndex,
                     gpuCommands, nextGPUCommandToken, reservations, accelerator,
                     resetEpoch, delivering, posted, drains>>
  BY DEF RetireEnd, ring, irq, queue, gate, late
<1>0. handler.resume \in {"loop", "dispatch", "complete"} /\ handler.holder \in {"mmio", "host", "callback", "async"}
  BY <1>f DEF TypeOK, HandlerType
<1>a. interruptStatus' \in BOOLEAN  BY DEF TypeOK, RetireEnd
<1>1. CASE handler' = Idle
  <2>1. TypeOK'  BY <1>f, <1>a, <1>1, HandlerTypes DEF TypeOK, Tokens, Idle
  <2> QED  BY <1>1, <2>1, IdleIndices, HandlerMoves, <1>f
<1>2. ASSUME NEW q \in Queues, NEW b \in BOOLEAN, ready[q],
             handler' = ProcessQueue(handler.holder, q, b)
      PROVE  PipelineInvariant'
  <2>1. handler' \in HandlerType /\ handler'.holder = handler.holder /\ handler'.step = "stage"
    BY <1>0, <1>2, HandlerTypes
  <2>2. TypeOK'  BY <1>f, <1>a, <1>0, <2>1 DEF TypeOK, Tokens
  <2>3. HandlerIndices'
    <3>1. handler'.queue = q /\ handler'.availableIndex = Len(avail[q])
      BY <1>2 DEF ProcessQueue, Idle
    <3>2. RingIndices(q)  BY DEF Indices
    <3>3. UNCHANGED <<avail, ready, lastAvailableIndex>>  BY <1>f
    <3>4. Len(avail[q]) \in Nat  BY Types
    <3> QED  BY <3>1, <3>2, <3>3, <3>4, <1>2 DEF HandlerIndices, RingIndices
  <2> QED  BY <1>f, <2>2, <2>3, HandlerMoves
<1>3. ASSUME handler.resume # "complete", NEW st \in {"stage", "dispatch"}, NEW b \in BOOLEAN,
             handler' = [handler EXCEPT !.step = st, !.dispatched = b]
      PROVE  PipelineInvariant'
  <2>1. /\ handler' \in HandlerType /\ handler'.step = st /\ handler'.holder = handler.holder
        /\ handler'.queue = handler.queue /\ handler'.availableIndex = handler.availableIndex
    BY <1>3 DEF TypeOK, HandlerType
  <2>2. TypeOK'  BY <1>f, <1>a, <2>1, <1>3 DEF TypeOK, Tokens
  <2>3. HandlerIndices'  BY <1>f, <1>3, <2>1 DEF HandlerIndices, InProcessQueue, Indices
  <2> QED  BY <1>f, <2>2, <2>3, HandlerMoves
<1>4. CASE handler.resume = "dispatch"
  <2>1. handler' = [handler EXCEPT !.step = "dispatch", !.dispatched = handler.dispatched]
    BY <1>4 DEF RetireEnd, TypeOK, HandlerType
  <2> QED  BY <2>1, <1>3, <1>4 DEF TypeOK, HandlerType
<1>5. CASE handler.resume = "complete"
  <2>1. handler' = ProcessBoth(handler.holder)  BY <1>5 DEF RetireEnd
  <2> QED  BY <2>1, <1>1, <1>2 DEF ProcessBoth, Queues
<1>6. CASE handler.resume = "loop"
  <2>1. CASE handler.stagingError  BY <2>1, <1>1, <1>6 DEF RetireEnd
  <2>2. CASE ~handler.stagingError /\ handler.dispatched /\ HasRoom  BY <2>2, <1>3, <1>6 DEF RetireEnd
  <2>3. CASE ~handler.stagingError /\ ~(handler.dispatched /\ HasRoom)
    <3>1. handler' = QueueDone  BY <2>3, <1>6 DEF RetireEnd
    <3> QED  BY <3>1, <1>1, <1>2 DEF QueueDone, Queues
  <2> QED  BY <2>1, <2>2, <2>3
<1> QED  BY <1>0, <1>4, <1>5, <1>6

-----------------------------------------------------------------------------
(* The driver appends a request behind everything that is staged. *)
LEMMA OfferStep ==
  ASSUME PipelineInvariant, NEW s \in Shapes, Offer(s)
  PROVE  PipelineInvariant'
<1> USE DEF PipelineInvariant
<1>1. PICK q \in Queues, r \in RequestType :
        /\ q = s.queue /\ r.shape = s
        /\ avail' = [avail EXCEPT ![q] = Append(@, r)]
  <2>1. s.queue \in Queues  BY Types
  <2>2. [id |-> offered + 1, shape |-> s] \in RequestType  BY DEF TypeOK, RequestType
  <2> QED  BY <2>1, <2>2 DEF Offer
<1>2. /\ UNCHANGED <<used, seen, inISR, ready, lastAvailableIndex, interruptStatus, gpuCommands,
                     nextGPUCommandToken, handler, reservations, accelerator, resetEpoch,
                     delivering, posted, drains>>
      /\ offered' = offered + 1
      /\ kick' = [kick EXCEPT ![s.queue] = TRUE]
  BY DEF Offer, irq, queue, gate, late
<1>3. /\ avail'[q] = Append(avail[q], r)
      /\ \A p \in Queues : p # q => avail'[p] = avail[p]
  BY <1>1 DEF TypeOK
<1>4. \A p \in Queues : /\ Len(avail'[p]) \in Nat /\ Len(avail'[p]) >= Len(avail[p])
                        /\ \A i \in 1..Len(avail[p]) : avail'[p][i] = avail[p][i]
                        /\ \A i \in 1..Len(avail'[p]) :
                             i \in 1..Len(avail[p]) \/ (p = q /\ avail'[p][i] = r)
  <2> SUFFICES ASSUME NEW p \in Queues
               PROVE  /\ Len(avail'[p]) \in Nat /\ Len(avail'[p]) >= Len(avail[p])
                      /\ \A i \in 1..Len(avail[p]) : avail'[p][i] = avail[p][i]
                      /\ \A i \in 1..Len(avail'[p]) :
                           i \in 1..Len(avail[p]) \/ (p = q /\ avail'[p][i] = r)
    OBVIOUS
  <2>1. avail[p] \in Seq(RequestType) /\ Len(avail[p]) \in Nat  BY Types
  <2>2. CASE p = q
    <3>1. Len(avail'[p]) = Len(avail[p]) + 1  BY <1>3, <2>1, <2>2
    <3>2. \A i \in 1..Len(avail[p]) : avail'[p][i] = avail[p][i]  BY <1>3, <2>1, <2>2
    <3>3. avail'[p][Len(avail[p]) + 1] = r  BY <1>3, <2>1, <2>2
    <3> QED  BY <2>1, <2>2, <3>1, <3>2, <3>3
  <2>3. CASE p # q  BY <1>3, <2>1, <2>3
  <2> QED  BY <2>2, <2>3
<1>a. \A p \in Queues : Len(avail[p]) \in Nat /\ Len(used[p]) \in Nat /\ lastAvailableIndex[p] \in Nat
  BY Types
<1>b. Tokens' = Tokens  BY <1>2 DEF Tokens
<1>5. TypeOK'
  <2>1. avail' \in [Queues -> Seq(RequestType)]  BY <1>1 DEF TypeOK
  <2>2. kick' \in [Queues -> BOOLEAN] /\ offered' \in Nat  BY <1>1, <1>2 DEF TypeOK
  <2> QED  BY <1>2, <1>b, <2>1, <2>2 DEF TypeOK
<1>6. Indices'
  <2>1. ASSUME NEW p \in Queues  PROVE  RingIndices(p)'
    BY <1>1, <1>2, <1>4, <1>a DEF Indices, RingIndices
  <2>2. handler.queue \in Queues /\ handler.availableIndex \in Nat  BY DEF TypeOK, HandlerType
  <2> QED  BY <1>2, <1>4, <1>a, <2>1, <2>2 DEF Indices, InProcessQueue
<1>7. Positions'
  <2>1. \A t \in Tokens : QueueOf(t)' = QueueOf(t)  BY <1>2 DEF QueueOf
  <2>2. ASSUME NEW t \in Tokens'  PROVE  InItsPlace(t)'
    <3>1. /\ QueueOf(t) \in Queues /\ gpuCommands[t].position \in Nat
          /\ InItsPlace(t) /\ RingIndices(QueueOf(t))
      BY <1>b, Types DEF Positions, Indices
    <3>2. gpuCommands[t].position \in 1..Len(avail[QueueOf(t)])
      BY <3>1, <1>a DEF InItsPlace, RingIndices
    <3> QED  BY <3>1, <3>2, <1>2, <1>4, <1>b, <2>1 DEF InItsPlace
  <2>3. \A t, u \in Tokens' : InTokenOrder(t, u)'  BY <1>2, <1>b, <2>1 DEF Positions, InTokenOrder
  <2>4. \A p \in Queues, n \in Nat : PlaceIsStaged(p, n) => PlaceIsStaged(p, n)'
    BY <1>2, <1>b, <2>1 DEF PlaceIsStaged
  <2> QED  BY <1>2, <2>2, <2>3, <2>4, Types DEF Positions
<1>8. UsedInOrder'
  <2>1. ASSUME NEW p \in Queues
        PROVE  /\ Len(used[p]) <= Len(avail'[p])
               /\ \A n \in 1..Len(used[p]) : avail'[p][n] = avail[p][n]
    BY <1>4, <1>a DEF UsedInOrder
  <2> QED  BY <1>2, <2>1 DEF UsedInOrder
<1>9. Answers' /\ Reserved' /\ HazardOrder'
  BY <1>2, <1>b DEF Answers, AnswerIsOwn, Reserved, ReservedFor, HazardOrder
<1>10. Late'  BY <1>2, <1>b DEF Late, LateFor
<1> QED  BY <1>5, <1>6, <1>7, <1>8, <1>9, <1>10

(* A queue that becomes ready has fresh rings and nothing staged. *)
LEMMA EnableStep ==
  ASSUME PipelineInvariant, NEW q \in Queues, EnableQueue(q)
  PROVE  PipelineInvariant'
<1> USE DEF PipelineInvariant
<1>1. /\ handler.holder = "free" /\ ~ready[q]
      /\ ready' = [ready EXCEPT ![q] = TRUE]
      /\ avail' = [avail EXCEPT ![q] = <<>>]
      /\ used' = [used EXCEPT ![q] = <<>>]
      /\ seen' = [seen EXCEPT ![q] = 0]
      /\ kick' = [kick EXCEPT ![q] = FALSE]
      /\ UNCHANGED <<offered, inISR, lastAvailableIndex, interruptStatus, gpuCommands,
                     nextGPUCommandToken, handler, reservations, accelerator, resetEpoch,
                     delivering, posted, drains>>
  BY DEF EnableQueue, gate, late
<1>2. /\ ready'[q] /\ avail'[q] = <<>> /\ used'[q] = <<>> /\ lastAvailableIndex[q] = 0
      /\ \A p \in Queues : p # q => /\ ready'[p] = ready[p] /\ avail'[p] = avail[p]
                                     /\ used'[p] = used[p]
  BY <1>1 DEF TypeOK, Indices, RingIndices
<1>b. Tokens' = Tokens  BY <1>1 DEF Tokens
<1>3. TypeOK'
  <2>1. /\ ready' \in [Queues -> BOOLEAN] /\ kick' \in [Queues -> BOOLEAN]
        /\ seen' \in [Queues -> Nat]
    BY <1>1 DEF TypeOK
  <2>2. /\ avail' \in [Queues -> Seq(RequestType)]
        /\ used' \in [Queues -> Seq([id : Nat \ {0}, response : Int])]
    BY <1>1 DEF TypeOK
  <2> QED  BY <1>1, <1>b, <2>1, <2>2 DEF TypeOK
<1>4. Indices'
  <2>1. ASSUME NEW p \in Queues  PROVE  RingIndices(p)'
    <3>1. CASE p = q  BY <3>1, <1>1, <1>2 DEF RingIndices
    <3>2. CASE p # q  BY <3>2, <1>1, <1>2 DEF RingIndices, Indices
    <3> QED  BY <3>1, <3>2
  <2>2. ~InProcessQueue'  BY <1>1 DEF TypeOK, InProcessQueue
  <2> QED  BY <2>1, <2>2 DEF Indices
<1>5. Positions'
  <2>1. \A t \in Tokens : QueueOf(t)' = QueueOf(t) /\ QueueOf(t) \in Queues /\ QueueOf(t) # q
    BY <1>1, Types DEF QueueOf, Positions, InItsPlace
  <2>2. \A t \in Tokens' : InItsPlace(t)'
    BY <1>1, <1>2, <1>b, <2>1 DEF Positions, InItsPlace
  <2>3. \A t, u \in Tokens' : InTokenOrder(t, u)'  BY <1>1, <1>b, <2>1 DEF Positions, InTokenOrder
  <2>4. \A p \in Queues, n \in Nat : PlaceIsStaged(p, n) => PlaceIsStaged(p, n)'
    BY <1>1, <1>b, <2>1 DEF PlaceIsStaged
  <2>5. ASSUME NEW p \in Queues, ready'[p],
               NEW n \in (Len(used[p]) + 1 .. lastAvailableIndex[p])'
        PROVE  PlaceIsStaged(p, n)'
    <3>1. CASE p = q  BY <3>1, <2>5, <1>1, <1>2
    <3>2. CASE p # q  BY <3>2, <2>4, <2>5, <1>1, <1>2 DEF Positions
    <3> QED  BY <3>1, <3>2
  <2> QED  BY <2>2, <2>3, <2>5 DEF Positions
<1>6. UsedInOrder'
  <2>1. ASSUME NEW p \in Queues
        PROVE  /\ Len(used'[p]) <= Len(avail'[p])
               /\ \A n \in 1..Len(used'[p]) : used'[p][n].id = avail'[p][n].id
                                              /\ used'[p][n].response = avail'[p][n].id
    <3>1. CASE p = q  BY <3>1, <1>2
    <3>2. CASE p # q  BY <3>2, <1>2 DEF UsedInOrder
    <3> QED  BY <3>1, <3>2
  <2> QED  BY <2>1 DEF UsedInOrder
<1>7. Answers' /\ Reserved' /\ HazardOrder'
  BY <1>1, <1>b DEF Answers, AnswerIsOwn, Reserved, ReservedFor, HazardOrder
<1>8. Late'  BY <1>1, <1>b DEF Late, LateFor
<1> QED  BY <1>3, <1>4, <1>5, <1>6, <1>7, <1>8

(* Reset forgets the staged commands before it waits for the accelerator. *)
LEMMA BeginResetStep ==
  ASSUME PipelineInvariant, BeginReset
  PROVE  PipelineInvariant'
<1> USE DEF PipelineInvariant
<1>1. /\ ready' = [q \in Queues |-> FALSE]
      /\ lastAvailableIndex' = [q \in Queues |-> 0]
      /\ interruptStatus' = FALSE /\ drains' = drains + 1
      /\ Tokens' = {} /\ gpuCommands' = [t \in {} |-> 0]
      /\ handler' = [Idle EXCEPT !.holder = "mmio", !.step = "reset"]
      /\ UNCHANGED <<avail, offered, kick, used, seen, inISR, nextGPUCommandToken,
                     reservations, accelerator, resetEpoch, delivering, posted>>
  BY DEF BeginReset, CommandsAfterReset, TokenAfterReset, Tokens, ring, irq, gate, late
<1>2. handler' \in HandlerType /\ handler'.holder = "mmio" /\ handler'.step = "reset"
  BY <1>1 DEF HandlerType, Idle, Queues, Control, Cursor
<1>3. TypeOK'
  <2>1. gpuCommands' \in [Tokens' -> CommandType]  BY <1>1
  <2>2. ready' \in [Queues -> BOOLEAN] /\ lastAvailableIndex' \in [Queues -> Nat]  BY <1>1
  <2>3. Tokens' \subseteq 1..nextGPUCommandToken' /\ drains' \in Nat  BY <1>1 DEF TypeOK
  <2>4. handler'.holder = "free" <=> handler'.step = "idle"  BY <1>2
  <2> HIDE DEF PipelineInvariant
  <2>5. TypeOK  BY DEF PipelineInvariant
  <2> QED  BY <1>1, <1>2, <2>1, <2>2, <2>3, <2>4, <2>5 DEF TypeOK
<1>4. Indices'
  BY <1>1, <1>2, Types DEF Indices, RingIndices, InProcessQueue
<1>5. Positions' /\ Answers' /\ HazardOrder'
  BY <1>1 DEF Positions, Answers, HazardOrder
<1>6. Reserved' /\ Late' /\ UsedInOrder'
  BY <1>1, <1>2 DEF Reserved, ReservedFor, Late, LateFor, UsedInOrder
<1> QED  BY <1>3, <1>4, <1>5, <1>6

(* Both drains end with an empty gate. *)
LEMMA FinishDrainStep ==
  ASSUME PipelineInvariant, FinishReset \/ FinishReplaceAccelerator
  PROVE  PipelineInvariant'
<1> USE DEF PipelineInvariant
<1>1. /\ DOMAIN reservations = {} /\ handler' = Idle
      /\ accelerator' \in BOOLEAN /\ resetEpoch' \in Nat
      /\ UNCHANGED <<avail, offered, kick, used, seen, inISR, ready, lastAvailableIndex,
                     interruptStatus, gpuCommands, nextGPUCommandToken, reservations,
                     delivering, posted, drains>>
  BY DEF FinishReset, FinishReplaceAccelerator, Drained, TypeOK, ring, irq, queue, late
<1>b. Tokens' = Tokens  BY <1>1 DEF Tokens
<1>2. TypeOK'  BY <1>1, <1>b, HandlerTypes DEF TypeOK, Idle
<1>3. Positions' /\ UsedInOrder' /\ \A q \in Queues : RingIndices(q)'
  BY <1>1, <1>b, PlacesUnchanged
<1>4. Indices'
  BY <1>1, <1>3, IdleIndices DEF Indices, HandlerIndices
<1>5. Answers' /\ HazardOrder' /\ Reserved'
  BY <1>1, <1>b DEF Answers, AnswerIsOwn, HazardOrder, Reserved
<1>6. Late'  BY <1>1, <1>b DEF Late, LateFor
<1> QED  BY <1>2, <1>3, <1>4, <1>5, <1>6

-----------------------------------------------------------------------------
(* What nextRunnableGPUCommand returns conflicts with no unfinished earlier *)
(* command.                                                                 *)
LEMMA RunnableIsOrdered ==
  ASSUME PipelineInvariant, NEW t \in Tokens, Runnable(t), NEW u \in Tokens, u < t,
         Conflicts(gpuCommands[t].shape, gpuCommands[u].shape)
  PROVE  gpuCommands[u].response # NoResponse
BY DEF Runnable, Active

(* The effect on a command of starting or answering it. *)
LEMMA CommandUpdate ==
  ASSUME PipelineInvariant, NEW t \in Tokens, NEW r \in {NoResponse, gpuCommands[t].id},
         gpuCommands' = [gpuCommands EXCEPT ![t].started = TRUE, ![t].response = r]
  PROVE  /\ Tokens' = Tokens
         /\ gpuCommands' \in [Tokens -> CommandType]
         /\ gpuCommands'[t].started /\ gpuCommands'[t].response = r
         /\ \A u \in Tokens : /\ gpuCommands'[u].id = gpuCommands[u].id
                              /\ gpuCommands'[u].shape = gpuCommands[u].shape
                              /\ gpuCommands'[u].position = gpuCommands[u].position
                              /\ u # t => gpuCommands'[u] = gpuCommands[u]
         /\ Answers'
<1> USE DEF PipelineInvariant, NoResponse
<1>1. Tokens' = Tokens  BY DEF Tokens, TypeOK
<1>2. gpuCommands[t] \in CommandType /\ r \in Int  BY Types DEF CommandType
<1>3. gpuCommands' = [gpuCommands EXCEPT ![t] = [gpuCommands[t] EXCEPT !.started = TRUE, !.response = r]]
  BY DEF TypeOK, Tokens
<1>4. [gpuCommands[t] EXCEPT !.started = TRUE, !.response = r] \in CommandType
  BY <1>2 DEF CommandType
<1>5. gpuCommands' \in [Tokens -> CommandType]
  BY <1>3, <1>4 DEF TypeOK
<1>6. gpuCommands'[t] = [gpuCommands[t] EXCEPT !.started = TRUE, !.response = r]
      /\ \A u \in Tokens : u # t => gpuCommands'[u] = gpuCommands[u]
  BY <1>3 DEF TypeOK, Tokens
<1>x. PICK half : half = [gpuCommands[t] EXCEPT !.started = TRUE]  OBVIOUS
<1>y. /\ half.started = TRUE /\ half.id = gpuCommands[t].id
      /\ half.shape = gpuCommands[t].shape /\ half.position = gpuCommands[t].position
      /\ half \in CommandType
  BY <1>2, <1>x DEF CommandType
<1>z. gpuCommands'[t] = [half EXCEPT !.response = r]  BY <1>6, <1>x
<1>7. /\ gpuCommands'[t].started = TRUE /\ gpuCommands'[t].response = r
      /\ gpuCommands'[t].id = gpuCommands[t].id
      /\ gpuCommands'[t].shape = gpuCommands[t].shape
      /\ gpuCommands'[t].position = gpuCommands[t].position
  BY <1>y, <1>z DEF CommandType
<1>8. Answers'
  <2>1. AnswerIsOwn(t)'  BY <1>7 DEF AnswerIsOwn
  <2>2. ASSUME NEW u \in Tokens, u # t  PROVE  AnswerIsOwn(u)'
    BY <1>6, <2>2 DEF Answers, AnswerIsOwn
  <2> QED  BY <1>1, <2>1, <2>2 DEF Answers
<1> QED  BY <1>1, <1>5, <1>6, <1>7, <1>8

(* Dispatch moves on within processGPUQueue. *)
LEMMA DispatchHandler ==
  ASSUME PipelineInvariant, handler.step = "dispatch",
         UNCHANGED <<avail, ready, lastAvailableIndex>>,
         \/ handler' = [handler EXCEPT !.dispatched = TRUE]
         \/ handler' = [handler EXCEPT !.dispatched = TRUE, !.step = "retire", !.resume = "dispatch"]
  PROVE  /\ handler' \in HandlerType /\ HandlerIndices'
         /\ handler'.holder = "free" <=> handler'.step = "idle"
         /\ handler'.step # "reset"
<1>1. /\ handler' \in HandlerType /\ handler'.queue = handler.queue
      /\ handler'.availableIndex = handler.availableIndex /\ handler'.holder = handler.holder
      /\ handler'.step \in {"dispatch", "retire"}
  BY DEF PipelineInvariant, TypeOK, HandlerType
<1>2. handler.holder # "free"  BY DEF PipelineInvariant, TypeOK
<1> QED  BY <1>1, <1>2 DEF HandlerIndices, PipelineInvariant, Indices, InProcessQueue

(* A command that is answered at once. *)
LEMMA DispatchAnsweredStep ==
  ASSUME PipelineInvariant, NEW t \in Tokens, DispatchNow(t) \/ DispatchInline(t)
  PROVE  PipelineInvariant'
<1> USE DEF PipelineInvariant
<1>1. /\ handler.step = "dispatch" /\ Runnable(t)
      /\ gpuCommands' = [gpuCommands EXCEPT ![t].started = TRUE, ![t].response = gpuCommands[t].id]
      /\ \/ handler' = [handler EXCEPT !.dispatched = TRUE]
         \/ handler' = [handler EXCEPT !.dispatched = TRUE, !.step = "retire", !.resume = "dispatch"]
      /\ UNCHANGED <<avail, offered, kick, used, seen, inISR, ready, lastAvailableIndex,
                     interruptStatus, nextGPUCommandToken, reservations, accelerator,
                     resetEpoch, delivering, posted, drains>>
  BY DEF DispatchNow, DispatchInline, IsNextRunnable, ring, irq, queue, gate, late
<1>2. /\ Tokens' = Tokens
      /\ gpuCommands' \in [Tokens -> CommandType]
      /\ gpuCommands'[t].started /\ gpuCommands'[t].response = gpuCommands[t].id
      /\ \A u \in Tokens : /\ gpuCommands'[u].id = gpuCommands[u].id
                           /\ gpuCommands'[u].shape = gpuCommands[u].shape
                           /\ gpuCommands'[u].position = gpuCommands[u].position
                           /\ u # t => gpuCommands'[u] = gpuCommands[u]
      /\ Answers'
  BY <1>1, CommandUpdate
<1>3. /\ handler' \in HandlerType /\ HandlerIndices'
      /\ handler'.holder = "free" <=> handler'.step = "idle"
      /\ handler'.step # "reset"
  BY <1>1, DispatchHandler
<1>4. TypeOK'  BY <1>1, <1>2, <1>3 DEF TypeOK
<1>5. Positions' /\ UsedInOrder' /\ \A q \in Queues : RingIndices(q)'
  BY <1>1, <1>2, PlacesUnchanged
<1>6. Indices'  BY <1>3, <1>5 DEF Indices, HandlerIndices
<1>7. ~gpuCommands[t].started  BY <1>1 DEF Runnable
<1>8. Reserved'  BY <1>1, <1>2, <1>3, <1>7 DEF Reserved, ReservedFor
<1>9. Late'
  <2>1. ASSUME NEW d, LateFor(d)  PROVE  LateFor(d)'
    BY <1>1, <1>2, <2>1 DEF LateFor
  <2> QED  BY <1>1, <2>1 DEF Late
<1>10. HazardOrder'
  <2> SUFFICES ASSUME NEW v \in Tokens, NEW u \in Tokens, u < v, gpuCommands'[v].started,
                      Conflicts(gpuCommands[v].shape, gpuCommands[u].shape)
               PROVE  gpuCommands'[u].response # NoResponse
    BY <1>2 DEF HazardOrder
  <2>1. gpuCommands[t].id # NoResponse  BY Types DEF NoResponse
  <2>2. CASE u = t  BY <1>2, <2>1, <2>2
  <2>3. CASE u # t /\ v = t  BY <1>1, <1>2, <2>3, RunnableIsOrdered
  <2>4. CASE u # t /\ v # t  BY <1>2, <2>4 DEF HazardOrder
  <2> QED  BY <2>2, <2>3, <2>4
<1> QED  BY <1>2, <1>4, <1>5, <1>6, <1>8, <1>9, <1>10

(* A command that is handed to the accelerator. *)
LEMMA DispatchDeferredStep ==
  ASSUME PipelineInvariant, NEW t \in Tokens, DispatchDeferred(t)
  PROVE  PipelineInvariant'
<1> USE DEF PipelineInvariant
<1> DEFINE new == [id |-> gpuCommands[t].id, shape |-> gpuCommands[t].shape, epoch |-> resetEpoch]
<1>1. /\ handler.step = "dispatch" /\ Runnable(t) /\ accelerator
      /\ gpuCommands' = [gpuCommands EXCEPT ![t].started = TRUE]
      /\ reservations' = [r \in DOMAIN reservations \cup {t} |->
                            IF r = t THEN new ELSE reservations[r]]
      /\ handler' = [handler EXCEPT !.dispatched = TRUE]
      /\ UNCHANGED <<avail, offered, kick, used, seen, inISR, ready, lastAvailableIndex,
                     interruptStatus, nextGPUCommandToken, accelerator,
                     resetEpoch, delivering, posted, drains>>
  BY DEF DispatchDeferred, IsNextRunnable, ring, irq, queue, late
<1>2. ~gpuCommands[t].started /\ gpuCommands[t].response = NoResponse
  BY <1>1 DEF Runnable, Answers, AnswerIsOwn
<1>3. gpuCommands' = [gpuCommands EXCEPT ![t].started = TRUE, ![t].response = NoResponse]
  BY <1>1, <1>2 DEF TypeOK, CommandType
<1>4. /\ Tokens' = Tokens
      /\ gpuCommands' \in [Tokens -> CommandType]
      /\ gpuCommands'[t].started /\ gpuCommands'[t].response = NoResponse
      /\ \A u \in Tokens : /\ gpuCommands'[u].id = gpuCommands[u].id
                           /\ gpuCommands'[u].shape = gpuCommands[u].shape
                           /\ gpuCommands'[u].position = gpuCommands[u].position
                           /\ u # t => gpuCommands'[u] = gpuCommands[u]
      /\ Answers'
  BY <1>3, CommandUpdate
<1>5. /\ handler' \in HandlerType /\ HandlerIndices'
      /\ handler'.holder = "free" <=> handler'.step = "idle"
      /\ handler'.step # "reset"
  BY <1>1, DispatchHandler
<1>6. /\ DOMAIN reservations' = DOMAIN reservations \cup {t}
      /\ reservations'[t] = new
      /\ \A r \in DOMAIN reservations : r # t => reservations'[r] = reservations[r]
  BY <1>1
<1>7. TypeOK'
  <2>1. new \in [id : Nat \ {0}, shape : Shapes, epoch : Nat]  BY Types DEF TypeOK
  <2>2. reservations' \in [DOMAIN reservations' -> [id : Nat \ {0}, shape : Shapes, epoch : Nat]]
    BY <1>1, <1>6, <2>1 DEF TypeOK
  <2>3. DOMAIN reservations' \subseteq 1..nextGPUCommandToken  BY <1>6 DEF TypeOK
  <2> QED  BY <1>1, <1>4, <1>5, <2>2, <2>3 DEF TypeOK
<1>8. Positions' /\ UsedInOrder' /\ \A q \in Queues : RingIndices(q)'
  BY <1>1, <1>4, PlacesUnchanged
<1>9. Indices'  BY <1>5, <1>8 DEF Indices, HandlerIndices
<1>10. Reserved'
  <2> SUFFICES ASSUME NEW r \in DOMAIN reservations'  PROVE  ReservedFor(r)'
    BY DEF Reserved
  <2>1. CASE r = t  BY <2>1, <1>1, <1>4, <1>6 DEF ReservedFor
  <2>2. CASE r # t  BY <2>2, <1>1, <1>4, <1>6 DEF Reserved, ReservedFor
  <2> QED  BY <2>1, <2>2
<1>11. Late'
  <2>1. ASSUME NEW d, LateFor(d)  PROVE  LateFor(d)'
    BY <1>1, <1>2, <1>4, <1>6, <2>1 DEF LateFor
  <2> QED  BY <1>1, <2>1 DEF Late
<1>12. HazardOrder'
  <2> SUFFICES ASSUME NEW v \in Tokens, NEW u \in Tokens, u < v, gpuCommands'[v].started,
                      Conflicts(gpuCommands[v].shape, gpuCommands[u].shape)
               PROVE  gpuCommands'[u].response # NoResponse
    BY <1>4 DEF HazardOrder
  <2>1. gpuCommands'[u].response = gpuCommands[u].response  BY <1>2, <1>4
  <2>2. CASE v = t  BY <1>1, <2>1, <2>2, RunnableIsOrdered
  <2>3. CASE v # t  BY <1>4, <2>1, <2>3 DEF HazardOrder
  <2> QED  BY <2>2, <2>3
<1> QED  BY <1>4, <1>7, <1>8, <1>9, <1>10, <1>11, <1>12

-----------------------------------------------------------------------------
(* The command that retires stands in the first open place of its ring. *)
LEMMA RetiresFirstPlace ==
  ASSUME PipelineInvariant, NEW t \in Tokens, Retirable(t)
  PROVE  gpuCommands[t].position = Len(used[QueueOf(t)]) + 1
<1> USE DEF PipelineInvariant
<1> DEFINE q == QueueOf(t)
           p == Len(used[q]) + 1
<1>1. q \in Queues /\ gpuCommands[t].position \in Nat /\ t \in Nat /\ Len(used[q]) \in Nat
      /\ lastAvailableIndex[q] \in Nat
  BY Types
<1>2. ready[q] /\ Len(used[q]) < gpuCommands[t].position
      /\ gpuCommands[t].position <= lastAvailableIndex[q]
  BY DEF Positions, InItsPlace
<1>3. p \in Len(used[q]) + 1 .. lastAvailableIndex[q]  BY <1>1, <1>2
<1>4. PlaceIsStaged(q, p)  BY <1>1, <1>2, <1>3 DEF Positions
<1>5. PICK u \in Tokens : QueueOf(u) = q /\ gpuCommands[u].position = p  BY <1>4 DEF PlaceIsStaged
<1>6. ~(u < t)  BY <1>5 DEF Retirable, QueueOf
<1>7. t < u => gpuCommands[t].position < p  BY <1>5 DEF Positions, InTokenOrder
<1>8. ~(t < u)  BY <1>1, <1>2, <1>7
<1>9. t = u  BY <1>1, <1>6, <1>8, Types
<1> QED  BY <1>5, <1>9

(* Retirement publishes that place and frees the command. *)
LEMMA RetireStep ==
  ASSUME PipelineInvariant, NEW t \in Tokens, Retire(t)
  PROVE  PipelineInvariant'
<1> USE DEF PipelineInvariant
<1>1. PICK q \in Queues, e \in [id : Nat \ {0}, response : Int] :
        /\ q = QueueOf(t)
        /\ e = [id |-> gpuCommands[t].id, response |-> gpuCommands[t].response]
        /\ used' = [used EXCEPT ![q] = Append(@, e)]
  BY Types DEF Retire, QueueOf, TypeOK, CommandType
<1>2. /\ handler.step = "retire" /\ Retirable(t)
      /\ gpuCommands' = [u \in Tokens \ {t} |-> gpuCommands[u]]
      /\ interruptStatus' = TRUE
      /\ UNCHANGED <<avail, offered, kick, seen, inISR, ready, lastAvailableIndex,
                     nextGPUCommandToken, handler, reservations, accelerator,
                     resetEpoch, delivering, posted, drains>>
  BY DEF Retire, IsNextRetirable, ring, irq, queue, gate, late
<1>3. /\ Tokens' = Tokens \ {t}
      /\ \A u \in Tokens' : gpuCommands'[u] = gpuCommands[u]
  BY <1>2 DEF Tokens
<1>4. gpuCommands[t].response = gpuCommands[t].id
  BY <1>2 DEF Retirable, Answers, AnswerIsOwn
<1>5. e \in [id : Nat \ {0}, response : Int] /\ e.id = gpuCommands[t].id
      /\ e.response = gpuCommands[t].id
  BY <1>1, <1>4, Types
<1>6. /\ used[q] \in Seq([id : Nat \ {0}, response : Int])
      /\ used'[q] = Append(used[q], e)
      /\ \A p \in Queues : p # q => used'[p] = used[p]
  BY <1>1 DEF TypeOK
<1>7. /\ Len(used'[q]) = Len(used[q]) + 1 /\ Len(used[q]) \in Nat
      /\ \A i \in 1..Len(used[q]) : used'[q][i] = used[q][i]
      /\ used'[q][Len(used[q]) + 1] = e
  BY <1>5, <1>6
<1>8. gpuCommands[t].position = Len(used[q]) + 1
  BY <1>1, <1>2, RetiresFirstPlace
<1>a. \A p \in Queues : Len(avail[p]) \in Nat /\ Len(used[p]) \in Nat /\ lastAvailableIndex[p] \in Nat
  BY Types
<1>b. \A u \in Tokens : u \in Nat /\ QueueOf(u) \in Queues /\ gpuCommands[u].position \in Nat
  BY Types
<1>9. TypeOK'
  <2>1. used' \in [Queues -> Seq([id : Nat \ {0}, response : Int])]
    BY <1>1, <1>5 DEF TypeOK
  <2>2. gpuCommands' \in [Tokens' -> CommandType] /\ Tokens' \subseteq 1..nextGPUCommandToken
    BY <1>2, <1>3 DEF TypeOK
  <2> QED  BY <1>2, <2>1, <2>2 DEF TypeOK
<1>10. InItsPlace(t)  BY DEF Positions
<1>11. Indices'
  <2>1. ASSUME NEW p \in Queues  PROVE  RingIndices(p)'
    <3>1. CASE p = q
      BY <3>1, <1>1, <1>2, <1>7, <1>8, <1>10, <1>a DEF Indices, RingIndices, InItsPlace
    <3>2. CASE p # q
      BY <3>2, <1>2, <1>6 DEF Indices, RingIndices
    <3> QED  BY <3>1, <3>2
  <2> QED  BY <1>2, <2>1 DEF Indices, InProcessQueue
<1>12. Positions'
  <2>1. \A u \in Tokens' : QueueOf(u)' = QueueOf(u)  BY <1>3 DEF QueueOf
  <2>2. ASSUME NEW u \in Tokens'  PROVE  InItsPlace(u)'
    <3>1. u \in Tokens /\ u # t /\ InItsPlace(u)  BY <1>3 DEF Positions
    <3>2. CASE QueueOf(u) = q
      <4>1. gpuCommands[u].position # gpuCommands[t].position
        BY <3>1, <3>2, <1>1, <1>b DEF Positions, InTokenOrder
      <4>2. /\ QueueOf(u)' = q /\ gpuCommands'[u] = gpuCommands[u]
            /\ lastAvailableIndex' = lastAvailableIndex /\ ready' = ready /\ avail' = avail
        BY <3>2, <2>1, <1>2, <1>3
      <4>3. /\ ready[q] /\ Len(used[q]) < gpuCommands[u].position
            /\ gpuCommands[u].position <= lastAvailableIndex[q]
            /\ avail[q][gpuCommands[u].position].id = gpuCommands[u].id
        BY <3>1, <3>2 DEF InItsPlace
      <4>4. Len(used'[q]) < gpuCommands[u].position
        BY <4>1, <4>3, <3>1, <1>7, <1>8, <1>b
      <4> QED  BY <4>2, <4>3, <4>4 DEF InItsPlace
    <3>3. CASE QueueOf(u) # q
      BY <3>1, <3>3, <2>1, <1>2, <1>3, <1>6, <1>b DEF InItsPlace
    <3> QED  BY <3>2, <3>3
  <2>3. \A v, u \in Tokens' : InTokenOrder(v, u)'
    BY <2>1, <1>3 DEF Positions, InTokenOrder
  <2>4. ASSUME NEW p \in Queues, ready'[p],
               NEW n \in (Len(used[p]) + 1 .. lastAvailableIndex[p])'
        PROVE  PlaceIsStaged(p, n)'
    <3>1. n \in Len(used[p]) + 1 .. lastAvailableIndex[p] /\ (p = q => n # gpuCommands[t].position)
      BY <2>4, <1>2, <1>6, <1>7, <1>8, <1>a
    <3>2. PICK u \in Tokens : QueueOf(u) = p /\ gpuCommands[u].position = n
      BY <3>1, <2>4, <1>2 DEF Positions, PlaceIsStaged
    <3>3. u # t  BY <3>1, <3>2, <1>1
    <3> QED  BY <3>2, <3>3, <2>1, <1>3 DEF PlaceIsStaged
  <2> QED  BY <2>2, <2>3, <2>4 DEF Positions
<1>13. UsedInOrder'
  <2> SUFFICES ASSUME NEW p \in Queues
               PROVE  /\ Len(used'[p]) <= Len(avail[p])
                      /\ \A n \in 1..Len(used'[p]) :
                           used'[p][n].id = avail[p][n].id /\ used'[p][n].response = avail[p][n].id
    BY <1>2 DEF UsedInOrder
  <2>1. CASE p = q
    <3>1. Len(used[q]) + 1 <= lastAvailableIndex[q] /\ lastAvailableIndex[q] <= Len(avail[q])
          /\ avail[q][Len(used[q]) + 1].id = gpuCommands[t].id
      BY <1>1, <1>8, <1>10 DEF InItsPlace, Indices, RingIndices
    <3>2. Len(used'[q]) <= Len(avail[q])  BY <3>1, <1>7, <1>a
    <3>3. ASSUME NEW n \in 1..Len(used'[q])
          PROVE  used'[q][n].id = avail[q][n].id /\ used'[q][n].response = avail[q][n].id
      <4>1. CASE n = Len(used[q]) + 1  BY <4>1, <3>1, <1>5, <1>7
      <4>2. CASE n # Len(used[q]) + 1
        <5>1. n \in 1..Len(used[q])  BY <4>2, <1>7
        <5> QED  BY <5>1, <1>7 DEF UsedInOrder
      <4> QED  BY <4>1, <4>2
    <3> QED  BY <2>1, <3>2, <3>3
  <2>2. CASE p # q  BY <2>2, <1>6 DEF UsedInOrder
  <2> QED  BY <2>1, <2>2
<1>14. Answers' /\ HazardOrder'
  BY <1>3 DEF Answers, AnswerIsOwn, HazardOrder
<1>15. t \notin DOMAIN reservations
  BY <1>2 DEF Reserved, ReservedFor, Retirable
<1>16. Reserved'  BY <1>2, <1>3, <1>15 DEF Reserved, ReservedFor
<1>17. Late'
  <2>1. ASSUME NEW d, LateFor(d)  PROVE  LateFor(d)'
    BY <1>2, <1>3, <2>1 DEF LateFor
  <2> QED  BY <1>2, <2>1 DEF Late
<1> QED  BY <1>9, <1>11, <1>12, <1>13, <1>14, <1>16, <1>17

-----------------------------------------------------------------------------
(* A callback releases its reservation and is on its way to the queue. *)
LEMMA AcceleratorCompletesStep ==
  ASSUME PipelineInvariant, NEW t \in DOMAIN reservations, AcceleratorCompletes(t)
  PROVE  PipelineInvariant'
<1> USE DEF PipelineInvariant
<1>0. PICK d : d = [token |-> t, response |-> reservations[t].id]  OBVIOUS
<1>1. reservations[t].epoch = resetEpoch /\ t \in 1..nextGPUCommandToken
  BY DEF Reserved, ReservedFor, TypeOK
<1>2. /\ delivering' = delivering \cup {d}
      /\ reservations' = [r \in DOMAIN reservations \ {t} |-> reservations[r]]
      /\ UNCHANGED <<avail, offered, kick, used, seen, inISR, ready, lastAvailableIndex,
                     interruptStatus, gpuCommands, nextGPUCommandToken, handler, accelerator,
                     resetEpoch, posted, drains>>
  BY <1>0, <1>1 DEF AcceleratorCompletes, ring, irq, queue
<1>3. /\ DOMAIN reservations' = DOMAIN reservations \ {t}
      /\ \A r \in DOMAIN reservations' : reservations'[r] = reservations[r]
  BY <1>2
<1>b. Tokens' = Tokens  BY <1>2 DEF Tokens
<1>4. d \in CompletionType
  BY <1>0, <1>1 DEF TypeOK, CompletionType
<1>5. TypeOK'
  <2>1. reservations' \in [DOMAIN reservations' -> [id : Nat \ {0}, shape : Shapes, epoch : Nat]]
    BY <1>2, <1>3 DEF TypeOK
  <2>2. DOMAIN reservations' \subseteq 1..nextGPUCommandToken  BY <1>3 DEF TypeOK
  <2>3. delivering' \subseteq CompletionType  BY <1>2, <1>4 DEF TypeOK
  <2> QED  BY <1>2, <1>b, <2>1, <2>2, <2>3 DEF TypeOK
<1>6. Positions' /\ UsedInOrder' /\ \A q \in Queues : RingIndices(q)'
  BY <1>2, <1>b, PlacesUnchanged
<1>7. Indices'  BY <1>2, <1>6 DEF Indices, InProcessQueue
<1>8. Answers' /\ HazardOrder'
  BY <1>2, <1>b DEF Answers, AnswerIsOwn, HazardOrder
<1>9. Reserved'  BY <1>2, <1>3, <1>b DEF Reserved, ReservedFor
<1>10. Late'
  <2>1. ASSUME NEW x, LateFor(x)  PROVE  LateFor(x)'
    BY <1>2, <1>3, <1>b, <2>1 DEF LateFor
  <2>2. LateFor(d)'
    <3>1. t \notin DOMAIN reservations'  BY <1>3
    <3>2. t \in Tokens => gpuCommands[t].started /\ reservations[t].id = gpuCommands[t].id
      BY DEF Reserved, ReservedFor
    <3> QED  BY <1>0, <1>1, <1>2, <1>b, <3>1, <3>2 DEF LateFor
  <2> QED  BY <1>2, <2>1, <2>2 DEF Late
<1> QED  BY <1>5, <1>6, <1>7, <1>8, <1>9, <1>10

(* What is left of the dispatch queue when a closure has run. *)
LEMMA TailShifts ==
  ASSUME NEW S, NEW seq \in Seq(S), seq # <<>>
  PROVE  /\ Tail(seq) \in Seq(S)
         /\ \A i \in 1..Len(Tail(seq)) : \E j \in 1..Len(seq) : Tail(seq)[i] = seq[j]
<1>1. /\ Tail(seq) \in Seq(S) /\ Len(Tail(seq)) = Len(seq) - 1 /\ Len(seq) \in Nat
  OBVIOUS
<1>2. ASSUME NEW i \in 1..Len(Tail(seq))
      PROVE  Tail(seq)[i] = seq[i + 1] /\ i + 1 \in 1..Len(seq)
  BY <1>1
<1> QED  BY <1>1, <1>2

(* A completion reaches the queue: it answers its command, or finds that a  *)
(* reset has removed it.                                                    *)
LEMMA CompleteLockedStep ==
  ASSUME PipelineInvariant, NEW d \in CompletionType, LateFor(d),
         NEW holder \in {"callback", "async"},
         handler.holder = "free", CompleteLocked(d, holder),
         delivering' \subseteq delivering,
         posted' = posted \/ (posted # <<>> /\ posted' = Tail(posted)),
         UNCHANGED <<avail, offered, kick, used, seen, inISR, ready, lastAvailableIndex,
                     interruptStatus, nextGPUCommandToken, reservations, accelerator,
                     resetEpoch, drains>>
  PROVE  PipelineInvariant'
<1> USE DEF PipelineInvariant
<1>1. posted' \in Seq(CompletionType) /\ \A i \in 1..Len(posted') : \E j \in 1..Len(posted) : posted'[i] = posted[j]
  <2>1. CASE posted' = posted  BY <2>1 DEF TypeOK
  <2>2. CASE posted # <<>> /\ posted' = Tail(posted)
    <3> QED  BY <2>2, TailShifts DEF TypeOK
  <2> QED  BY <2>1, <2>2
<1>2. delivering' \subseteq CompletionType  BY DEF TypeOK
<1>3. handler.step = "idle"  BY DEF TypeOK
<1>4. CASE d.token \in Tokens /\ gpuCommands[d.token].started /\ gpuCommands[d.token].response = NoResponse
  <2>1. PICK t \in Tokens : t = d.token  BY <1>4
  <2>2. /\ gpuCommands' = [gpuCommands EXCEPT ![t].response = d.response]
        /\ handler' = [Idle EXCEPT !.holder = holder, !.step = "retire", !.resume = "complete"]
    BY <1>4, <2>1 DEF CompleteLocked
  <2>3. d.response = gpuCommands[t].id  BY <2>1 DEF LateFor
  <2>4. gpuCommands' = [gpuCommands EXCEPT ![t].started = TRUE, ![t].response = d.response]
    BY <1>4, <2>1, <2>2 DEF TypeOK, CommandType
  <2>5. /\ Tokens' = Tokens
        /\ gpuCommands' \in [Tokens -> CommandType]
        /\ gpuCommands'[t].started /\ gpuCommands'[t].response = d.response
        /\ \A u \in Tokens : /\ gpuCommands'[u].id = gpuCommands[u].id
                             /\ gpuCommands'[u].shape = gpuCommands[u].shape
                             /\ gpuCommands'[u].position = gpuCommands[u].position
                             /\ u # t => gpuCommands'[u] = gpuCommands[u]
        /\ Answers'
    BY <2>3, <2>4, CommandUpdate
  <2>6. /\ handler' \in HandlerType /\ handler'.holder = holder /\ handler'.step = "retire"
        /\ handler'.resume = "complete"
    BY <2>2 DEF HandlerType, Idle, Queues, Control, Cursor
  <2>7. TypeOK'  BY <1>1, <1>2, <2>5, <2>6 DEF TypeOK
  <2>8. Positions' /\ UsedInOrder' /\ \A q \in Queues : RingIndices(q)'
    BY <2>5, PlacesUnchanged
  <2>9. Indices'  BY <2>6, <2>8 DEF Indices, InProcessQueue
  <2>10. t \notin DOMAIN reservations  BY <2>1 DEF LateFor
  <2>11. Reserved'  BY <1>3, <2>5, <2>6, <2>10 DEF Reserved, ReservedFor
  <2>12. Late'
    <3>1. ASSUME NEW x, LateFor(x)  PROVE  LateFor(x)'
      BY <2>5, <3>1 DEF LateFor
    <3> QED  BY <1>1, <3>1 DEF Late
  <2>13. HazardOrder'
    <3>1. gpuCommands[t].id # NoResponse  BY Types DEF NoResponse
    <3>2. gpuCommands[t].started  BY <1>4, <2>1
    <3> QED  BY <2>3, <2>5, <3>1, <3>2 DEF HazardOrder
  <2> QED  BY <2>5, <2>7, <2>8, <2>9, <2>11, <2>12, <2>13
<1>5. CASE ~(d.token \in Tokens /\ gpuCommands[d.token].started /\ gpuCommands[d.token].response = NoResponse)
  <2>1. gpuCommands' = gpuCommands /\ handler' = handler  BY <1>5 DEF CompleteLocked
  <2>2. Tokens' = Tokens  BY <2>1 DEF Tokens
  <2>3. TypeOK'  BY <1>1, <1>2, <2>1, <2>2 DEF TypeOK
  <2>4. Positions' /\ UsedInOrder' /\ \A q \in Queues : RingIndices(q)'
    BY <2>1, <2>2, PlacesUnchanged
  <2>5. Indices' /\ Answers' /\ HazardOrder' /\ Reserved'
    BY <2>1, <2>2, <2>4 DEF Indices, InProcessQueue, Answers, AnswerIsOwn, HazardOrder, Reserved, ReservedFor
  <2>6. Late'
    <3>1. ASSUME NEW x, LateFor(x)  PROVE  LateFor(x)'
      BY <2>1, <2>2, <3>1 DEF LateFor
    <3> QED  BY <1>1, <3>1 DEF Late
  <2> QED  BY <2>3, <2>4, <2>5, <2>6
<1> QED  BY <1>4, <1>5

(* deviceLock.try, and the posting of the completion when it fails. *)
LEMMA DeliverStep ==
  ASSUME PipelineInvariant, NEW d \in delivering, Deliver(d)
  PROVE  PipelineInvariant'
<1> USE DEF PipelineInvariant
<1>1. d \in CompletionType /\ LateFor(d)  BY DEF TypeOK, Late
<1>2. /\ delivering' = delivering \ {d}
      /\ UNCHANGED <<avail, offered, kick, used, seen, inISR, ready, lastAvailableIndex,
                     interruptStatus, nextGPUCommandToken, reservations, accelerator,
                     resetEpoch, drains>>
  BY DEF Deliver, ring, irq, queue, gate
<1>3. CASE handler.holder = "free"
  <2>1. CompleteLocked(d, "callback") /\ posted' = posted  BY <1>3 DEF Deliver
  <2> QED  BY <1>1, <1>2, <1>3, <2>1, CompleteLockedStep
<1>4. CASE handler.holder # "free"
  <2>1. posted' = Append(posted, d) /\ gpuCommands' = gpuCommands /\ handler' = handler
    BY <1>4 DEF Deliver
  <2>2. Tokens' = Tokens  BY <2>1 DEF Tokens
  <2>3. posted' \in Seq(CompletionType)
        /\ \A i \in 1..Len(posted') : posted'[i] = d \/ (i \in 1..Len(posted) /\ posted'[i] = posted[i])
    <3>1. posted \in Seq(CompletionType) /\ Len(posted) \in Nat  BY DEF TypeOK
    <3>2. Len(posted') = Len(posted) + 1 /\ posted'[Len(posted) + 1] = d
          /\ \A i \in 1..Len(posted) : posted'[i] = posted[i]
      BY <1>1, <2>1, <3>1
    <3> QED  BY <1>1, <2>1, <3>1, <3>2
  <2>4. TypeOK'  BY <1>2, <2>1, <2>2, <2>3 DEF TypeOK
  <2>5. Positions' /\ UsedInOrder' /\ \A q \in Queues : RingIndices(q)'
    BY <1>2, <2>1, <2>2, PlacesUnchanged
  <2>6. Indices' /\ Answers' /\ HazardOrder' /\ Reserved'
    BY <1>2, <2>1, <2>2, <2>5
    DEF Indices, InProcessQueue, Answers, AnswerIsOwn, HazardOrder, Reserved, ReservedFor
  <2>7. Late'
    <3>1. ASSUME NEW x, LateFor(x)  PROVE  LateFor(x)'
      BY <1>2, <2>1, <2>2, <3>1 DEF LateFor
    <3> QED  BY <1>1, <1>2, <2>3, <3>1 DEF Late
  <2> QED  BY <2>4, <2>5, <2>6, <2>7
<1> QED  BY <1>3, <1>4

(* The dispatch queue runs a completion that found the lock taken. *)
LEMMA RunPostedStep ==
  ASSUME PipelineInvariant, RunPosted
  PROVE  PipelineInvariant'
<1> USE DEF PipelineInvariant
<1>1. PICK d \in CompletionType : d = Head(posted) /\ LateFor(d)
  <2>1. posted \in Seq(CompletionType) /\ posted # <<>>  BY DEF TypeOK, RunPosted
  <2>2. Head(posted) = posted[1] /\ 1 \in 1..Len(posted) /\ posted[1] \in CompletionType  BY <2>1
  <2> QED  BY <2>2 DEF Late
<1>2. /\ handler.holder = "free" /\ CompleteLocked(d, "async") /\ delivering' = delivering
      /\ posted # <<>> /\ posted' = Tail(posted)
      /\ UNCHANGED <<avail, offered, kick, used, seen, inISR, ready, lastAvailableIndex,
                     interruptStatus, nextGPUCommandToken, reservations, accelerator,
                     resetEpoch, drains>>
  BY <1>1 DEF RunPosted, ring, irq, queue, gate
<1> QED  BY <1>1, <1>2, CompleteLockedStep

-----------------------------------------------------------------------------
(* The pipeline starts empty. *)
LEMMA InitPipeline == Init => PipelineInvariant
<1> SUFFICES ASSUME Init PROVE PipelineInvariant
  OBVIOUS
<1>1. /\ Tokens = {} /\ DOMAIN reservations = {}
      /\ \A q \in Queues : /\ avail[q] = <<>> /\ used[q] = <<>>
                            /\ lastAvailableIndex[q] = 0 /\ ~ready[q]
  BY DEF Init, Tokens
<1>2. TypeOK
  <2>1. Idle \in HandlerType /\ Idle.holder = "free" /\ Idle.step = "idle"
    BY DEF HandlerType, Idle, Queues, Control, Cursor
  <2>2. handler = Idle  BY DEF Init
  <2>3. gpuCommands \in [Tokens -> CommandType]  BY <1>1 DEF Init, Tokens
  <2>4. reservations \in [DOMAIN reservations -> [id : Nat \ {0}, shape : Shapes, epoch : Nat]]
    BY <1>1 DEF Init
  <2>5. /\ avail \in [Queues -> Seq(RequestType)]
        /\ used \in [Queues -> Seq([id : Nat \ {0}, response : Int])]
        /\ posted \in Seq(CompletionType)
    BY DEF Init
  <2>6. /\ kick \in [Queues -> BOOLEAN] /\ ready \in [Queues -> BOOLEAN]
        /\ seen \in [Queues -> Nat] /\ lastAvailableIndex \in [Queues -> Nat]
    BY DEF Init
  <2>7. /\ offered \in Nat /\ inISR \in BOOLEAN /\ interruptStatus \in BOOLEAN
        /\ nextGPUCommandToken \in Nat /\ accelerator \in BOOLEAN /\ resetEpoch \in Nat
        /\ delivering \subseteq CompletionType /\ drains \in Nat
    BY DEF Init
  <2> QED  BY <1>1, <2>1, <2>2, <2>3, <2>4, <2>5, <2>6, <2>7 DEF TypeOK
<1>3. Indices  BY <1>1 DEF Init, Indices, RingIndices, InProcessQueue, Idle
<1>4. Positions /\ Answers /\ Reserved /\ HazardOrder
  BY <1>1 DEF Positions, Answers, Reserved, HazardOrder
<1>5. Late /\ UsedInOrder  BY <1>1 DEF Init, Late, UsedInOrder
<1> QED  BY <1>2, <1>3, <1>4, <1>5 DEF PipelineInvariant

(* A step that changes no variable. *)
LEMMA StutterStep ==
  ASSUME PipelineInvariant, UNCHANGED vars
  PROVE  PipelineInvariant'
BY DEF vars, PipelineInvariant, TypeOK, Tokens, Indices, RingIndices, InProcessQueue, Positions,
       InItsPlace, QueueOf, InTokenOrder, PlaceIsStaged, Answers, AnswerIsOwn, Reserved,
       ReservedFor, Late, LateFor, UsedInOrder, HazardOrder

(* Every step of the driver, of the thread inside deviceLock and of the     *)
(* accelerator keeps the invariant.                                         *)
LEMMA NextPipeline == PipelineInvariant /\ [Next]_vars => PipelineInvariant'
<1> SUFFICES ASSUME PipelineInvariant, [Next]_vars  PROVE  PipelineInvariant'
  OBVIOUS
<1>1. CASE Driver
  BY <1>1, OfferStep, ScanStep, AcknowledgeStep, EnableStep, NotifyStep DEF Driver
<1>2. CASE Draining
  BY <1>2, BeginResetStep, BeginReplaceStep, FinishDrainStep DEF Draining
<1>3. CASE Processing
  BY <1>3, StageStep, StageEndStep, DispatchEndStep, RetireEndStep, DispatchAnsweredStep,
     DispatchDeferredStep, RetireStep, RetireThrowsStep DEF Processing
<1>4. CASE Callbacks
  BY <1>4, AcceleratorCompletesStep, DeliverStep, RunPostedStep DEF Callbacks
<1>5. CASE UNCHANGED vars  BY <1>5, StutterStep
<1> QED  BY <1>1, <1>2, <1>3, <1>4, <1>5 DEF Next

(* Ring indices, places, responses, reservations and late completions agree *)
(* in every reachable state of processGPUQueue, the completion handlers and *)
(* reset, for any limits, resources and number of callback threads.         *)
THEOREM PipelineSafe == Spec => []PipelineInvariant
BY InitPipeline, NextPipeline, PTL DEF Spec

(* The state of the device, the rings and the gate is well typed. *)
THEOREM TypeCorrect == Spec => []TypeOK
<1>1. PipelineInvariant => TypeOK  BY DEF PipelineInvariant
<1> QED  BY <1>1, PipelineSafe, PTL

(* Used-ring entries answer the guest's requests in order, once, and with   *)
(* their own responses: retireGPUCommands with out-of-order completions.    *)
THEOREM RetirementInOrder == Spec => []UsedInOrder
<1>1. PipelineInvariant => UsedInOrder  BY DEF PipelineInvariant
<1> QED  BY <1>1, PipelineSafe, PTL

(* nextRunnableGPUCommand keeps conflicting commands in staging order. *)
THEOREM HazardsRespected == Spec => []HazardOrder
<1>1. PipelineInvariant => HazardOrder  BY DEF PipelineInvariant
<1> QED  BY <1>1, PipelineSafe, PTL

(* The vCPU that dispatches in processGPUQueue never waits in               *)
(* ExecutionGate.begin: what is runnable conflicts with no reservation.     *)
THEOREM DispatchWaitFree == Spec => []DispatchNeverWaits
<1>1. PipelineInvariant => DispatchNeverWaits
  <2> SUFFICES ASSUME PipelineInvariant, handler.step = "dispatch",
                      NEW t \in Tokens, Runnable(t), NEW r \in DOMAIN reservations
               PROVE  ~Conflicts(gpuCommands[t].shape, reservations[r].shape)
    BY DEF DispatchNeverWaits, GateOpen
  <2>1. r \in Active /\ reservations[r].shape = gpuCommands[r].shape
    BY DEF PipelineInvariant, Reserved, ReservedFor, Active
  <2> QED  BY <2>1 DEF Runnable
<1> QED  BY <1>1, PipelineSafe, PTL

(* The epoch check of the completion handler in processDeferred never       *)
(* fails: VirtIOGPUDevice.reset and attachGraphicsAccelerator drain first.  *)
THEOREM InFlightCurrent == Spec => []InFlightIsCurrent
<1>1. PipelineInvariant => InFlightIsCurrent
  BY DEF PipelineInvariant, Reserved, ReservedFor, InFlightIsCurrent
<1> QED  BY <1>1, PipelineSafe, PTL

(* No used entry is left unannounced: every publishUsedElement raises the   *)
(* interrupt, and the driver scans the rings after it acknowledges.         *)
THEOREM InterruptsNotLost == Spec => []InterruptNotLost
<1>1. Init => InterruptNotLost  BY DEF Init, InterruptNotLost
<1>2. PipelineInvariant /\ InterruptNotLost /\ [Next]_vars => InterruptNotLost'
  <2> SUFFICES ASSUME PipelineInvariant, InterruptNotLost, [Next]_vars
               PROVE  InterruptNotLost'
    OBVIOUS
  <2>0. \A q \in Queues : Len(used[q]) \in Nat /\ seen[q] \in Nat
    BY Types DEF PipelineInvariant, TypeOK
  <2>1. CASE UNCHANGED <<ready, seen, used, inISR>> /\ (interruptStatus => interruptStatus')
    BY <2>1 DEF InterruptNotLost
  <2>2. CASE ScanUsedRings
    BY <2>0, <2>2 DEF ScanUsedRings, InterruptNotLost
  <2>3. CASE AcknowledgeInterrupt
    BY <2>3 DEF AcknowledgeInterrupt, InterruptNotLost
  <2>4. ASSUME NEW q \in Queues, EnableQueue(q)  PROVE  InterruptNotLost'
    <3>1. \A p \in Queues : p # q => UNCHANGED <<ready[p], seen[p], used[p]>>
      BY <2>4 DEF EnableQueue, PipelineInvariant, TypeOK
    <3>2. seen'[q] = 0 /\ Len(used'[q]) = 0
      BY <2>4 DEF EnableQueue, PipelineInvariant, TypeOK
    <3> QED  BY <2>4, <3>1, <3>2 DEF EnableQueue, InterruptNotLost
  <2>5. CASE BeginReset
    BY <2>5 DEF BeginReset, InterruptNotLost
  <2>6. ASSUME NEW t \in Tokens, Retire(t)  PROVE  InterruptNotLost'
    BY <2>6 DEF Retire, InterruptNotLost
  <2>7. CASE Processing
    <3>1. CASE \E t \in Tokens : Retire(t)  BY <2>6, <3>1
    <3>2. CASE Stage \/ StageEnd \/ DispatchEnd
      BY <2>1, <3>2 DEF Stage, StageEnd, DispatchEnd, irq, queue
    <3>3. CASE RetireEnd  BY <2>1, <3>3 DEF RetireEnd, irq, queue
    <3>4. CASE \E t \in Tokens : DispatchNow(t) \/ DispatchDeferred(t) \/ DispatchInline(t)
      BY <2>1, <3>4 DEF DispatchNow, DispatchDeferred, DispatchInline, irq, queue
    <3>5. CASE \E t \in Tokens : RetireThrows(t)
      BY <2>1, <3>5 DEF RetireThrows, irq, queue
    <3> QED  BY <2>7, <3>1, <3>2, <3>3, <3>4, <3>5 DEF Processing
  <2>8. CASE Callbacks
    BY <2>1, <2>8 DEF Callbacks, AcceleratorCompletes, Deliver, RunPosted, irq, queue
  <2>9. CASE Draining
    BY <2>1, <2>5, <2>9 DEF Draining, FinishReset, BeginReplaceAccelerator,
       FinishReplaceAccelerator, irq, queue
  <2>10. CASE Driver
    <3>1. CASE \E s \in Shapes : Offer(s)  BY <2>1, <3>1 DEF Offer, irq, queue
    <3>2. CASE \E q \in Queues : Notify(q)  BY <2>1, <3>2 DEF Notify, irq, queue
    <3> QED  BY <2>2, <2>3, <2>4, <2>10, <3>1, <3>2 DEF Driver
  <2>11. CASE UNCHANGED vars  BY <2>1, <2>11 DEF vars
  <2> QED  BY <2>7, <2>8, <2>9, <2>10, <2>11 DEF Next
<1> QED  BY <1>1, <1>2, PipelineSafe, PTL DEF Spec

(* After status := 0 no completion that is still on its way writes to the   *)
(* rings the driver has taken back.                                         *)
THEOREM ResetIsQuiet == Spec => QuietAfterReset
<1> DEFINE Quiet == \A q \in Queues : used'[q] # used[q] /\ ~ready[q] => used'[q] = <<>>
<1>1. PipelineInvariant /\ [Next]_vars => [Quiet]_vars
  <2> SUFFICES ASSUME PipelineInvariant, Next  PROVE  Quiet
    OBVIOUS
  <2>1. CASE UNCHANGED used  BY <2>1
  <2>2. ASSUME NEW q \in Queues, EnableQueue(q)  PROVE  Quiet
    BY <2>2 DEF EnableQueue, PipelineInvariant, TypeOK
  <2>3. ASSUME NEW t \in Tokens, Retire(t)  PROVE  Quiet
    <3>1. ready[QueueOf(t)] /\ QueueOf(t) \in Queues
      BY Types DEF PipelineInvariant, Positions, InItsPlace
    <3>2. \A p \in Queues : p # QueueOf(t) => used'[p] = used[p]
      BY <2>3 DEF Retire, QueueOf, PipelineInvariant, TypeOK
    <3> QED  BY <3>1, <3>2
  <2>4. CASE Processing
    BY <2>1, <2>3, <2>4 DEF Processing, Stage, StageEnd, DispatchEnd, RetireEnd, DispatchNow,
       DispatchDeferred, DispatchInline, RetireThrows
  <2>5. CASE Callbacks
    BY <2>1, <2>5 DEF Callbacks, AcceleratorCompletes, Deliver, RunPosted
  <2>6. CASE Draining
    BY <2>1, <2>6 DEF Draining, BeginReset, FinishReset, BeginReplaceAccelerator,
       FinishReplaceAccelerator
  <2>7. CASE Driver
    BY <2>1, <2>2, <2>7 DEF Driver, Offer, ScanUsedRings, AcknowledgeInterrupt, Notify
  <2> QED  BY <2>4, <2>5, <2>6, <2>7 DEF Next
<1> QED  BY <1>1, PipelineSafe, PTL DEF Spec, QuietAfterReset
================================================================================
