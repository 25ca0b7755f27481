---------------------------- MODULE FrameSlotsProofs ----------------------------
(***************************************************************************)
(* Proofs about FrameSlots for any screen, consumers, resources and        *)
(* colours, and any depth of the damage history: leases are immutable,     *)
(* what can be leased is never half-written, the pool of slots is bounded  *)
(* by the consumers; FrameSource is implemented as long as transfers into  *)
(* the cursor's resource do not change the image that is shown; and one    *)
(* resource is shown as it was flushed.                                    *)
(***************************************************************************)
EXTENDS FrameSlots, FiniteSetTheorems, TLAPS

-----------------------------------------------------------------------------
(* Types.                                                                  *)

Optional(S) == S \cup {Nothing}
\* A slot may be half-written, a cursor surface never is.
SlotStates == [pixels : [Tiles -> Int], generation : Optional(Nat), leases : Nat]
SurfaceStates == [pixels : Pictures, leases : Nat]
SurfaceNames == 1..(Cardinality(Clients) + 1)
Records == [generation : Nat, tiles : SUBSET Tiles]
ResourceStates == [pixels : Pictures, pending : SUBSET Tiles, exact : SUBSET Tiles]
ClientStates == [lease : Optional(Leases), texture : Optional(Pictures), generation : Optional(Nat)]
Clears == [op : {"disable", "reset"}, slot : Nat]
Flushes == [op : {"full", "copy", "write"}, slot : Nat, damage : SUBSET Tiles, tiles : SUBSET Tiles]
CommandStates == {NoCommand} \cup Clears \cup Flushes

-----------------------------------------------------------------------------
(* The inductive invariant, as predicates of values: slots s with the      *)
(* committed one m, generation g, hf whether there is a frame, history h,  *)
(* command co, cursor cu, cursor surfaces su with the current one cf of    *)
(* generation cg, and clients cl.                                          *)

GuestTypes(r, sc, cs) ==
  /\ r \in [Resources -> ResourceStates]
  /\ sc \in Optional(Scanouts) /\ cs \in Optional(Scanouts)

\* The records are of the last generations, without a gap.
Recorded(h, g) ==
  /\ h \in Seq(Records) /\ Len(h) <= MaximumDamageHistory
  /\ \A i \in 1..Len(h) : h[i].generation = g - Len(h) + i

Published(g, hf, h) ==
  /\ g \in Generations /\ hf \in BOOLEAN
  /\ Recorded(h, g)
  /\ ~hf => h = <<>>

\* The generations a surface or a texture can be of: the present one only when
\* there is a frame.
Baselines(hf, g) == {p \in Optional(0..g) : hf \/ p # g}

\* The records do not show that tile t is unchanged since generation p.
Stale(h, g, p, t) ==
  \/ p = Nothing
  \/ /\ p # g
     /\ \/ Len(h) = 0
        \/ g - Len(h) > p
        \/ \E i \in 1..Len(h) : h[i].generation > p /\ t \in h[i].tiles

\* Pixels of generation p differ from picture where the records say so at most.
Matches(h, g, p, pixels, picture) ==
  \A t \in Tiles : Stale(h, g, p, t) \/ pixels[t] = picture[t]

PoolTypes(s, m, g, hf) ==
  /\ s \in Seq(SlotStates) /\ m \in 1..Len(s)
  /\ Len(s) <= Cardinality(Clients) + 2
  /\ s[m].pixels \in Pictures
  /\ \A i \in 1..Len(s) : s[i].generation \in Baselines(hf, g)

Holders(cl, surface, i) ==
  {c \in Clients : /\ cl[c].lease # Nothing
                   /\ cl[c].lease.surface = surface /\ cl[c].lease.index = i}

\* Lease counts are what they count.
Counted(s, su, cl) ==
  /\ \A i \in 1..Len(s) : s[i].leases = Cardinality(Holders(cl, "slot", i))
  /\ \A i \in SurfaceNames : su[i].leases = Cardinality(Holders(cl, "cursor", i))

Kept(s, su, l) ==
  /\ l.surface = "slot" => l.index \in 1..Len(s) /\ s[l.index].pixels = l.taken
  /\ l.surface = "cursor" => l.index \in SurfaceNames /\ su[l.index].pixels = l.taken

LeasesKept(s, su, cl) == \A c \in Clients : cl[c].lease # Nothing => Kept(s, su, cl[c].lease)

\* A command writes a slot nobody can read.
CommandOwns(s, m, g, hf, sc, co) ==
  /\ co \in CommandStates
  /\ co.op # "idle" => /\ co.slot \in 1..Len(s) /\ co.slot # m
                       /\ s[co.slot].leases = 0
  /\ co.op = "reset" => g < MaxGeneration
  /\ co.op \in {"full", "copy", "write"} => sc # Nothing
  /\ co.op \in {"copy", "write"} => hf

\* Outside the records since its generation a slot is the committed picture;
\* the slot being written, outside what is being written.
SlotsMatch(s, m, g, h, co) ==
  /\ \A i \in 1..Len(s) :
       co.op = "idle" \/ i # co.slot => Matches(h, g, s[i].generation, s[i].pixels, s[m].pixels)
  /\ co.op \in {"copy", "write"} =>
       \A t \in Tiles \ co.damage : s[co.slot].pixels[t] = s[m].pixels[t]

CursorTypes(cu, su, cf, cg, hf, g) ==
  /\ cu \in Optional(Cursors)
  /\ su \in [SurfaceNames -> SurfaceStates]
  /\ cf \in Optional(SurfaceNames)
  /\ cg \in Baselines(hf, g)
  /\ cg # Nothing => cf # Nothing

\* A picture under a cursor.
Under(cu, pixels) ==
  [t \in Tiles |-> IF cu # Nothing /\ cu.tile = t THEN Blend(cu.image, pixels[t]) ELSE pixels[t]]

SurfaceMatches(h, g, cu, su, cf, cg, pixels) ==
  cu # Nothing /\ cg # Nothing => Matches(h, g, cg, su[cf].pixels, Under(cu, pixels))

ClientTypes(cl, hf, g) ==
  /\ cl \in [Clients -> ClientStates]
  /\ \A c \in Clients :
       /\ cl[c].generation \in Baselines(hf, g)
       /\ cl[c].texture = Nothing <=> cl[c].generation = Nothing
       /\ cl[c].lease # Nothing =>
            /\ cl[c].lease.generation \in Baselines(hf, g)
            /\ cl[c].texture = Nothing => cl[c].lease.damage = Tiles

SlotsInvariant ==
  /\ GuestTypes(resource, scanout, committedScanout)
  /\ Published(generation, hasFrame, history)
  /\ PoolTypes(slots, committed, generation, hasFrame)
  /\ CursorTypes(cursor, cursorSlots, cursorFrame, cursorGeneration, hasFrame, generation)
  /\ ClientTypes(client, hasFrame, generation)
  /\ Counted(slots, cursorSlots, client)
  /\ LeasesKept(slots, cursorSlots, client)
  /\ CommandOwns(slots, committed, generation, hasFrame, scanout, command)
  /\ SlotsMatch(slots, committed, generation, history, command)
  /\ SurfaceMatches(history, generation, cursor, cursorSlots, cursorFrame, cursorGeneration,
                    slots[committed].pixels)

\* What a client holds is, outside the records, what is published now.
ClientMatches(h, g, k, picture) ==
  /\ k.texture # Nothing => Matches(h, g, k.generation, k.texture, picture)
  /\ k.lease # Nothing => Matches(h, g, k.lease.generation, k.lease.taken, picture)
  /\ k.lease # Nothing /\ k.texture # Nothing =>
       \A t \in Tiles \ k.lease.damage : k.texture[t] = k.lease.taken[t]

ClientsMatch ==
  \A c \in Clients :
    ClientMatches(history, generation, client[c], Under(cursor, slots[committed].pixels))

\* Where nothing awaits a flush, the picture shows the resource or black.
ShowsResource(px, cs, r) ==
  cs # Nothing =>
    \A t \in cs.tiles :
      t \in r[cs.resource].pending \/ px[t] = r[cs.resource].pixels[t] \/ px[t] = Black

\* The picture px while command co flushes the resource of scanout sc: what it
\* copied and found unchanged already shows the resource.
ShowsFlushed(px, cs, sc, r, co) ==
  /\ cs # Nothing => sc # Nothing
  /\ co.op # "reset" => ShowsResource(px, cs, r)
  /\ co.op \in {"copy", "write"} => cs # Nothing /\ cs.tiles = sc.tiles
  /\ co.op = "write" =>
       \A t \in (r[sc.resource].pending \cap co.tiles \cap sc.tiles) \ co.damage :
         px[t] = r[sc.resource].pixels[t]

ResourceShown == ShowsFlushed(slots[committed].pixels, committedScanout, scanout, resource, command)

-----------------------------------------------------------------------------
(* The damage history.                                                     *)

\* A sequence without its first element.
LEMMA RestFacts ==
  ASSUME NEW S, NEW a \in Seq(S), Len(a) >= 2
  PROVE  /\ SubSeq(a, 2, Len(a)) \in Seq(S) /\ Len(SubSeq(a, 2, Len(a))) = Len(a) - 1
         /\ \A i \in 1..(Len(a) - 1) : SubSeq(a, 2, Len(a))[i] = a[i + 1]
  OBVIOUS

\* The records k of history h after a commit at generation g.
RecordOf(g, damage) == [generation |-> g + 1, tiles |-> damage]
Extends(k, h, g, damage) ==
  /\ k \in Seq(Records) /\ Len(k) \in 1..MaximumDamageHistory
  /\ Len(k) \in {Len(h), Len(h) + 1}
  /\ k[Len(k)].generation = g + 1 /\ k[Len(k)].tiles = damage
  /\ \A i \in 1..(Len(k) - 1) :
       i + (Len(h) + 1 - Len(k)) \in 1..Len(h) /\ k[i] = h[i + (Len(h) + 1 - Len(k))]

\* commit's record is the last, and it drops at most the first.
LEMMA KeepFacts ==
  ASSUME NEW g \in Nat, NEW h, Recorded(h, g), NEW damage \in SUBSET Tiles
  PROVE  Extends(KeepRecords(Append(h, RecordOf(g, damage))), h, g, damage)
  <1> DEFINE r == RecordOf(g, damage)
             a == Append(h, r)
             k == KeepRecords(a)
  <1>1. r \in Records /\ r.generation = g + 1 /\ r.tiles = damage
    BY DEF Records, RecordOf
  <1>2. h \in Seq(Records) /\ Len(h) \in Nat /\ Len(h) <= MaximumDamageHistory
        /\ MaximumDamageHistory \in Nat /\ MaximumDamageHistory >= 1
    BY FrameSlotsAssumption DEF Recorded
  <1> HIDE DEF r
  <1>3. a \in Seq(Records) /\ Len(a) = Len(h) + 1 /\ a[Len(h) + 1] = r
        /\ \A i \in 1..Len(h) : a[i] = h[i]
    BY <1>1, <1>2
  <1> HIDE DEF a
  <1>4. k = IF Len(a) - MaximumDamageHistory > 0
            THEN SubSeq(a, Len(a) - MaximumDamageHistory + 1, Len(a)) ELSE a
    BY Zenon DEF KeepRecords
  <1> HIDE DEF k
  <1>5. CASE Len(h) + 1 <= MaximumDamageHistory
    <2>1. k = a
      BY <1>2, <1>3, <1>4, <1>5
    <2>2. Len(k) = Len(h) + 1 /\ k \in Seq(Records) /\ k[Len(k)] = r
      BY <2>1, <1>3
    <2>3. \A i \in 1..(Len(k) - 1) : /\ i + (Len(h) + 1 - Len(k)) \in 1..Len(h)
                                    /\ k[i] = h[i + (Len(h) + 1 - Len(k))]
      BY <2>1, <2>2, <1>2, <1>3
    <2>4. Extends(k, h, g, damage)
      BY <2>2, <2>3, <1>1, <1>2, <1>5 DEF Extends
    <2> QED
      BY <2>4 DEF k, a, r
  <1>6. CASE Len(h) = MaximumDamageHistory
    <2>1. Len(a) - MaximumDamageHistory > 0 /\ Len(a) - MaximumDamageHistory + 1 = 2 /\ Len(a) >= 2
      BY <1>2, <1>3, <1>6
    <2>2. k = SubSeq(a, 2, Len(a))
      BY <2>1, <1>4, Zenon
    <2>3. /\ k \in Seq(Records) /\ Len(k) = Len(a) - 1
          /\ \A i \in 1..(Len(a) - 1) : k[i] = a[i + 1]
      BY <2>1, <2>2, <1>3, RestFacts
    <2>4. Len(k) = Len(h) /\ k[Len(k)] = r
      BY <2>3, <1>2, <1>3, <1>6
    <2>5. \A i \in 1..(Len(k) - 1) : /\ i + (Len(h) + 1 - Len(k)) \in 1..Len(h)
                                    /\ k[i] = h[i + (Len(h) + 1 - Len(k))]
      <3> TAKE i \in 1..(Len(k) - 1)
      <3>1. i \in 1..(Len(a) - 1) /\ i + 1 \in 1..Len(h) /\ i + (Len(h) + 1 - Len(k)) = i + 1
        BY <2>4, <1>2, <1>3
      <3>2. k[i] = a[i + 1] /\ a[i + 1] = h[i + 1]
        BY <3>1, <2>3, <1>3
      <3> QED
        BY <3>1, <3>2
    <2>6. Extends(k, h, g, damage)
      BY <2>3, <2>4, <2>5, <1>1, <1>2, <1>6 DEF Extends
    <2> QED
      BY <2>6 DEF k, a, r
  <1> QED
    BY <1>2, <1>5, <1>6

\* After a commit the records are again the last ones, and what was stale or is
\* damaged is stale.
LEMMA CommitFacts ==
  ASSUME NEW g \in Nat, NEW h, Recorded(h, g), NEW damage \in SUBSET Tiles,
         NEW k, Extends(k, h, g, damage)
  PROVE  /\ Recorded(k, g + 1)
         /\ \A p \in Optional(0..g), t \in Tiles :
              Stale(h, g, p, t) \/ t \in damage => Stale(k, g + 1, p, t)
  <1> DEFINE shift == Len(h) + 1 - Len(k)
  <1>1. /\ k \in Seq(Records) /\ Len(k) \in 1..MaximumDamageHistory
        /\ Len(k) \in {Len(h), Len(h) + 1}
        /\ k[Len(k)].generation = g + 1 /\ k[Len(k)].tiles = damage
        /\ \A i \in 1..(Len(k) - 1) : i + shift \in 1..Len(h) /\ k[i] = h[i + shift]
    BY DEF Extends
  <1>2. /\ h \in Seq(Records) /\ Len(h) \in Nat /\ Len(h) <= MaximumDamageHistory
        /\ \A i \in 1..Len(h) : h[i].generation = g - Len(h) + i
        /\ Len(k) \in Nat /\ shift \in {0, 1} /\ MaximumDamageHistory \in Nat
    BY <1>1, FrameSlotsAssumption DEF Recorded
  <1>3. \A i \in 1..Len(k) : k[i].generation = (g + 1) - Len(k) + i
    <2> TAKE i \in 1..Len(k)
    <2>1. CASE i = Len(k)
      BY <2>1, <1>1, <1>2
    <2>2. CASE i # Len(k)
      <3>1. i \in 1..(Len(k) - 1)
        BY <2>2, <1>2
      <3>2. i + shift \in 1..Len(h) /\ k[i] = h[i + shift]
        BY <3>1, <1>1
      <3>3. k[i].generation = g - Len(h) + (i + shift)
        BY <3>2, <1>2
      <3> QED
        BY <3>3, <1>2
    <2> QED
      BY <2>1, <2>2
  <1>4. Recorded(k, g + 1)
    BY <1>1, <1>2, <1>3 DEF Recorded
  <1>5. ASSUME NEW p \in Optional(0..g), NEW t \in Tiles, p # Nothing,
               Stale(h, g, p, t) \/ t \in damage
        PROVE  Stale(k, g + 1, p, t)
    <2>1. p \in 0..g /\ p # g + 1
      BY <1>5 DEF Optional
    <2>2. CASE (g + 1) - Len(k) > p
      BY <2>1, <2>2, <1>1 DEF Stale
    <2>3. CASE t \in damage
      <3>1. Len(k) \in 1..Len(k) /\ k[Len(k)].generation > p /\ t \in k[Len(k)].tiles
        BY <2>1, <2>3, <1>1, <1>2
      <3> QED
        BY <3>1, <2>1 DEF Stale
    <2>4. CASE (g + 1) - Len(k) <= p /\ t \notin damage
      <3>1. Stale(h, g, p, t)
        BY <1>5, <2>4
      <3>2. p # g /\ Len(h) # 0 /\ ~(g - Len(h) > p)
        BY <3>1, <2>1, <2>4, <1>1, <1>2, <1>5 DEF Stale
      <3>3. PICK i \in 1..Len(h) : h[i].generation > p /\ t \in h[i].tiles
        BY <3>1, <3>2, <1>5 DEF Stale
      <3>4. h[i].generation = g - Len(h) + i
        BY <1>2
      <3>5. i - shift \in 1..(Len(k) - 1)
        BY <3>3, <3>4, <2>1, <2>4, <1>1, <1>2
      <3>6. k[i - shift] = h[(i - shift) + shift]
        BY <3>5, <1>1
      <3>7. (i - shift) + shift = i
        BY <1>2
      <3>8. i - shift \in 1..Len(k)
        BY <3>5, <1>2
      <3>9. k[i - shift].generation > p /\ t \in k[i - shift].tiles
        BY <3>3, <3>6, <3>7
      <3> HIDE DEF shift
      <3> QED
        BY <3>8, <3>9, <2>1 DEF Stale
    <2> QED
      BY <2>1, <2>2, <2>3, <2>4, <1>2
  <1> QED
    BY <1>4, <1>5 DEF Stale

\* What frameMetadata reports as damage is what is stale.
LEMMA DamageFacts ==
  ASSUME Published(generation, hasFrame, history),
         NEW p \in Optional(0..generation), p # generation
  PROVE  /\ DamageSince(p) \in SUBSET Tiles
         /\ \A t \in Tiles : t \in DamageSince(p) <=> Stale(history, generation, p, t)
  <1>1. CASE p = Nothing
    BY <1>1 DEF DamageSince, Stale
  <1>2. CASE p # Nothing
    <2> DEFINE newer == {i \in DOMAIN history : history[i].generation > p}
    <2>1. /\ history \in Seq(Records) /\ Len(history) \in Nat /\ DOMAIN history = 1..Len(history)
          /\ \A i \in 1..Len(history) : /\ history[i].generation = generation - Len(history) + i
                                        /\ history[i].tiles \in SUBSET Tiles
          /\ p \in Nat /\ generation \in Nat /\ p < generation
      <3>1. history \in Seq(Records) /\ generation \in Nat
        BY FrameSlotsAssumption DEF Published, Recorded, Generations
      <3>2. \A i \in 1..Len(history) : history[i].tiles \in SUBSET Tiles
        <4> TAKE i \in 1..Len(history)
        <4>1. history[i] \in Records
          BY <3>1
        <4> QED
          BY <4>1 DEF Records
      <3> QED
        BY <3>1, <3>2, <1>2 DEF Published, Recorded, Optional
    <2>2. newer = {} <=> Len(history) = 0
      <3>1. Len(history) # 0 => Len(history) \in newer
        BY <2>1
      <3> QED
        BY <2>1, <3>1
    <2>3. Len(history) # 0 => (history[1].generation > p + 1 <=> generation - Len(history) > p)
      BY <2>1
    <2>4. DamageSince(p) = IF newer = {} \/ history[1].generation > p + 1 THEN Tiles
                           ELSE UNION {history[i].tiles : i \in newer}
      BY <1>2 DEF DamageSince
    <2>5. \A t : t \in UNION {history[i].tiles : i \in newer}
                   <=> \E i \in 1..Len(history) : history[i].generation > p /\ t \in history[i].tiles
      BY <2>1
    <2>6. UNION {history[i].tiles : i \in newer} \in SUBSET Tiles
      BY <2>1, <2>5
    <2> HIDE DEF newer
    <2> DEFINE u == UNION {history[i].tiles : i \in newer}
    <2>7. /\ u \in SUBSET Tiles
          /\ \A t : t \in u <=> \E i \in 1..Len(history) : history[i].generation > p /\ t \in history[i].tiles
      BY <2>5, <2>6
    <2>8. DamageSince(p) = IF newer = {} \/ history[1].generation > p + 1 THEN Tiles ELSE u
      BY <2>4
    <2> HIDE DEF u
    <2>9. CASE Len(history) = 0 \/ generation - Len(history) > p
      <3>1. DamageSince(p) = Tiles
        BY <2>2, <2>3, <2>8, <2>9
      <3> QED
        BY <3>1, <2>1, <2>9, <1>2 DEF Stale
    <2>10. CASE ~(Len(history) = 0 \/ generation - Len(history) > p)
      <3>1. DamageSince(p) = u
        BY <2>2, <2>3, <2>8, <2>10
      <3> QED
        BY <3>1, <2>7, <2>1, <2>10, <1>2 DEF Stale
    <2> QED
      BY <2>9, <2>10
  <1> QED
    BY <1>1, <1>2

\* unpublishedFrame copies at least what is stale in the slot.
LEMMA CatchUpFacts ==
  ASSUME Published(generation, hasFrame, history),
         NEW slot, slot.generation \in Baselines(hasFrame, generation)
  PROVE  /\ CatchUp(slot) \in SUBSET Tiles
         /\ \A t \in Tiles : Stale(history, generation, slot.generation, t) => t \in CatchUp(slot)
  <1> DEFINE p == slot.generation
  <1>1. p \in Optional(0..generation)
    BY DEF Baselines
  <1>2. generation \in Nat
    BY FrameSlotsAssumption DEF Published, Generations
  <1>3. CASE p = generation
    <2>1. CatchUp(slot) = {}
      BY <1>3 DEF CatchUp
    <2> QED
      BY <2>1, <1>2, <1>3, NothingAssumption DEF Stale
  <1>4. CASE p # generation /\ HasMetadata(p)
    <2>1. CatchUp(slot) = DamageSince(p)
      BY <1>4 DEF CatchUp
    <2> QED
      BY <2>1, <1>1, <1>4, DamageFacts
  <1>5. CASE p # generation /\ ~HasMetadata(p)
    BY <1>5 DEF CatchUp
  <1> QED
    BY <1>3, <1>4, <1>5

\* A step from generation g, frame hf and records h to n, f and k, in which the
\* picture changes from old to new: every baseline stays one, and what is not
\* stale afterwards was not before and has not changed.
Advances(g, hf, h, n, f, k, old, new) ==
  \A p \in Baselines(hf, g) :
    /\ p \in Baselines(f, n)
    /\ \A t \in Tiles : Stale(k, n, p, t) \/ (~Stale(h, g, p, t) /\ new[t] = old[t])

\* What matched the old picture matches the new one.
LEMMA MatchesAdvances ==
  ASSUME NEW g, NEW hf, NEW h, NEW n, NEW f, NEW k, NEW old, NEW new,
         Advances(g, hf, h, n, f, k, old, new),
         NEW p \in Baselines(hf, g), NEW pixels, Matches(h, g, p, pixels, old)
  PROVE  Matches(k, n, p, pixels, new)
  BY DEF Advances, Matches

\* commit, as a relation of values.
Commits(damage, g, hf, h, n, f, k) ==
  IF damage = {} THEN n = g /\ f = hf /\ k = h
  ELSE /\ g < MaxGeneration /\ n = g + 1 /\ f = TRUE
       /\ k = KeepRecords(Append(h, RecordOf(g, damage)))

\* It is the action, as a relation.
LEMMA CommitIsCommits ==
  ASSUME NEW damage, Commit(damage)
  PROVE  Commits(damage, generation, hasFrame, history, generation', hasFrame', history')
  BY DEF Commit, Commits, RecordOf

\* A commit advances any picture that changes within its damage.
LEMMA CommitAdvances ==
  ASSUME NEW g, NEW hf, NEW h, Published(g, hf, h), NEW damage \in SUBSET Tiles,
         NEW n, NEW f, NEW k, Commits(damage, g, hf, h, n, f, k),
         NEW old, NEW new, \A t \in Tiles \ damage : new[t] = old[t]
  PROVE  /\ Published(n, f, k) /\ Advances(g, hf, h, n, f, k, old, new)
         /\ hf => f
         /\ damage # {} => f /\ n = g + 1
         /\ damage = {} => n = g
  <1>1. g \in Nat /\ g <= MaxGeneration /\ MaxGeneration \in Nat /\ hf \in BOOLEAN /\ Recorded(h, g)
    BY FrameSlotsAssumption DEF Published, Generations
  <1>2. CASE damage = {}
    BY <1>2 DEF Commits, Advances
  <1>3. CASE damage # {}
    <2>1. n = g + 1 /\ f = TRUE /\ g < MaxGeneration /\ Extends(k, h, g, damage)
      BY <1>1, <1>3, KeepFacts DEF Commits
    <2>2. /\ Recorded(k, g + 1)
          /\ \A p \in Optional(0..g), t \in Tiles :
               Stale(h, g, p, t) \/ t \in damage => Stale(k, g + 1, p, t)
      BY <1>1, <2>1, CommitFacts
    <2>3. Published(n, f, k)
      BY <1>1, <2>1, <2>2 DEF Published, Generations
    <2>4. \A p \in Baselines(hf, g) : p \in Baselines(f, n) /\ p \in Optional(0..g)
      BY <1>1, <2>1 DEF Baselines, Optional
    <2>5. Advances(g, hf, h, n, f, k, old, new)
      BY <2>1, <2>2, <2>4 DEF Advances
    <2> QED
      BY <1>3, <2>1, <2>3, <2>5
  <1> QED
    BY <1>2, <1>3

\* Without a frame nothing is a baseline, whatever the picture becomes.
LEMMA NoFrameAdvances ==
  ASSUME NEW g, NEW h, Published(g, FALSE, h), NEW old, NEW new
  PROVE  Advances(g, FALSE, h, g, FALSE, h, old, new)
  <1>1. h = <<>> /\ Len(<<>>) = 0
    BY DEF Published
  <1> QED
    BY <1>1 DEF Advances, Baselines, Stale

\* Nor is anything after a reset.
LEMMA ResetAdvances ==
  ASSUME NEW g, NEW hf, NEW h, Published(g, hf, h), g < MaxGeneration, NEW old, NEW new
  PROVE  /\ Published(g + 1, FALSE, <<>>)
         /\ Advances(g, hf, h, g + 1, FALSE, <<>>, old, new)
  <1>1. g \in Nat /\ MaxGeneration \in Nat /\ MaximumDamageHistory \in Nat
    BY FrameSlotsAssumption DEF Published, Generations
  <1>2. <<>> \in Seq(Records) /\ Len(<<>>) = 0
    OBVIOUS
  <1>3. Published(g + 1, FALSE, <<>>)
    BY <1>1, <1>2 DEF Published, Recorded, Generations
  <1>4. ASSUME NEW p \in Baselines(hf, g)
        PROVE  p \in Baselines(FALSE, g + 1) /\ p # g + 1
    BY <1>1, NothingAssumption DEF Baselines, Optional
  <1>5. Advances(g, hf, h, g + 1, FALSE, <<>>, old, new)
    BY <1>2, <1>4 DEF Advances, Stale
  <1> QED
    BY <1>3, <1>5

\* Nothing happened to the picture.
LEMMA StillAdvances ==
  ASSUME NEW g, NEW hf, NEW h, NEW old, NEW new, \A t \in Tiles : new[t] = old[t]
  PROVE  Advances(g, hf, h, g, hf, h, old, new)
  BY DEF Advances

-----------------------------------------------------------------------------
(* Leases and their counts.                                                *)

\* The holders of a surface can be counted.
LEMMA HoldersFinite ==
  ASSUME NEW cl, NEW surface, NEW i
  PROVE  /\ IsFiniteSet(Holders(cl, surface, i))
         /\ Cardinality(Holders(cl, surface, i)) \in Nat
         /\ Cardinality(Holders(cl, surface, i)) = 0 <=> Holders(cl, surface, i) = {}
  <1>1. Holders(cl, surface, i) \subseteq Clients
    BY DEF Holders
  <1>2. IsFiniteSet(Holders(cl, surface, i))
    BY <1>1, FrameSlotsAssumption, FS_Subset
  <1> QED
    BY <1>2, FS_CardinalityType, FS_EmptySet

\* A surface without leases is nobody's.
LEMMA UnleasedFacts ==
  ASSUME NEW s, NEW su, NEW cl, Counted(s, su, cl), NEW c \in Clients, cl[c].lease # Nothing
  PROVE  LET l == cl[c].lease
         IN  /\ l.surface = "slot" /\ l.index \in 1..Len(s) => s[l.index].leases # 0
             /\ l.surface = "cursor" /\ l.index \in SurfaceNames => su[l.index].leases # 0
  <1> DEFINE l == cl[c].lease
  <1>1. c \in Holders(cl, l.surface, l.index)
    BY DEF Holders
  <1>2. Cardinality(Holders(cl, l.surface, l.index)) # 0
    BY <1>1, HoldersFinite
  <1> HIDE DEF l
  <1>3. l.surface = "slot" /\ l.index \in 1..Len(s) => s[l.index].leases # 0
    BY <1>2 DEF Counted
  <1>4. l.surface = "cursor" /\ l.index \in SurfaceNames => su[l.index].leases # 0
    BY <1>2 DEF Counted
  <1> QED
    BY <1>3, <1>4 DEF l

\* Client c takes lease l, or gives it back.
Taken(cl, k, c, l) ==
  /\ cl \in [Clients -> ClientStates] /\ k \in [Clients -> ClientStates]
  /\ cl[c].lease = Nothing /\ k[c].lease = l /\ l \in Leases
  /\ \A d \in Clients \ {c} : k[d] = cl[d]

\* A set with a new element counts one more, without one of its elements one less.
LEMMA CountsOneMore ==
  ASSUME NEW S, NEW x, IsFiniteSet(S), x \notin S
  PROVE  Cardinality(S \cup {x}) = Cardinality(S) + 1
  BY FS_AddElement

LEMMA CountsOneLess ==
  ASSUME NEW S, NEW x, IsFiniteSet(S), x \in S
  PROVE  Cardinality(S \ {x}) = Cardinality(S) - 1
  BY FS_RemoveElement

\* The numbers from 1 to n are n.
LEMMA CountUpTo ==
  ASSUME NEW n \in Nat
  PROVE  IsFiniteSet(1..n) /\ Cardinality(1..n) = n
  <1>1. IsFiniteSet(1..n) /\ Cardinality(1..n) = IF 1 > n THEN 0 ELSE n - 1 + 1
    BY FS_Interval
  <1> QED
    BY <1>1

\* Taking a lease adds its holder.
LEMMA TakenHolders ==
  ASSUME NEW cl, NEW k, NEW c \in Clients, NEW l, Taken(cl, k, c, l), NEW surface, NEW i
  PROVE  Cardinality(Holders(k, surface, i)) =
           Cardinality(Holders(cl, surface, i)) + (IF l.surface = surface /\ l.index = i THEN 1 ELSE 0)
  <1> DEFINE H == Holders(cl, surface, i)
             K == Holders(k, surface, i)
  <1>1. l # Nothing
    BY NothingAssumption DEF Taken
  <1>2. c \notin H
    BY DEF Taken, Holders
  <1>3. IsFiniteSet(H) /\ Cardinality(H) \in Nat
    BY HoldersFinite
  <1>4. K = IF l.surface = surface /\ l.index = i THEN H \cup {c} ELSE H
    BY <1>1, <1>2 DEF Taken, Holders
  <1> HIDE DEF H, K
  <1>5. CASE l.surface = surface /\ l.index = i
    <2>1. K = H \cup {c}
      BY <1>4, <1>5
    <2>2. Cardinality(K) = Cardinality(H) + 1
      BY <2>1, <1>2, <1>3, CountsOneMore
    <2> QED
      BY <2>2, <1>5 DEF H, K
  <1>6. CASE ~(l.surface = surface /\ l.index = i)
    <2>1. K = H
      BY <1>4, <1>6
    <2> QED
      BY <2>1, <1>3, <1>6 DEF H, K
  <1> QED
    BY <1>5, <1>6

\* Surfaces that are all leased are at most as many as the clients.
LEMMA LeasedBound ==
  ASSUME NEW cl, NEW surface, NEW I, \A i \in I : Holders(cl, surface, i) # {}
  PROVE  IsFiniteSet(I) /\ Cardinality(I) <= Cardinality(Clients)
  <1> DEFINE f == [i \in I |-> CHOOSE c \in Clients : c \in Holders(cl, surface, i)]
  <1>1. \A i \in I : f[i] \in Clients /\ f[i] \in Holders(cl, surface, i)
    <2> TAKE i \in I
    <2>1. \E c \in Clients : c \in Holders(cl, surface, i)
      BY DEF Holders
    <2> QED
      BY <2>1
  <1>2. f \in [I -> Clients]
    BY <1>1
  <1>3. \A i, j \in I : f[i] = f[j] => i = j
    BY <1>1 DEF Holders
  <1> HIDE DEF f
  <1>4. f \in Injection(I, Clients)
    BY <1>2, <1>3 DEF Injection, IsInjective
  <1> QED
    BY <1>4, FrameSlotsAssumption, FS_Injection

\* The pool has at most one slot that is neither committed nor idle per client.
LEMMA PoolFacts ==
  ASSUME NEW s \in Seq(SlotStates), NEW su, NEW cl, Counted(s, su, cl), NEW m \in 1..Len(s),
         \A i \in 1..Len(s) : i # m => s[i].leases # 0
  PROVE  Len(s) <= Cardinality(Clients) + 1
  <1> DEFINE I == (1..Len(s)) \ {m}
  <1>1. \A i \in I : Holders(cl, "slot", i) # {}
    BY HoldersFinite DEF Counted
  <1>2. IsFiniteSet(I) /\ Cardinality(I) <= Cardinality(Clients)
    BY <1>1, LeasedBound
  <1>3. Len(s) \in Nat /\ Cardinality(Clients) \in Nat
    BY FrameSlotsAssumption, FS_CardinalityType
  <1>4. IsFiniteSet(1..Len(s)) /\ Cardinality(1..Len(s)) = Len(s)
    BY <1>3, CountUpTo
  <1>5. Cardinality(I) = Cardinality(1..Len(s)) - 1
    BY <1>4, CountsOneLess
  <1> HIDE DEF I
  <1> QED
    BY <1>2, <1>3, <1>4, <1>5

\* There is always a cursor surface to compose in: one more than clients.
LEMMA SurfaceFacts ==
  ASSUME NEW s, NEW su, NEW cl, Counted(s, su, cl), NEW cf \in Optional(SurfaceNames),
         cf # Nothing => su[cf].leases # 0
  PROVE  \E i \in SurfaceNames : i # cf /\ su[i].leases = 0
  <1>0. \A i \in SurfaceNames : i # Nothing
    BY NothingAssumption, FrameSlotsAssumption, FS_CardinalityType DEF SurfaceNames
  <1>1. SUFFICES ASSUME \A i \in SurfaceNames : su[i].leases # 0 PROVE FALSE
    BY <1>0
  <1>2. \A i \in SurfaceNames : Holders(cl, "cursor", i) # {}
    BY <1>1, HoldersFinite DEF Counted
  <1>3. Cardinality(SurfaceNames) <= Cardinality(Clients)
    BY <1>2, LeasedBound
  <1>4. Cardinality(Clients) \in Nat
    BY FrameSlotsAssumption, FS_CardinalityType
  <1>5. Cardinality(SurfaceNames) = Cardinality(Clients) + 1
    BY <1>4, FS_Interval DEF SurfaceNames
  <1> QED
    BY <1>3, <1>4, <1>5

\* The counts before and after client c takes lease l of one of the surfaces.
OneMore(s, s2, su, su2, l) ==
  /\ Len(s2) = Len(s)
  /\ \A i \in 1..Len(s) :
       /\ s[i].leases \in Nat /\ s2[i].leases \in Nat
       /\ s2[i].leases = s[i].leases + (IF l.surface = "slot" /\ l.index = i THEN 1 ELSE 0)
  /\ \A i \in SurfaceNames :
       /\ su[i].leases \in Nat /\ su2[i].leases \in Nat
       /\ su2[i].leases = su[i].leases + (IF l.surface = "cursor" /\ l.index = i THEN 1 ELSE 0)

\* Counting the lease keeps the counts right, and so does forgetting it.
LEMMA CountedTake ==
  ASSUME NEW s, NEW s2, NEW su, NEW su2, NEW cl, NEW k, NEW c \in Clients, NEW l,
         Taken(cl, k, c, l), OneMore(s, s2, su, su2, l)
  PROVE  Counted(s, su, cl) <=> Counted(s2, su2, k)
  <1>1. \A i : /\ Cardinality(Holders(cl, "slot", i)) \in Nat
               /\ Cardinality(Holders(k, "slot", i)) =
                    Cardinality(Holders(cl, "slot", i)) + (IF l.surface = "slot" /\ l.index = i THEN 1 ELSE 0)
    BY HoldersFinite, TakenHolders
  <1>2. \A i : /\ Cardinality(Holders(cl, "cursor", i)) \in Nat
               /\ Cardinality(Holders(k, "cursor", i)) =
                    Cardinality(Holders(cl, "cursor", i)) + (IF l.surface = "cursor" /\ l.index = i THEN 1 ELSE 0)
    BY HoldersFinite, TakenHolders
  <1>3. \A i \in 1..Len(s) : s[i].leases = Cardinality(Holders(cl, "slot", i))
                               <=> s2[i].leases = Cardinality(Holders(k, "slot", i))
    BY <1>1 DEF OneMore
  <1>4. \A i \in SurfaceNames : su[i].leases = Cardinality(Holders(cl, "cursor", i))
                                  <=> su2[i].leases = Cardinality(Holders(k, "cursor", i))
    BY <1>2 DEF OneMore
  <1> QED
    BY <1>3, <1>4 DEF Counted, OneMore

-----------------------------------------------------------------------------
(* Writing slots.                                                          *)

\* A set of naturals that is not empty has a lowest member.
LEMMA LeastExists ==
  ASSUME NEW S \in SUBSET Nat, S # {}
  PROVE  \E low \in S : \A other \in S : low <= other
  <1> DEFINE below == {pair \in Nat \X Nat : pair[1] < pair[2]}
  <1>1. \A i, j \in Nat : i < j => <<i, j>> \in below
    OBVIOUS
  <1>2. IsWellFoundedOn(below, Nat)
    BY NatLessThanWellFounded, Zenon DEF OpToRel
  <1> HIDE DEF below
  <1>3. PICK low \in S : \A other \in S : <<other, low>> \notin below
    BY <1>2, WFMin
  <1>4. ASSUME NEW other \in S PROVE low <= other
    <2>1. low \in Nat /\ other \in Nat /\ <<other, low>> \notin below
      BY <1>3
    <2>2. ~(other < low)
      BY <2>1, <1>1, Zenon
    <2> QED
      BY <2>1, <2>2
  <1> QED
    BY <1>4

\* unpublishedFrame returns a slot that is neither shown nor leased, and makes
\* one only when a lease needs each of the others.
LEMMA UnpublishedFacts ==
  ASSUME PoolTypes(slots, committed, generation, hasFrame), Counted(slots, cursorSlots, client)
  PROVE  /\ UnpublishedSlot \in 1..(Len(slots) + 1)
         /\ UnpublishedSlot # committed
         /\ UnpublishedSlot \in 1..Len(slots) => slots[UnpublishedSlot].leases = 0
         /\ UnpublishedSlot \notin 1..Len(slots) =>
              UnpublishedSlot = Len(slots) + 1 /\ Len(slots) + 1 <= Cardinality(Clients) + 2
  <1>1. /\ slots \in Seq(SlotStates) /\ committed \in 1..Len(slots) /\ Len(slots) \in Nat
        /\ DOMAIN slots = 1..Len(slots) /\ Cardinality(Clients) \in Nat
    BY FrameSlotsAssumption, FS_CardinalityType DEF PoolTypes
  <1>2. CASE IdleSlots = {}
    <2>1. UnpublishedSlot = Len(slots) + 1
      BY <1>2 DEF UnpublishedSlot
    <2>2. \A i \in 1..Len(slots) : i # committed => slots[i].leases # 0
      BY <1>1, <1>2 DEF IdleSlots
    <2>3. Len(slots) <= Cardinality(Clients) + 1
      BY <1>1, <2>2, PoolFacts
    <2> QED
      BY <2>1, <2>3, <1>1
  <1>3. CASE IdleSlots # {}
    <2>1. IdleSlots \subseteq Nat /\ IdleSlots \subseteq 1..Len(slots)
      BY <1>1 DEF IdleSlots
    <2>2. \E i \in IdleSlots : \A j \in IdleSlots : i <= j
      BY <1>3, <2>1, LeastExists
    <2>3. UnpublishedSlot \in IdleSlots
      BY <1>3, <2>2 DEF UnpublishedSlot
    <2> QED
      BY <2>1, <2>3, <1>1 DEF IdleSlots
  <1> QED
    BY <1>2, <1>3

\* Slots q are slots s with slot n changed to slot, or added.
Replaced(s, q, n, slot) ==
  /\ s \in Seq(SlotStates) /\ q \in Seq(SlotStates)
  /\ n \in 1..(Len(s) + 1) /\ n \in 1..Len(q)
  /\ Len(q) = IF n \in 1..Len(s) THEN Len(s) ELSE Len(s) + 1
  /\ q[n] = slot
  /\ \A i \in 1..Len(q) : i # n => i \in 1..Len(s) /\ q[i] = s[i]

\* WithSlot does this.
LEMMA WithSlotFacts ==
  ASSUME slots \in Seq(SlotStates), NEW n \in 1..(Len(slots) + 1), NEW slot \in SlotStates
  PROVE  Replaced(slots, WithSlot(n, slot), n, slot)
  <1>1. DOMAIN slots = 1..Len(slots) /\ Len(slots) \in Nat
    OBVIOUS
  <1>2. CASE n \in 1..Len(slots)
    <2>1. WithSlot(n, slot) = [slots EXCEPT ![n] = slot]
      BY <1>1, <1>2 DEF WithSlot
    <2> QED
      BY <2>1, <1>1, <1>2 DEF Replaced
  <1>3. CASE n \notin 1..Len(slots)
    <2>1. WithSlot(n, slot) = Append(slots, slot)
      BY <1>1, <1>3 DEF WithSlot
    <2>2. n = Len(slots) + 1
      BY <1>1, <1>3
    <2> QED
      BY <2>1, <2>2, <1>1, <1>3 DEF Replaced
  <1> QED
    BY <1>2, <1>3

\* Writing a slot that nobody leases disturbs no lease.
LEMMA WrittenFacts ==
  ASSUME NEW s, NEW q, NEW n, NEW slot, Replaced(s, q, n, slot),
         n \in 1..Len(s) => s[n].leases = 0, slot.leases = 0,
         NEW su, NEW cl, Counted(s, su, cl), LeasesKept(s, su, cl)
  PROVE  Counted(q, su, cl) /\ LeasesKept(q, su, cl)
  <1>1. Len(s) \in Nat /\ Len(q) \in Nat /\ \A i \in 1..Len(s) : i \in 1..Len(q)
    BY DEF Replaced
  <1>2. \A i \in 1..Len(q) : q[i].leases = Cardinality(Holders(cl, "slot", i))
    <2> TAKE i \in 1..Len(q)
    <2>1. CASE i # n \/ n \in 1..Len(s)
      BY <2>1 DEF Replaced, Counted
    <2>2. CASE i = n /\ n \notin 1..Len(s)
      <3>1. Holders(cl, "slot", n) = {}
        BY <2>2 DEF Holders, LeasesKept, Kept
      <3> QED
        BY <3>1, <2>2, HoldersFinite DEF Replaced
    <2> QED
      BY <2>1, <2>2
  <1>3. LeasesKept(q, su, cl)
    <2> SUFFICES ASSUME NEW c \in Clients, cl[c].lease # Nothing PROVE Kept(q, su, cl[c].lease)
      BY DEF LeasesKept
    <2> DEFINE l == cl[c].lease
    <2>1. Kept(s, su, l)
      BY DEF LeasesKept
    <2>2. l.surface = "slot" => l.index \in 1..Len(s) /\ s[l.index].leases # 0
      BY <2>1, UnleasedFacts DEF Kept
    <2> HIDE DEF l
    <2>3. l.surface = "slot" => l.index # n /\ l.index \in 1..Len(q) /\ q[l.index] = s[l.index]
      BY <2>2, <1>1 DEF Replaced
    <2> QED
      BY <2>1, <2>3 DEF Kept, l
  <1> QED
    BY <1>2, <1>3 DEF Counted

-----------------------------------------------------------------------------
(* What steps have in common.                                              *)

\* SlotsInvariant, of the next state.
NextInvariant ==
  /\ GuestTypes(resource', scanout', committedScanout')
  /\ Published(generation', hasFrame', history')
  /\ PoolTypes(slots', committed', generation', hasFrame')
  /\ CursorTypes(cursor', cursorSlots', cursorFrame', cursorGeneration', hasFrame', generation')
  /\ ClientTypes(client', hasFrame', generation')
  /\ Counted(slots', cursorSlots', client')
  /\ LeasesKept(slots', cursorSlots', client')
  /\ CommandOwns(slots', committed', generation', hasFrame', scanout', command')
  /\ SlotsMatch(slots', committed', generation', history', command')
  /\ SurfaceMatches(history', generation', cursor', cursorSlots', cursorFrame', cursorGeneration',
                    slots'[committed'].pixels)

\* The step changes the picture, cursor included, only where it makes it stale,
\* and no client takes part.
PictureAdvances ==
  /\ Advances(generation, hasFrame, history, generation', hasFrame', history',
              Under(cursor, slots[committed].pixels), Under(cursor', slots'[committed'].pixels))
  /\ client' = client

\* It is the invariant, primed.
LEMMA NextIsPrime == NextInvariant <=> SlotsInvariant'
  BY DEF NextInvariant, SlotsInvariant

\* The fields of a command.
LEMMA CommandFacts ==
  ASSUME NEW co \in CommandStates
  PROVE  /\ co.op \in {"idle", "disable", "reset", "full", "copy", "write"}
         /\ co.op # "idle" => co.slot \in Nat
         /\ co.op \in {"full", "copy", "write"} => co.damage \in SUBSET Tiles /\ co.tiles \in SUBSET Tiles
         /\ co.op \in {"full", "copy", "write"} => co \in Flushes
  BY DEF CommandStates, NoCommand, Clears, Flushes

\* No command.
LEMMA IdleCommand == NoCommand \in CommandStates /\ NoCommand.op = "idle"
  BY DEF CommandStates, NoCommand

\* The slot that unpublishedFrame returns, written.
LEMMA WrittenSlot ==
  ASSUME slots \in Seq(SlotStates), NEW n \in 1..(Len(slots) + 1), NEW pixels \in [Tiles -> Int],
         n \in 1..Len(slots) => slots[n].leases = 0
  PROVE  LET slot == [SlotAt(n) EXCEPT !.pixels = pixels]
         IN  /\ slot \in SlotStates /\ slot.leases = 0 /\ slot.pixels = pixels
             /\ slot.generation = SlotAt(n).generation
  <1>1. SlotAt(n) \in SlotStates /\ SlotAt(n).leases = 0
    <2>1. DOMAIN slots = 1..Len(slots)
      OBVIOUS
    <2>2. CASE n \in 1..Len(slots)
      BY <2>1, <2>2 DEF SlotAt
    <2>3. CASE n \notin 1..Len(slots)
      BY <2>1, <2>3 DEF SlotAt, NewSlot, SlotStates, Optional, Blank, Black
    <2> QED
      BY <2>2, <2>3
  <1> HIDE DEF SlotAt
  <1> QED
    BY <1>1 DEF SlotStates

\* A command takes a slot and starts writing it: nobody can tell.
LEMMA BeginFacts ==
  ASSUME SlotsInvariant, Idle, NEW pixels \in [Tiles -> Int], NEW co \in CommandStates,
         slots' = WithSlot(UnpublishedSlot, [SlotAt(UnpublishedSlot) EXCEPT !.pixels = pixels]),
         co.op # "idle", co.slot = UnpublishedSlot, command' = co,
         co.op \in {"copy", "write"} =>
           \A t \in Tiles \ co.damage : pixels[t] = slots[committed].pixels[t],
         UNCHANGED <<committed, generation, hasFrame, history, cursorState, client>>,
         GuestTypes(resource', scanout', committedScanout'),
         co.op = "reset" => generation < MaxGeneration,
         co.op \in {"full", "copy", "write"} => scanout' # Nothing,
         co.op \in {"copy", "write"} => hasFrame
  PROVE  NextInvariant /\ PictureAdvances
  <1> DEFINE n == UnpublishedSlot
             slot == [SlotAt(n) EXCEPT !.pixels = pixels]
  <1>1. /\ slots \in Seq(SlotStates) /\ committed \in 1..Len(slots) /\ Len(slots) \in Nat
        /\ Cardinality(Clients) \in Nat /\ Len(slots) <= Cardinality(Clients) + 2
        /\ slots[committed].pixels \in Pictures
        /\ \A i \in 1..Len(slots) : slots[i].generation \in Baselines(hasFrame, generation)
    BY FrameSlotsAssumption, FS_CardinalityType DEF SlotsInvariant, PoolTypes
  <1>2. /\ n \in 1..(Len(slots) + 1) /\ n # committed
        /\ n \in 1..Len(slots) => slots[n].leases = 0
        /\ n \notin 1..Len(slots) => n = Len(slots) + 1 /\ Len(slots) + 1 <= Cardinality(Clients) + 2
    BY UnpublishedFacts DEF SlotsInvariant
  <1>3. slot \in SlotStates /\ slot.leases = 0 /\ slot.pixels = pixels
        /\ slot.generation = SlotAt(n).generation
    <2> HIDE DEF n
    <2> QED
      BY <1>1, <1>2, WrittenSlot
  <1>4. slot.generation \in Baselines(hasFrame, generation)
    <2>1. CASE n \in 1..Len(slots)
      BY <1>1, <1>3, <2>1 DEF SlotAt
    <2>2. CASE n \notin 1..Len(slots)
      <3>1. slot.generation = Nothing
        BY <1>1, <1>3, <2>2 DEF SlotAt, NewSlot
      <3>2. Nothing # generation
        BY NothingAssumption, FrameSlotsAssumption DEF SlotsInvariant, Published, Generations
      <3> QED
        BY <3>1, <3>2 DEF Baselines, Optional
    <2> QED
      BY <2>1, <2>2
  <1> HIDE DEF slot
  <1>5. Replaced(slots, slots', n, slot)
    <2>1. slots' = WithSlot(n, slot)
      BY DEF slot
    <2> HIDE DEF n
    <2> QED
      BY <2>1, <1>1, <1>2, <1>3, WithSlotFacts
  <1> HIDE DEF n
  <1>6. Counted(slots', cursorSlots, client) /\ LeasesKept(slots', cursorSlots, client)
    <2>1. Counted(slots, cursorSlots, client) /\ LeasesKept(slots, cursorSlots, client)
      BY DEF SlotsInvariant
    <2> QED
      BY <2>1, <1>2, <1>3, <1>5, WrittenFacts
  <1>7. /\ committed \in 1..Len(slots') /\ slots'[committed] = slots[committed]
        /\ n \in 1..Len(slots') /\ slots'[n] = slot
        /\ \A i \in 1..Len(slots') : i # n => i \in 1..Len(slots) /\ slots'[i] = slots[i]
        /\ slots' \in Seq(SlotStates) /\ Len(slots') <= Cardinality(Clients) + 2
    <2> DEFINE q == slots'
    <2>1. Replaced(slots, q, n, slot)
      BY <1>5
    <2> HIDE DEF q
    <2>2. q \in Seq(SlotStates) /\ Len(q) \in Nat /\ n \in 1..Len(q) /\ q[n] = slot
          /\ \A i \in 1..Len(q) : i # n => i \in 1..Len(slots) /\ q[i] = slots[i]
      BY <2>1 DEF Replaced
    <2>3. Len(q) = IF n \in 1..Len(slots) THEN Len(slots) ELSE Len(slots) + 1
      BY <2>1 DEF Replaced
    <2>4. committed \in 1..Len(q) /\ Len(q) <= Cardinality(Clients) + 2
      BY <2>2, <2>3, <1>1, <1>2
    <2>5. q[committed] = slots[committed]
      BY <2>2, <2>4, <1>2
    <2> QED
      BY <2>2, <2>4, <2>5 DEF q
  <1>8. PoolTypes(slots', committed, generation, hasFrame)
    BY <1>1, <1>4, <1>7 DEF PoolTypes
  <1>9. co.slot = n
    BY DEF n
  <1>10. CommandOwns(slots', committed, generation, hasFrame, scanout', co)
    BY <1>2, <1>3, <1>7, <1>9 DEF CommandOwns
  <1>11. SlotsMatch(slots', committed, generation, history, co)
    <2>1. \A i \in 1..Len(slots') : i # n =>
            Matches(history, generation, slots'[i].generation, slots'[i].pixels, slots'[committed].pixels)
      <3>1. SlotsMatch(slots, committed, generation, history, command) /\ command.op = "idle"
        BY DEF SlotsInvariant, Idle
      <3> QED
        BY <3>1, <1>7 DEF SlotsMatch
    <2>2. co.op \in {"copy", "write"} =>
            \A t \in Tiles \ co.damage : slots'[n].pixels[t] = slots'[committed].pixels[t]
      BY <1>3, <1>7
    <2> QED
      BY <2>1, <2>2, <1>9 DEF SlotsMatch
  <1>12. /\ committed' = committed /\ generation' = generation /\ hasFrame' = hasFrame /\ history' = history
         /\ cursor' = cursor /\ cursorSlots' = cursorSlots /\ cursorFrame' = cursorFrame
         /\ cursorGeneration' = cursorGeneration /\ client' = client
    BY DEF cursorState
  <1>13. PictureAdvances
    BY <1>7, <1>12, StillAdvances DEF PictureAdvances
  <1>14. NextInvariant
    BY <1>6, <1>7, <1>8, <1>10, <1>11, <1>12 DEF SlotsInvariant, NextInvariant
  <1> QED
    BY <1>13, <1>14

\* The picture under a cursor advances as the picture does.
LEMMA UnderAdvances ==
  ASSUME NEW g, NEW hf, NEW h, NEW n, NEW f, NEW k, NEW old, NEW new,
         Advances(g, hf, h, n, f, k, old, new), NEW cu
  PROVE  Advances(g, hf, h, n, f, k, Under(cu, old), Under(cu, new))
  BY DEF Advances, Under

\* Clients' generations stay baselines.
LEMMA ClientsAdvance ==
  ASSUME NEW g, NEW hf, NEW h, NEW n, NEW f, NEW k, NEW old, NEW new,
         Advances(g, hf, h, n, f, k, old, new), NEW cl, ClientTypes(cl, hf, g)
  PROVE  ClientTypes(cl, f, n)
  <1>1. \A p \in Baselines(hf, g) : p \in Baselines(f, n)
    BY DEF Advances
  <1> QED
    BY <1>1 DEF ClientTypes

\* Surfaces nobody refers to are freed: no lease is disturbed.
LEMMA UnreferencedFacts ==
  ASSUME NEW su \in [SurfaceNames -> SurfaceStates], NEW current
  PROVE  /\ Unreferenced(su, current) \in [SurfaceNames -> SurfaceStates]
         /\ \A i \in SurfaceNames : /\ Unreferenced(su, current)[i].leases = su[i].leases
                                    /\ i = current \/ su[i].leases # 0 => Unreferenced(su, current)[i] = su[i]
         /\ \A s, cl : Counted(s, su, cl) <=> Counted(s, Unreferenced(su, current), cl)
         /\ \A s, cl : Counted(s, su, cl) /\ LeasesKept(s, su, cl) => LeasesKept(s, Unreferenced(su, current), cl)
  <1> DEFINE v == Unreferenced(su, current)
  <1>1. NoSurface \in SurfaceStates /\ NoSurface.leases = 0
    BY DEF NoSurface, SurfaceStates, Blank, Black, Pictures
  <1>2. v = [i \in SurfaceNames |-> IF i # current /\ su[i].leases = 0 THEN NoSurface ELSE su[i]]
    BY DEF Unreferenced
  <1>3. v \in [SurfaceNames -> SurfaceStates]
    BY <1>1, <1>2
  <1>4. \A i \in SurfaceNames : /\ v[i].leases = su[i].leases
                                /\ i = current \/ su[i].leases # 0 => v[i] = su[i]
    BY <1>1, <1>2
  <1> HIDE DEF v
  <1>5. \A s, cl : Counted(s, su, cl) <=> Counted(s, v, cl)
    BY <1>4 DEF Counted
  <1>6. ASSUME NEW s, NEW cl, Counted(s, su, cl), LeasesKept(s, su, cl) PROVE LeasesKept(s, v, cl)
    <2> SUFFICES ASSUME NEW c \in Clients, cl[c].lease # Nothing PROVE Kept(s, v, cl[c].lease)
      BY DEF LeasesKept
    <2> DEFINE l == cl[c].lease
    <2>1. Kept(s, su, l)
      BY <1>6 DEF LeasesKept
    <2>2. l.surface = "cursor" => l.index \in SurfaceNames /\ su[l.index].leases # 0
      BY <2>1, <1>6, UnleasedFacts DEF Kept
    <2> HIDE DEF l
    <2> QED
      BY <2>1, <2>2, <1>4 DEF Kept, l
  <1> QED
    BY <1>3, <1>4, <1>5, <1>6 DEF v

\* The written slot becomes the picture.
LEMMA EndFacts ==
  ASSUME SlotsInvariant, ~Idle, NEW pixels \in Pictures, NEW slot \in SlotStates,
         slot.pixels = pixels, slot.leases = 0,
         Replaced(slots, slots', command.slot, slot), committed' = command.slot,
         command' = NoCommand, client' = client,
         slot.generation \in Baselines(hasFrame', generation'),
         Published(generation', hasFrame', history'),
         Advances(generation, hasFrame, history, generation', hasFrame', history',
                  slots[committed].pixels, pixels)
  PROVE  /\ PoolTypes(slots', committed', generation', hasFrame')
         /\ ClientTypes(client', hasFrame', generation')
         /\ Counted(slots', cursorSlots, client') /\ LeasesKept(slots', cursorSlots, client')
         /\ CommandOwns(slots', committed', generation', hasFrame', scanout', command')
         /\ SlotsMatch(slots', committed', generation', history', command')
         /\ slots'[committed'].pixels = pixels
  <1> DEFINE n == command.slot
             q == slots'
  <1>1. /\ slots \in Seq(SlotStates) /\ committed \in 1..Len(slots) /\ Len(slots) \in Nat
        /\ Len(slots) <= Cardinality(Clients) + 2
        /\ \A i \in 1..Len(slots) : slots[i].generation \in Baselines(hasFrame, generation)
    BY DEF SlotsInvariant, PoolTypes
  <1>2. n \in 1..Len(slots) /\ n # committed /\ slots[n].leases = 0
    BY DEF SlotsInvariant, CommandOwns, Idle
  <1>3. Replaced(slots, q, n, slot)
    OBVIOUS
  <1>4. Counted(slots, cursorSlots, client) /\ LeasesKept(slots, cursorSlots, client)
    BY DEF SlotsInvariant
  <1> HIDE DEF n, q
  <1>5. Counted(q, cursorSlots, client) /\ LeasesKept(q, cursorSlots, client)
    BY <1>2, <1>3, <1>4, WrittenFacts
  <1>6. /\ q \in Seq(SlotStates) /\ Len(q) = Len(slots) /\ q[n] = slot
        /\ \A i \in 1..Len(q) : i # n => q[i] = slots[i]
    BY <1>2, <1>3 DEF Replaced
  <1>7. \A i \in 1..Len(q) : q[i].generation \in Baselines(hasFrame', generation')
    <2> TAKE i \in 1..Len(q)
    <2>1. CASE i = n
      BY <2>1, <1>6
    <2>2. CASE i # n
      <3>1. q[i] = slots[i] /\ slots[i].generation \in Baselines(hasFrame, generation)
        BY <2>2, <1>1, <1>6
      <3> QED
        BY <3>1 DEF Advances
    <2> QED
      BY <2>1, <2>2
  <1>8. PoolTypes(q, n, generation', hasFrame')
    BY <1>1, <1>2, <1>6, <1>7 DEF PoolTypes
  <1>9. ASSUME NEW i \in 1..Len(q)
        PROVE  Matches(history', generation', q[i].generation, q[i].pixels, pixels)
    <2>1. CASE i = n
      BY <2>1, <1>6 DEF Matches
    <2>2. CASE i # n
      <3>1. q[i] = slots[i] /\ slots[i].generation \in Baselines(hasFrame, generation)
        BY <2>2, <1>1, <1>6, <1>9
      <3>2. Matches(history, generation, slots[i].generation, slots[i].pixels, slots[committed].pixels)
        BY <2>2, <1>1, <1>6, <1>9 DEF SlotsInvariant, SlotsMatch, n
      <3> QED
        BY <3>1, <3>2, MatchesAdvances
    <2> QED
      BY <2>1, <2>2
  <1>10. SlotsMatch(q, n, generation', history', NoCommand)
    BY <1>6, <1>9, IdleCommand DEF SlotsMatch
  <1>11. CommandOwns(q, n, generation', hasFrame', scanout', NoCommand)
    BY IdleCommand DEF CommandOwns
  <1>12. ClientTypes(client, hasFrame, generation)
    BY DEF SlotsInvariant
  <1>13. ClientTypes(client, hasFrame', generation')
    BY <1>12, ClientsAdvance
  <1> QED
    BY <1>5, <1>6, <1>8, <1>10, <1>11, <1>13 DEF n, q

-----------------------------------------------------------------------------
(* One lemma per kind of step.                                             *)

\* Transfers into resources and changes of scanout.
LEMMA GuestFacts ==
  ASSUME SlotsInvariant, Idle, UNCHANGED <<source, cursorState, command, client>>,
         GuestTypes(resource', scanout', committedScanout')
  PROVE  NextInvariant /\ PictureAdvances
  <1>1. /\ slots' = slots /\ committed' = committed /\ generation' = generation
        /\ hasFrame' = hasFrame /\ history' = history /\ cursor' = cursor
        /\ cursorSlots' = cursorSlots /\ cursorFrame' = cursorFrame
        /\ cursorGeneration' = cursorGeneration /\ command' = command /\ client' = client
    BY DEF source, cursorState
  <1>2. CommandOwns(slots, committed, generation, hasFrame, scanout', command)
    BY DEF SlotsInvariant, CommandOwns, Idle
  <1>3. PictureAdvances
    BY <1>1, StillAdvances DEF PictureAdvances
  <1>4. NextInvariant
    BY <1>1, <1>2 DEF SlotsInvariant, NextInvariant
  <1> QED
    BY <1>3, <1>4

\* A transfer awaits its flush.
LEMMA TransferKeeps ==
  ASSUME SlotsInvariant, NEW r \in Resources, NEW tiles \in Rectangles, NEW color \in Colors,
         NEW exact \in ExactTransfers, Transfer(r, tiles, color, exact)
  PROVE  NextInvariant /\ PictureAdvances
  <1>1. tiles \in SUBSET Tiles /\ color \in Nat
    BY FrameSlotsAssumption
  <1>2. resource \in [Resources -> ResourceStates] /\ resource[r] \in ResourceStates
    BY DEF SlotsInvariant, GuestTypes
  <1> DEFINE new == [pixels |-> [t \in Tiles |-> IF t \in tiles THEN color ELSE resource[r].pixels[t]],
                     pending |-> resource[r].pending \cup tiles,
                     exact |-> IF exact THEN resource[r].exact \cup tiles ELSE resource[r].exact]
  <1>3. new \in ResourceStates
    BY <1>1, <1>2 DEF ResourceStates, Pictures
  <1>4. resource' = [resource EXCEPT ![r] = new]
    BY <1>2 DEF Transfer
  <1> HIDE DEF new
  <1>5. resource' \in [Resources -> ResourceStates]
    BY <1>2, <1>3, <1>4
  <1>6. GuestTypes(resource', scanout', committedScanout')
    BY <1>5 DEF Transfer, GuestTypes, SlotsInvariant
  <1> QED
    BY <1>6, GuestFacts DEF Transfer

\* A scanout is shown from the next flush on.
LEMMA SetScanoutKeeps ==
  ASSUME SlotsInvariant, NEW r \in Resources, NEW tiles \in Screens, SetScanout(r, tiles)
  PROVE  NextInvariant /\ PictureAdvances
  <1>1. [resource |-> r, tiles |-> tiles] \in Scanouts
    BY FrameSlotsAssumption DEF Scanouts
  <1>2. GuestTypes(resource', scanout', committedScanout')
    BY <1>1 DEF SetScanout, GuestTypes, SlotsInvariant, Optional
  <1> QED
    BY <1>2, GuestFacts DEF SetScanout

\* updateCursor, moveCursor and removal: the picture under the cursor changes
\* within the damage that displayStateChanged commits.
LEMMA ChangeCursorFacts ==
  ASSUME SlotsInvariant, Idle, NEW new \in Optional(Cursors), ChangeCursor(new),
         cursorGeneration' \in {cursorGeneration, Nothing},
         cursorGeneration' # Nothing /\ new # Nothing => cursor # Nothing
  PROVE  NextInvariant /\ PictureAdvances
  <1> DEFINE damage == CursorTiles(cursor) \cup CursorTiles(new)
             px == slots[committed].pixels
             old == Under(cursor, px)
             after == Under(new, px)
  <1>1. Published(generation, hasFrame, history)
    BY DEF SlotsInvariant
  <1>2. damage \in SUBSET Tiles
    BY DEF CursorTiles
  <1>3. \A t \in Tiles \ damage : after[t] = old[t]
    BY DEF CursorTiles, Under
  <1> HIDE DEF damage, px, old, after
  <1>4. /\ Published(generation', hasFrame', history')
        /\ Advances(generation, hasFrame, history, generation', hasFrame', history', old, after)
        /\ Advances(generation, hasFrame, history, generation', hasFrame', history', px, px)
    <2>1. CASE hasFrame
      <3>1. Commits(damage, generation, hasFrame, history, generation', hasFrame', history')
        BY <2>1, CommitIsCommits DEF ChangeCursor, DisplayStateChanged, damage
      <3> QED
        BY <3>1, <1>1, <1>2, <1>3, CommitAdvances
    <2>2. CASE ~hasFrame
      <3>1. hasFrame = FALSE /\ hasFrame' = FALSE /\ generation' = generation /\ history' = history
        BY <2>2, <1>1 DEF ChangeCursor, DisplayStateChanged, Published
      <3>2. Published(generation, FALSE, history)
        BY <3>1, <1>1
      <3>3. /\ Advances(generation, FALSE, history, generation, FALSE, history, old, after)
            /\ Advances(generation, FALSE, history, generation, FALSE, history, px, px)
        BY <3>2, NoFrameAdvances
      <3> QED
        BY <3>1, <3>2, <3>3, Zenon
    <2> QED
      BY <2>1, <2>2
  <1>5. /\ slots' = slots /\ committed' = committed /\ cursor' = new /\ cursorSlots' = cursorSlots
        /\ cursorFrame' = cursorFrame /\ command' = command /\ client' = client
        /\ resource' = resource /\ scanout' = scanout /\ committedScanout' = committedScanout
    BY DEF ChangeCursor, guest
  <1>6. ASSUME NEW p \in Baselines(hasFrame, generation)
        PROVE  p \in Baselines(hasFrame', generation')
    BY <1>4 DEF Advances
  <1>7. PoolTypes(slots, committed, generation', hasFrame')
    BY <1>6 DEF SlotsInvariant, PoolTypes
  <1>8. ClientTypes(client, hasFrame', generation')
    BY <1>4, ClientsAdvance DEF SlotsInvariant
  <1>9. Nothing \in Baselines(hasFrame, generation)
    BY NothingAssumption, FrameSlotsAssumption, <1>1 DEF Published, Generations, Baselines, Optional
  <1>10. CursorTypes(new, cursorSlots, cursorFrame, cursorGeneration', hasFrame', generation')
    BY <1>6, <1>9 DEF SlotsInvariant, CursorTypes
  <1>11. CommandOwns(slots, committed, generation', hasFrame', scanout, command)
    BY DEF SlotsInvariant, CommandOwns, Idle
  <1>12. SlotsMatch(slots, committed, generation', history', command)
    <2>1. command.op = "idle"
      BY DEF Idle
    <2>2. ASSUME NEW i \in 1..Len(slots)
          PROVE  Matches(history', generation', slots[i].generation, slots[i].pixels, slots[committed].pixels)
      <3>1. slots[i].generation \in Baselines(hasFrame, generation)
        BY DEF SlotsInvariant, PoolTypes
      <3>2. Matches(history, generation, slots[i].generation, slots[i].pixels, px)
        BY <2>1 DEF SlotsInvariant, SlotsMatch, px
      <3>3. Matches(history', generation', slots[i].generation, slots[i].pixels, px)
        BY <3>1, <3>2, <1>4, MatchesAdvances
      <3> QED
        BY <3>3 DEF px
    <2> QED
      BY <2>1, <2>2 DEF SlotsMatch
  <1>13. SurfaceMatches(history', generation', new, cursorSlots, cursorFrame, cursorGeneration',
                        slots[committed].pixels)
    <2> SUFFICES ASSUME new # Nothing, cursorGeneration' # Nothing
                 PROVE  Matches(history', generation', cursorGeneration', cursorSlots[cursorFrame].pixels, after)
      BY DEF SurfaceMatches, after, px
    <2>1. cursor # Nothing /\ cursorGeneration' = cursorGeneration
      OBVIOUS
    <2>2. Matches(history, generation, cursorGeneration, cursorSlots[cursorFrame].pixels, old)
      BY <2>1 DEF SlotsInvariant, SurfaceMatches, old, px
    <2>3. cursorGeneration \in Baselines(hasFrame, generation)
      BY DEF SlotsInvariant, CursorTypes
    <2> QED
      BY <2>1, <2>2, <2>3, <1>4, MatchesAdvances
  <1>14. PictureAdvances
    BY <1>4, <1>5 DEF PictureAdvances, old, after, px
  <1>15. NextInvariant
    BY <1>4, <1>5, <1>7, <1>8, <1>10, <1>11, <1>12, <1>13 DEF SlotsInvariant, NextInvariant
  <1> QED
    BY <1>14, <1>15

\* updateCursor: the image and its place.
LEMMA UpdateCursorKeeps ==
  ASSUME SlotsInvariant, NEW tile \in Tiles, NEW image \in Images, UpdateCursor(tile, image)
  PROVE  NextInvariant /\ PictureAdvances
  <1>1. [tile |-> tile, image |-> image] \in Optional(Cursors)
    BY FrameSlotsAssumption DEF Cursors, Optional
  <1> QED
    BY <1>1, ChangeCursorFacts DEF UpdateCursor

\* moveCursor.
LEMMA MoveCursorKeeps ==
  ASSUME SlotsInvariant, NEW tile \in Tiles, MoveCursor(tile)
  PROVE  NextInvariant /\ PictureAdvances
  <1>1. cursor \in Cursors
    BY DEF SlotsInvariant, CursorTypes, MoveCursor, Optional
  <1>2. [cursor EXCEPT !.tile = tile] \in Optional(Cursors)
    BY <1>1 DEF Cursors, Optional
  <1> QED
    BY <1>2, ChangeCursorFacts DEF MoveCursor

\* updateCursor with resource 0.
LEMMA RemoveCursorKeeps ==
  ASSUME SlotsInvariant, RemoveCursor
  PROVE  NextInvariant /\ PictureAdvances
  <1>1. Nothing \in Optional(Cursors)
    BY DEF Optional
  <1> QED
    BY <1>1, ChangeCursorFacts DEF RemoveCursor

\* A transfer into the shown cursor's resource: the one step that changes the
\* picture outside the records.  It keeps the invariant, because the cursor
\* surface is composed anew.
LEMMA TransferCursorKeeps ==
  ASSUME SlotsInvariant, NEW image \in Images, TransferCursor(image)
  PROVE  NextInvariant /\ (cursor' = cursor => PictureAdvances)
  <1>1. cursor \in Cursors
    BY DEF SlotsInvariant, CursorTypes, TransferCursor, Optional
  <1>2. [cursor EXCEPT !.image = image] \in Optional(Cursors)
    BY <1>1, FrameSlotsAssumption DEF Cursors, Optional
  <1>3. /\ slots' = slots /\ committed' = committed /\ generation' = generation
        /\ hasFrame' = hasFrame /\ history' = history /\ cursor' = [cursor EXCEPT !.image = image]
        /\ cursorSlots' = cursorSlots /\ cursorFrame' = cursorFrame
        /\ cursorGeneration' = Nothing /\ command' = command /\ client' = client
        /\ resource' = resource /\ scanout' = scanout /\ committedScanout' = committedScanout
    BY DEF TransferCursor, source, guest
  <1>4. Nothing \in Baselines(hasFrame, generation)
    BY NothingAssumption, FrameSlotsAssumption DEF SlotsInvariant, Published, Generations, Baselines, Optional
  <1>5. CursorTypes(cursor', cursorSlots, cursorFrame, Nothing, hasFrame, generation)
    BY <1>2, <1>3, <1>4 DEF SlotsInvariant, CursorTypes
  <1>6. SurfaceMatches(history, generation, cursor', cursorSlots, cursorFrame, Nothing, slots[committed].pixels)
    BY DEF SurfaceMatches
  <1>7. NextInvariant
    BY <1>3, <1>5, <1>6 DEF SlotsInvariant, NextInvariant
  <1>8. cursor' = cursor => PictureAdvances
    BY <1>3, StillAdvances DEF PictureAdvances
  <1> QED
    BY <1>7, <1>8

\* clearCommittedFrame takes a slot.
LEMMA BeginClearFacts ==
  ASSUME SlotsInvariant, Idle, NEW op \in {"disable", "reset"}, BeginClear(op),
         GuestTypes(resource', scanout', committedScanout'), generation < MaxGeneration
  PROVE  NextInvariant /\ PictureAdvances
  <1> DEFINE n == UnpublishedSlot
             pixels == Tear(Tiles, SlotAt(n).pixels)
             co == [op |-> op, slot |-> n]
  <1>1. n \in Nat /\ slots \in Seq(SlotStates)
    BY UnpublishedFacts DEF SlotsInvariant, PoolTypes
  <1>2. pixels \in [Tiles -> Int]
    BY DEF Tear, Torn
  <1>3. co \in Clears /\ co.op = op /\ co.slot = n
    BY <1>1 DEF Clears
  <1>4. slots' = WithSlot(n, [SlotAt(n) EXCEPT !.pixels = pixels]) /\ command' = co
    BY DEF BeginClear
  <1>5. UNCHANGED <<committed, generation, hasFrame, history, cursorState, client>>
    BY DEF BeginClear
  <1> HIDE DEF pixels, co
  <1>6. co \in CommandStates /\ co.op \notin {"idle", "full", "copy", "write"}
    BY <1>3 DEF CommandStates
  <1> QED
    BY <1>2, <1>3, <1>4, <1>5, <1>6, BeginFacts

\* A resource without contents.
LEMMA NewResourceTyped == NewResource \in ResourceStates
  BY DEF NewResource, ResourceStates, Pictures, Blank, Black

\* setScanout with resource 0 takes a slot to clear.
LEMMA BeginDisableKeeps ==
  ASSUME SlotsInvariant, BeginDisable
  PROVE  NextInvariant /\ PictureAdvances
  <1>1. GuestTypes(resource', scanout', committedScanout')
    BY DEF SlotsInvariant, GuestTypes, BeginDisable, Optional
  <1> QED
    BY <1>1, BeginClearFacts DEF BeginDisable

\* reset drops the resources and takes a slot to clear.
LEMMA BeginResetKeeps ==
  ASSUME SlotsInvariant, BeginReset
  PROVE  NextInvariant /\ PictureAdvances
  <1>1. GuestTypes(resource', scanout', committedScanout')
    BY NewResourceTyped DEF SlotsInvariant, GuestTypes, BeginReset
  <1> QED
    BY <1>1, BeginClearFacts DEF BeginReset

\* unrefResource, of a resource that is shown or not.
LEMMA UnrefResourceKeeps ==
  ASSUME SlotsInvariant, NEW r \in Resources, UnrefResource(r)
  PROVE  NextInvariant /\ PictureAdvances
  <1>1. resource' \in [Resources -> ResourceStates]
    BY NewResourceTyped DEF SlotsInvariant, GuestTypes, UnrefResource
  <1>2. CASE scanout # Nothing /\ scanout.resource = r
    <2>1. GuestTypes(resource', scanout', committedScanout')
      BY <1>1, <1>2 DEF GuestTypes, UnrefResource, Optional
    <2> QED
      BY <2>1, <1>2, BeginClearFacts DEF UnrefResource
  <1>3. CASE ~(scanout # Nothing /\ scanout.resource = r)
    <2>1. GuestTypes(resource', scanout', committedScanout')
      BY <1>1, <1>3 DEF SlotsInvariant, GuestTypes, UnrefResource
    <2> QED
      BY <2>1, <1>3, GuestFacts DEF UnrefResource
  <1> QED
    BY <1>2, <1>3

\* flushResource takes a slot: a copy of the picture is what is not torn.
LEMMA BeginFlushKeeps ==
  ASSUME SlotsInvariant, NEW tiles \in Rectangles, BeginFlush(tiles)
  PROVE  NextInvariant /\ PictureAdvances
  <1> DEFINE n == UnpublishedSlot
             damage == IF NeedsFullFrame THEN Tiles ELSE CatchUp(SlotAt(n))
             pixels == Tear(damage, SlotAt(n).pixels)
             op == IF NeedsFullFrame THEN "full" ELSE "copy"
             co == [op |-> op, slot |-> n, damage |-> damage, tiles |-> tiles]
  <1>1. /\ n \in 1..(Len(slots) + 1) /\ n \in Nat /\ n # committed
        /\ slots \in Seq(SlotStates) /\ DOMAIN slots = 1..Len(slots)
    BY UnpublishedFacts DEF SlotsInvariant, PoolTypes
  <1>2. Published(generation, hasFrame, history)
    BY DEF SlotsInvariant
  <1>3. /\ SlotAt(n) \in SlotStates
        /\ SlotAt(n).generation \in Baselines(hasFrame, generation)
        /\ \A t \in Tiles : ~Stale(history, generation, SlotAt(n).generation, t) =>
                              SlotAt(n).pixels[t] = slots[committed].pixels[t]
    <2>1. CASE n \in 1..Len(slots)
      <3>1. SlotAt(n) = slots[n]
        BY <1>1, <2>1 DEF SlotAt
      <3>2. Matches(history, generation, slots[n].generation, slots[n].pixels, slots[committed].pixels)
        BY <2>1 DEF SlotsInvariant, SlotsMatch, BeginFlush, Idle
      <3> QED
        BY <3>1, <3>2, <1>1, <2>1 DEF SlotsInvariant, PoolTypes, Matches
    <2>2. CASE n \notin 1..Len(slots)
      <3>1. SlotAt(n) = NewSlot
        BY <1>1, <2>2 DEF SlotAt
      <3>2. NewSlot \in SlotStates /\ NewSlot.generation = Nothing
        BY DEF NewSlot, SlotStates, Optional, Blank, Black
      <3>3. Nothing \in Baselines(hasFrame, generation)
        BY <1>2, NothingAssumption, FrameSlotsAssumption DEF Published, Generations, Baselines, Optional
      <3> QED
        BY <3>1, <3>2, <3>3 DEF Stale
    <2> QED
      BY <2>1, <2>2
  <1>4. /\ damage \in SUBSET Tiles
        /\ \A t \in Tiles : Stale(history, generation, SlotAt(n).generation, t) => t \in damage
    <2> HIDE DEF n
    <2> QED
      BY <1>2, <1>3, CatchUpFacts
  <1>5. /\ slots' = WithSlot(n, [SlotAt(n) EXCEPT !.pixels = pixels]) /\ command' = co
        /\ tiles \in SUBSET Tiles /\ scanout # Nothing
    BY FrameSlotsAssumption DEF BeginFlush
  <1>6. op \in {"full", "copy"} /\ (op = "copy" => hasFrame)
    BY DEF NeedsFullFrame
  <1>7. /\ UNCHANGED <<committed, generation, hasFrame, history, cursorState, client>>
        /\ resource' = resource /\ scanout' = scanout /\ committedScanout' = committedScanout
        /\ Idle
    BY DEF BeginFlush, guest
  <1> HIDE DEF n, damage, op
  <1>8. pixels \in [Tiles -> Int]
    BY <1>3 DEF Tear, Torn, SlotStates
  <1>9. \A t \in Tiles \ damage : pixels[t] = slots[committed].pixels[t]
    BY <1>3, <1>4 DEF Tear
  <1>10. co \in Flushes /\ co.op = op /\ co.slot = n /\ co.damage = damage
    BY <1>1, <1>4, <1>5, <1>6 DEF Flushes
  <1> HIDE DEF pixels, co
  <1>11. co \in CommandStates /\ co.op \notin {"idle", "reset"} /\ (co.op \in {"copy", "write"} => hasFrame)
    BY <1>6, <1>10 DEF CommandStates
  <1>12. GuestTypes(resource', scanout', committedScanout') /\ scanout' # Nothing
    BY <1>5, <1>7 DEF SlotsInvariant
  <1>13. \A t \in Tiles \ co.damage : pixels[t] = slots[committed].pixels[t]
    BY <1>9, <1>10
  <1> QED
    BY <1>5, <1>7, <1>8, <1>10, <1>11, <1>12, <1>13, BeginFacts DEF n

\* The slot a command owns.
LEMMA OwnFacts ==
  ASSUME SlotsInvariant, ~Idle
  PROVE  /\ command \in CommandStates /\ command.slot \in 1..Len(slots) /\ command.slot # committed
         /\ slots[command.slot].leases = 0 /\ slots[command.slot] \in SlotStates
         /\ slots \in Seq(SlotStates) /\ DOMAIN slots = 1..Len(slots) /\ Len(slots) \in Nat
         /\ committed \in 1..Len(slots) /\ slots[committed] \in SlotStates
         /\ slots[committed].pixels \in Pictures
         /\ slots[command.slot].pixels \in [Tiles -> Int]
  <1>1. /\ command \in CommandStates /\ command.slot \in 1..Len(slots) /\ command.slot # committed
        /\ slots[command.slot].leases = 0
    BY DEF SlotsInvariant, CommandOwns, Idle
  <1>2. /\ slots \in Seq(SlotStates) /\ DOMAIN slots = 1..Len(slots) /\ Len(slots) \in Nat
        /\ committed \in 1..Len(slots) /\ slots[committed].pixels \in Pictures
    BY DEF SlotsInvariant, PoolTypes
  <1>3. slots[committed] \in SlotStates /\ slots[command.slot] \in SlotStates
    BY <1>1, <1>2
  <1> QED
    BY <1>1, <1>2, <1>3 DEF SlotStates

\* Writing the slot a command owns.
LEMMA OwnWritten ==
  ASSUME SlotsInvariant, ~Idle, NEW slot \in SlotStates, slots' = [slots EXCEPT ![command.slot] = slot]
  PROVE  Replaced(slots, slots', command.slot, slot)
  <1>1. /\ command.slot \in 1..Len(slots) /\ slots \in Seq(SlotStates) /\ Len(slots) \in Nat
    BY OwnFacts
  <1> QED
    BY <1>1 DEF Replaced

\* clearCommittedFrame's slot is cleared and shown.
LEMMA ClearedFacts ==
  ASSUME SlotsInvariant, ~Idle
  PROVE  /\ ClearedSlot \in SlotStates /\ ClearedSlot.pixels = Blank /\ ClearedSlot.leases = 0
         /\ ClearedSlot.generation = Nothing /\ Blank \in Pictures
         /\ slots' = WithSlot(command.slot, ClearedSlot) =>
              Replaced(slots, slots', command.slot, ClearedSlot)
  <1>1. slots[command.slot] \in SlotStates /\ slots[command.slot].leases = 0
        /\ command.slot \in 1..Len(slots) /\ DOMAIN slots = 1..Len(slots)
    BY OwnFacts
  <1>2. Blank \in Pictures /\ Blank \in [Tiles -> Int]
    BY DEF Blank, Black, Pictures
  <1>3. /\ ClearedSlot \in SlotStates /\ ClearedSlot.pixels = Blank /\ ClearedSlot.leases = 0
        /\ ClearedSlot.generation = Nothing
    BY <1>1, <1>2 DEF ClearedSlot, SlotStates, Optional
  <1> HIDE DEF ClearedSlot
  <1>4. WithSlot(command.slot, ClearedSlot) = [slots EXCEPT ![command.slot] = ClearedSlot]
    BY <1>1 DEF WithSlot
  <1> QED
    BY <1>2, <1>3, <1>4, OwnWritten

\* No generation is always a baseline.
LEMMA NothingBaseline ==
  ASSUME NEW g, NEW hf, NEW h, Published(g, hf, h)
  PROVE  Nothing \in Baselines(hf, g) /\ g \in Nat /\ Nothing # g
  BY NothingAssumption, FrameSlotsAssumption DEF Published, Generations, Baselines, Optional

\* The cursor surface follows a picture that advances.
LEMMA SurfaceAdvances ==
  ASSUME SlotsInvariant, NEW n, NEW f, NEW k, NEW new,
         Advances(generation, hasFrame, history, n, f, k, slots[committed].pixels, new)
  PROVE  /\ SurfaceMatches(k, n, cursor, cursorSlots, cursorFrame, cursorGeneration, new)
         /\ CursorTypes(cursor, cursorSlots, cursorFrame, cursorGeneration, f, n)
  <1> DEFINE old == slots[committed].pixels
  <1>1. Advances(generation, hasFrame, history, n, f, k, Under(cursor, old), Under(cursor, new))
    BY UnderAdvances
  <1>2. cursorGeneration \in Baselines(hasFrame, generation)
    BY DEF SlotsInvariant, CursorTypes
  <1>3. cursorGeneration \in Baselines(f, n)
    BY <1>1, <1>2 DEF Advances
  <1>4. CursorTypes(cursor, cursorSlots, cursorFrame, cursorGeneration, f, n)
    BY <1>3 DEF SlotsInvariant, CursorTypes
  <1>5. SurfaceMatches(history, generation, cursor, cursorSlots, cursorFrame, cursorGeneration, old)
    BY DEF SlotsInvariant
  <1> HIDE DEF old
  <1>6. SurfaceMatches(k, n, cursor, cursorSlots, cursorFrame, cursorGeneration, new)
    BY <1>1, <1>2, <1>5, MatchesAdvances DEF SurfaceMatches
  <1> QED
    BY <1>4, <1>6

\* A command ends with a commit.
LEMMA CommittedFacts ==
  ASSUME SlotsInvariant, ~Idle, NEW pixels \in Pictures, NEW slot \in SlotStates,
         slot.pixels = pixels, slot.leases = 0,
         Replaced(slots, slots', command.slot, slot), committed' = command.slot,
         command' = NoCommand, UNCHANGED <<cursorState, client>>,
         NEW damage \in SUBSET Tiles, Commit(damage),
         slot.generation \in {generation', Nothing},
         \A t \in Tiles \ damage : pixels[t] = slots[committed].pixels[t],
         damage = {} => hasFrame,
         GuestTypes(resource', scanout', committedScanout')
  PROVE  NextInvariant /\ PictureAdvances
  <1> DEFINE old == slots[committed].pixels
  <1>1. Published(generation, hasFrame, history)
    BY DEF SlotsInvariant
  <1>2. Commits(damage, generation, hasFrame, history, generation', hasFrame', history')
    BY CommitIsCommits
  <1>3. \A t \in Tiles \ damage : pixels[t] = old[t]
    OBVIOUS
  <1> HIDE DEF old
  <1>4. /\ Published(generation', hasFrame', history')
        /\ Advances(generation, hasFrame, history, generation', hasFrame', history', old, pixels)
        /\ hasFrame'
    <2>1. /\ Published(generation', hasFrame', history')
          /\ Advances(generation, hasFrame, history, generation', hasFrame', history', old, pixels)
      BY <1>1, <1>2, <1>3, CommitAdvances
    <2>2. hasFrame'
      BY DEF Commit
    <2> QED
      BY <2>1, <2>2
  <1>5. slot.generation \in Baselines(hasFrame', generation')
    <2>1. Nothing \in Baselines(hasFrame', generation') /\ generation' \in Nat
      BY <1>4, NothingBaseline
    <2>2. generation' \in Baselines(hasFrame', generation')
      BY <1>4, <2>1 DEF Baselines, Optional
    <2> QED
      BY <2>1, <2>2
  <1>6. Advances(generation, hasFrame, history, generation', hasFrame', history', slots[committed].pixels, pixels)
    BY <1>4 DEF old
  <1>7. /\ PoolTypes(slots', committed', generation', hasFrame')
        /\ ClientTypes(client', hasFrame', generation')
        /\ Counted(slots', cursorSlots, client') /\ LeasesKept(slots', cursorSlots, client')
        /\ CommandOwns(slots', committed', generation', hasFrame', scanout', command')
        /\ SlotsMatch(slots', committed', generation', history', command')
        /\ slots'[committed'].pixels = pixels
    BY <1>4, <1>5, <1>6, EndFacts
  <1>8. /\ SurfaceMatches(history', generation', cursor, cursorSlots, cursorFrame, cursorGeneration, pixels)
        /\ CursorTypes(cursor, cursorSlots, cursorFrame, cursorGeneration, hasFrame', generation')
    BY <1>6, SurfaceAdvances
  <1>9. /\ cursor' = cursor /\ cursorSlots' = cursorSlots /\ cursorFrame' = cursorFrame
        /\ cursorGeneration' = cursorGeneration /\ client' = client
    BY DEF cursorState
  <1>10. PictureAdvances
    BY <1>6, <1>7, <1>9, UnderAdvances DEF PictureAdvances
  <1>11. NextInvariant
    BY <1>4, <1>7, <1>8, <1>9 DEF NextInvariant
  <1> QED
    BY <1>10, <1>11

\* The cleared slot is committed.
LEMMA EndDisableKeeps ==
  ASSUME SlotsInvariant, EndDisable
  PROVE  NextInvariant /\ PictureAdvances
  <1>1. ~Idle
    BY DEF EndDisable, Idle
  <1>2. /\ ClearedSlot \in SlotStates /\ ClearedSlot.pixels = Blank /\ ClearedSlot.leases = 0
        /\ ClearedSlot.generation = Nothing /\ Blank \in Pictures
        /\ Replaced(slots, slots', command.slot, ClearedSlot)
    BY <1>1, ClearedFacts DEF EndDisable
  <1>3. /\ committed' = command.slot /\ command' = NoCommand /\ Commit(Tiles)
        /\ UNCHANGED <<cursorState, client>>
    BY DEF EndDisable
  <1>4. GuestTypes(resource', scanout', committedScanout')
    BY DEF SlotsInvariant, EndDisable, guest
  <1>5. Tiles \in SUBSET Tiles /\ Tiles # {} /\ Tiles \ Tiles = {}
    BY FrameSlotsAssumption
  <1> DEFINE s == ClearedSlot
             px == Blank
  <1> HIDE DEF s, px
  <1>6. /\ s \in SlotStates /\ s.pixels = px /\ s.leases = 0 /\ px \in Pictures
        /\ s.generation \in {generation', Nothing}
        /\ Replaced(slots, slots', command.slot, s)
        /\ \A t \in Tiles \ Tiles : px[t] = slots[committed].pixels[t]
    BY <1>2, <1>5 DEF s, px
  <1> QED
    BY <1>1, <1>3, <1>4, <1>5, <1>6, CommittedFacts

\* The cleared slot is the picture, without a frame.
LEMMA EndResetKeeps ==
  ASSUME SlotsInvariant, EndReset
  PROVE  NextInvariant /\ PictureAdvances
  <1>1. ~Idle
    BY DEF EndReset, Idle
  <1> DEFINE s == ClearedSlot
             px == Blank
             su == Unreferenced(cursorSlots, Nothing)
  <1>2. /\ s \in SlotStates /\ s.pixels = px /\ s.leases = 0
        /\ s.generation = Nothing /\ px \in Pictures
        /\ Replaced(slots, slots', command.slot, s)
    BY <1>1, ClearedFacts DEF EndReset
  <1>3. /\ committed' = command.slot /\ command' = NoCommand /\ client' = client
        /\ generation' = generation + 1 /\ hasFrame' = FALSE /\ history' = <<>>
        /\ resource' = resource /\ scanout' = Nothing /\ committedScanout' = Nothing
        /\ cursor' = Nothing /\ cursorFrame' = Nothing /\ cursorGeneration' = Nothing
        /\ cursorSlots' = su
    BY DEF EndReset
  <1>4. generation < MaxGeneration
    BY DEF SlotsInvariant, CommandOwns, EndReset
  <1> HIDE DEF s, px, su
  <1>5. /\ Published(generation', hasFrame', history')
        /\ \A old, new : Advances(generation, hasFrame, history, generation', hasFrame', history', old, new)
    <2>1. Published(generation, hasFrame, history)
      BY DEF SlotsInvariant
    <2>2. /\ Published(generation + 1, FALSE, <<>>)
          /\ \A old, new : Advances(generation, hasFrame, history, generation + 1, FALSE, <<>>, old, new)
      BY <2>1, <1>4, ResetAdvances
    <2> QED
      BY <2>2, <1>3, Zenon
  <1>6. Nothing \in Baselines(hasFrame', generation')
    BY <1>5, NothingBaseline
  <1>7. /\ PoolTypes(slots', committed', generation', hasFrame')
        /\ ClientTypes(client', hasFrame', generation')
        /\ Counted(slots', cursorSlots, client') /\ LeasesKept(slots', cursorSlots, client')
        /\ CommandOwns(slots', committed', generation', hasFrame', scanout', command')
        /\ SlotsMatch(slots', committed', generation', history', command')
    BY <1>1, <1>2, <1>3, <1>5, <1>6, EndFacts
  <1>8. cursorSlots \in [SurfaceNames -> SurfaceStates]
    BY DEF SlotsInvariant, CursorTypes
  <1>9. /\ su \in [SurfaceNames -> SurfaceStates]
        /\ Counted(slots', su, client') /\ LeasesKept(slots', su, client')
    BY <1>7, <1>8, UnreferencedFacts DEF su
  <1>10. CursorTypes(Nothing, su, Nothing, Nothing, hasFrame', generation')
    BY <1>6, <1>9 DEF CursorTypes, Optional
  <1>11. GuestTypes(resource', scanout', committedScanout')
    BY <1>3 DEF SlotsInvariant, GuestTypes, Optional
  <1>12. SurfaceMatches(history', generation', cursor', cursorSlots', cursorFrame', cursorGeneration',
                        slots'[committed'].pixels)
    BY <1>3 DEF SurfaceMatches
  <1>13. NextInvariant
    BY <1>3, <1>5, <1>7, <1>9, <1>10, <1>11, <1>12 DEF NextInvariant
  <1>14. PictureAdvances
    BY <1>3, <1>5 DEF PictureAdvances
  <1> QED
    BY <1>13, <1>14

\* The copy ends: the slot is the picture except where it is written next.
LEMMA EndCopyKeeps ==
  ASSUME SlotsInvariant, EndCopy
  PROVE  NextInvariant /\ PictureAdvances
  <1> DEFINE n == command.slot
             copied == CopyTiles(command.damage, slots[committed].pixels, slots[n].pixels)
             changed == ChangedTiles(command.tiles, copied)
             torn == Tear(changed, copied)
             slot == [slots[n] EXCEPT !.pixels = torn, !.generation = generation]
             co == [command EXCEPT !.op = "write", !.damage = changed]
  <1>1. ~Idle /\ command.op = "copy"
    BY DEF EndCopy, Idle
  <1>2. /\ n \in 1..Len(slots) /\ n # committed /\ slots[n].leases = 0 /\ slots[n] \in SlotStates
        /\ slots \in Seq(SlotStates) /\ committed \in 1..Len(slots) /\ Len(slots) \in Nat
        /\ slots[committed].pixels \in Pictures /\ slots[n].pixels \in [Tiles -> Int]
        /\ command \in CommandStates
    BY <1>1, OwnFacts
  <1>3. command \in Flushes
    BY <1>1, <1>2, CommandFacts
  <1>4. \A t \in Tiles : copied[t] = slots[committed].pixels[t]
    BY <1>1 DEF SlotsInvariant, SlotsMatch, CopyTiles
  <1>5. changed \in SUBSET Tiles
    <2>1. scanout \in Scanouts
      BY <1>1 DEF SlotsInvariant, CommandOwns, GuestTypes, Optional
    <2>2. scanout.tiles \in SUBSET Tiles
      BY <2>1 DEF Scanouts
    <2> QED
      BY <2>2 DEF ChangedTiles, Transferred
  <1>6. slots' = [slots EXCEPT ![n] = slot]
    BY DEF EndCopy
  <1>7. command' = co
    BY DEF EndCopy
  <1>8. /\ committed' = committed /\ generation' = generation
        /\ hasFrame' = hasFrame /\ history' = history /\ cursor' = cursor
        /\ cursorSlots' = cursorSlots /\ cursorFrame' = cursorFrame
        /\ cursorGeneration' = cursorGeneration /\ client' = client
        /\ resource' = resource /\ scanout' = scanout /\ committedScanout' = committedScanout
    BY DEF EndCopy, guest, cursorState
  <1> HIDE DEF changed
  <1>9. torn \in [Tiles -> Int]
    BY <1>2, <1>4 DEF Tear, Torn, Pictures
  <1>10. \A t \in Tiles \ changed : torn[t] = slots[committed].pixels[t]
    BY <1>4 DEF Tear
  <1> HIDE DEF torn, n
  <1>11. Published(generation, hasFrame, history) /\ generation \in Nat /\ hasFrame
    BY <1>1, NothingBaseline DEF SlotsInvariant, CommandOwns
  <1>12. slot \in SlotStates /\ slot.pixels = torn /\ slot.leases = 0 /\ slot.generation = generation
    BY <1>2, <1>9, <1>11 DEF SlotStates, Optional
  <1>13. /\ co \in Flushes /\ co.op = "write" /\ co.slot = n /\ co.damage = changed
    BY <1>3, <1>5 DEF Flushes, n
  <1> HIDE DEF slot, co
  <1>14. Replaced(slots, slots', n, slot)
    BY <1>1, <1>6, <1>12, OwnWritten DEF n
  <1>15. Counted(slots', cursorSlots, client) /\ LeasesKept(slots', cursorSlots, client)
    <2>1. Counted(slots, cursorSlots, client) /\ LeasesKept(slots, cursorSlots, client)
      BY DEF SlotsInvariant
    <2> QED
      BY <2>1, <1>2, <1>12, <1>14, WrittenFacts
  <1>16. /\ slots' \in Seq(SlotStates) /\ Len(slots') = Len(slots) /\ slots'[n] = slot
         /\ \A i \in 1..Len(slots) : i # n => slots'[i] = slots[i]
    BY <1>2, <1>6, <1>12
  <1>17. slots'[committed] = slots[committed]
    BY <1>2, <1>16
  <1>18. generation \in Baselines(hasFrame, generation)
    BY <1>11 DEF Baselines, Optional
  <1>19. PoolTypes(slots', committed, generation, hasFrame)
    BY <1>2, <1>12, <1>16, <1>17, <1>18 DEF SlotsInvariant, PoolTypes
  <1>20. CommandOwns(slots', committed, generation, hasFrame, scanout, co)
    <2>1. scanout # Nothing
      BY <1>1 DEF SlotsInvariant, CommandOwns
    <2>2. co \in CommandStates
      BY <1>13 DEF CommandStates
    <2> QED
      BY <2>1, <2>2, <1>2, <1>11, <1>12, <1>13, <1>16 DEF CommandOwns
  <1>21. SlotsMatch(slots', committed, generation, history, co)
    <2>1. \A i \in 1..Len(slots) : i # n =>
            Matches(history, generation, slots[i].generation, slots[i].pixels, slots[committed].pixels)
      BY DEF SlotsInvariant, SlotsMatch, n
    <2> QED
      BY <2>1, <1>10, <1>12, <1>13, <1>16, <1>17 DEF SlotsMatch
  <1>22. PictureAdvances
    BY <1>8, <1>17, StillAdvances DEF PictureAdvances
  <1>23. NextInvariant
    BY <1>7, <1>8, <1>15, <1>17, <1>19, <1>20, <1>21 DEF SlotsInvariant, NextInvariant
  <1> QED
    BY <1>22, <1>23

\* flushResource commits what it wrote.
LEMMA FinishFlushFacts ==
  ASSUME SlotsInvariant, command.op \in {"full", "write"},
         NEW damage \in SUBSET Tiles, NEW pixels \in Pictures, FinishFlush(damage, pixels),
         \A t \in Tiles \ damage : pixels[t] = slots[committed].pixels[t],
         damage = {} => hasFrame
  PROVE  NextInvariant /\ PictureAdvances
  <1> DEFINE n == command.slot
             slot == [slots[n] EXCEPT !.pixels = pixels, !.generation = generation']
  <1>1. ~Idle
    BY DEF Idle
  <1>2. slots[n] \in SlotStates /\ slots[n].leases = 0
    BY <1>1, OwnFacts
  <1>3. generation' \in Nat
    <2>1. Published(generation, hasFrame, history)
      BY DEF SlotsInvariant
    <2> QED
      BY <2>1, NothingBaseline DEF FinishFlush, Commit
  <1>4. slot \in SlotStates /\ slot.pixels = pixels /\ slot.leases = 0 /\ slot.generation = generation'
    <2>1. pixels \in [Tiles -> Int]
      BY DEF Pictures
    <2> QED
      BY <2>1, <1>2, <1>3 DEF SlotStates, Optional
  <1>5. slots' = [slots EXCEPT ![n] = slot]
    BY DEF FinishFlush
  <1> HIDE DEF slot
  <1>6. Replaced(slots, slots', command.slot, slot)
    BY <1>1, <1>4, <1>5, OwnWritten
  <1>7. GuestTypes(resource', scanout', committedScanout')
    <2>1. scanout \in Scanouts /\ resource \in [Resources -> ResourceStates]
      BY DEF SlotsInvariant, CommandOwns, GuestTypes, Optional
    <2> DEFINE r == scanout.resource
               new == [resource[r] EXCEPT !.pending = @ \ command.tiles, !.exact = @ \ command.tiles]
    <2>2. r \in Resources /\ resource[r] \in ResourceStates
      BY <2>1 DEF Scanouts
    <2>3. resource' = [resource EXCEPT ![r] = new]
      BY DEF FinishFlush, Shown
    <2>4. new \in ResourceStates
      BY <2>2 DEF ResourceStates
    <2> HIDE DEF new
    <2>5. resource' \in [Resources -> ResourceStates]
      BY <2>1, <2>2, <2>3, <2>4
    <2> QED
      BY <2>1, <2>5 DEF FinishFlush, GuestTypes, Optional
  <1>8. /\ committed' = command.slot /\ command' = NoCommand /\ UNCHANGED <<cursorState, client>>
        /\ Commit(damage)
    BY DEF FinishFlush
  <1> QED
    BY <1>1, <1>4, <1>6, <1>7, <1>8, CommittedFacts

\* The picture that is shown is of the resource.
LEMMA ShownFacts ==
  ASSUME SlotsInvariant, command.op \in {"full", "copy", "write"}
  PROVE  Shown \in ResourceStates /\ Shown.pixels \in Pictures /\ scanout \in Scanouts
         /\ command \in Flushes
  <1>1. scanout \in Scanouts /\ resource \in [Resources -> ResourceStates]
    BY DEF SlotsInvariant, CommandOwns, GuestTypes, Optional
  <1>2. Shown \in ResourceStates
    BY <1>1 DEF Shown, Scanouts
  <1>3. command \in CommandStates
    BY DEF SlotsInvariant, CommandOwns
  <1> QED
    BY <1>1, <1>2, <1>3, CommandFacts DEF ResourceStates

\* An incremental flush commits what it changed.
LEMMA EndIncrementalFlushKeeps ==
  ASSUME SlotsInvariant, EndIncrementalFlush
  PROVE  NextInvariant /\ PictureAdvances
  <1> DEFINE damage == command.damage
             pixels == CopyTiles(damage, Shown.pixels, slots[command.slot].pixels)
  <1>1. command.op = "write" /\ FinishFlush(damage, pixels) /\ ~Idle
    BY DEF EndIncrementalFlush, Idle
  <1>2. damage \in SUBSET Tiles /\ Shown.pixels \in Pictures
    BY <1>1, ShownFacts DEF Flushes
  <1>3. slots[committed].pixels \in Pictures
    BY <1>1, OwnFacts
  <1>4. \A t \in Tiles \ damage : slots[command.slot].pixels[t] = slots[committed].pixels[t]
    BY <1>1 DEF SlotsInvariant, SlotsMatch
  <1>5. hasFrame
    BY <1>1 DEF SlotsInvariant, CommandOwns
  <1>6. pixels \in Pictures /\ \A t \in Tiles \ damage : pixels[t] = slots[committed].pixels[t]
    BY <1>2, <1>3, <1>4 DEF CopyTiles, Pictures
  <1> HIDE DEF pixels, damage
  <1> QED
    BY <1>1, <1>2, <1>5, <1>6, FinishFlushFacts

\* A full flush commits the whole screen.
LEMMA EndFullFlushKeeps ==
  ASSUME SlotsInvariant, EndFullFlush
  PROVE  NextInvariant /\ PictureAdvances
  <1> DEFINE pixels == CopyTiles(command.tiles \cap scanout.tiles, Shown.pixels, Blank)
  <1>1. command.op = "full" /\ FinishFlush(Tiles, pixels)
    BY DEF EndFullFlush
  <1>2. Shown.pixels \in Pictures
    BY <1>1, ShownFacts
  <1>3. pixels \in Pictures
    BY <1>2 DEF CopyTiles, Pictures, Blank, Black
  <1> HIDE DEF pixels
  <1>4. Tiles \in SUBSET Tiles /\ Tiles # {} /\ \A t \in Tiles \ Tiles : pixels[t] = slots[committed].pixels[t]
    BY FrameSlotsAssumption
  <1> QED
    BY <1>1, <1>3, <1>4, FinishFlushFacts

-----------------------------------------------------------------------------
(* Taking and releasing leases.                                            *)

\* Slots q are slots s with other lease counts.
Recounted(s, q) ==
  /\ s \in Seq(SlotStates) /\ q \in Seq(SlotStates) /\ Len(q) = Len(s)
  /\ \A j \in 1..Len(s) : q[j].pixels = s[j].pixels /\ q[j].generation = s[j].generation

Recount(s, i, x) == [s EXCEPT ![i].leases = x]

\* Changing one count.
LEMMA RecountedFacts ==
  ASSUME NEW s \in Seq(SlotStates), NEW i \in 1..Len(s), NEW x \in Nat,
         NEW q, q = Recount(s, i, x)
  PROVE  /\ Recounted(s, q) /\ q[i].leases = x
         /\ \A j \in 1..Len(s) : j # i => q[j] = s[j]
  <1> DEFINE e == [s[i] EXCEPT !.leases = x]
  <1>1. s[i] \in SlotStates
    OBVIOUS
  <1>2. e \in SlotStates /\ e.pixels = s[i].pixels /\ e.generation = s[i].generation /\ e.leases = x
    BY <1>1 DEF SlotStates
  <1>3. q = [s EXCEPT ![i] = e]
    BY DEF Recount
  <1> HIDE DEF e
  <1>4. q \in Seq(SlotStates) /\ Len(q) = Len(s) /\ q[i] = e /\ \A j \in 1..Len(s) : j # i => q[j] = s[j]
    BY <1>2, <1>3
  <1> QED
    BY <1>2, <1>4 DEF Recounted

\* What does not depend on the counts.
LEMMA RecountedKeeps ==
  ASSUME NEW s, NEW q, Recounted(s, q), NEW m \in 1..Len(s), NEW g, NEW hf, NEW h, NEW sc, NEW co
  PROVE  /\ PoolTypes(s, m, g, hf) => PoolTypes(q, m, g, hf)
         /\ SlotsMatch(s, m, g, h, co) /\ (co.op # "idle" => co.slot \in 1..Len(s)) =>
              SlotsMatch(q, m, g, h, co)
         /\ CommandOwns(s, m, g, hf, sc, co) /\ (co.op # "idle" => q[co.slot].leases = 0) =>
              CommandOwns(q, m, g, hf, sc, co)
         /\ q[m].pixels = s[m].pixels
  <1>1. PoolTypes(s, m, g, hf) => PoolTypes(q, m, g, hf)
    BY DEF PoolTypes, Recounted
  <1>2. SlotsMatch(s, m, g, h, co) /\ (co.op # "idle" => co.slot \in 1..Len(s)) => SlotsMatch(q, m, g, h, co)
    BY DEF SlotsMatch, Recounted
  <1>3. CommandOwns(s, m, g, hf, sc, co) /\ (co.op # "idle" => q[co.slot].leases = 0) =>
          CommandOwns(q, m, g, hf, sc, co)
    BY DEF CommandOwns, Recounted
  <1> QED
    BY <1>1, <1>2, <1>3 DEF Recounted

\* The picture under the cursor is a picture.
LEMMA UnderTyped ==
  ASSUME SlotsInvariant
  PROVE  /\ slots[committed].pixels \in Pictures
         /\ Under(cursor, slots[committed].pixels) \in Pictures
         /\ cursor = Nothing => Under(cursor, slots[committed].pixels) = slots[committed].pixels
  <1>1. slots[committed].pixels \in Pictures /\ cursor \in Optional(Cursors)
    BY DEF SlotsInvariant, PoolTypes, CursorTypes
  <1> DEFINE px == slots[committed].pixels
  <1> HIDE DEF px
  <1>2. px \in [Tiles -> Nat]
    BY <1>1 DEF px, Pictures
  <1>3. cursor # Nothing => cursor.image \in Nat
    BY <1>1 DEF Optional, Cursors
  <1>4. ASSUME NEW t \in Tiles
        PROVE  (IF cursor # Nothing /\ cursor.tile = t THEN Blend(cursor.image, px[t]) ELSE px[t]) \in Nat
    BY <1>2, <1>3, <1>4 DEF Blend
  <1>5. Under(cursor, px) \in Pictures
    BY <1>4 DEF Under, Pictures
  <1>6. cursor = Nothing => Under(cursor, px) = px
    BY <1>2 DEF Under
  <1> QED
    BY <1>1, <1>5, <1>6 DEF px

\* prepareCursorFrame composes the picture under the cursor in a surface that
\* nobody leases.
LEMMA ComposedFacts ==
  ASSUME SlotsInvariant, cursor # Nothing
  PROVE  /\ CursorTarget \in SurfaceNames /\ cursorSlots[CursorTarget].leases = 0
         /\ CursorPixels = Under(cursor, slots[committed].pixels)
  <1> DEFINE px == slots[committed].pixels
  <1>1. /\ cursorSlots \in [SurfaceNames -> SurfaceStates] /\ cursorFrame \in Optional(SurfaceNames)
        /\ DOMAIN cursorSlots = SurfaceNames /\ cursor \in Cursors
        /\ cursorGeneration \in Baselines(hasFrame, generation)
        /\ cursorGeneration # Nothing => cursorFrame # Nothing
    BY DEF SlotsInvariant, CursorTypes, Optional
  <1>2. CursorTarget \in SurfaceNames /\ cursorSlots[CursorTarget].leases = 0
    <2>1. CASE CursorReusable
      BY <2>1, <1>1 DEF CursorTarget, CursorReusable, Optional
    <2>2. CASE ~CursorReusable
      <3>1. \E i \in SurfaceNames : i # cursorFrame /\ cursorSlots[i].leases = 0
        BY <2>2, <1>1, SurfaceFacts DEF CursorReusable, SlotsInvariant
      <3> QED
        BY <2>2, <3>1, <1>1 DEF CursorTarget
    <2> QED
      BY <2>1, <2>2
  <1>3. Published(generation, hasFrame, history) /\ generation \in Nat
    BY NothingBaseline DEF SlotsInvariant
  <1>4. \A t \in Tiles : t \in CursorDamage <=> Stale(history, generation, cursorGeneration, t)
    <2>1. CASE cursorGeneration = Nothing
      BY <2>1 DEF CursorDamage, Stale
    <2>2. CASE cursorGeneration # Nothing /\ cursorGeneration = generation
      BY <2>2 DEF CursorDamage, Stale
    <2>3. CASE cursorGeneration # Nothing /\ cursorGeneration # generation
      <3>1. CursorDamage = DamageSince(cursorGeneration)
        BY <2>3 DEF CursorDamage
      <3>2. cursorGeneration \in Optional(0..generation)
        BY <1>1 DEF Baselines
      <3> QED
        BY <3>1, <3>2, <2>3, <1>3, DamageFacts
    <2> QED
      BY <2>1, <2>2, <2>3
  <1>5. \A t \in Tiles : t \notin CursorDamage => CursorBase[t] = Under(cursor, px)[t]
    <2> TAKE t \in Tiles
    <2> SUFFICES ASSUME t \notin CursorDamage PROVE CursorBase[t] = Under(cursor, px)[t]
      OBVIOUS
    <2>1. ~Stale(history, generation, cursorGeneration, t)
      BY <1>4
    <2>2. cursorGeneration # Nothing
      BY <2>1 DEF Stale
    <2>3. CursorBase = cursorSlots[cursorFrame].pixels
      BY <2>2, <1>1 DEF CursorBase
    <2>4. Matches(history, generation, cursorGeneration, cursorSlots[cursorFrame].pixels, Under(cursor, px))
      BY <2>2 DEF SlotsInvariant, SurfaceMatches
    <2> QED
      BY <2>1, <2>3, <2>4 DEF Matches
  <1> HIDE DEF px
  <1>6. CursorPixels = [t \in Tiles |->
           IF t \in CursorTiles(cursor) \cap CursorDamage
           THEN Blend(cursor.image, CopyTiles(CursorDamage, px, CursorBase)[t])
           ELSE CopyTiles(CursorDamage, px, CursorBase)[t]]
    BY DEF CursorPixels, Composite, px
  <1>7. \A t \in Tiles : CopyTiles(CursorDamage, px, CursorBase)[t] =
                           IF t \in CursorDamage THEN px[t] ELSE CursorBase[t]
    BY DEF CopyTiles
  <1>8. \A t \in Tiles : /\ t \in CursorTiles(cursor) <=> cursor.tile = t
                         /\ Under(cursor, px)[t] =
                              IF cursor.tile = t THEN Blend(cursor.image, px[t]) ELSE px[t]
    BY DEF CursorTiles, Under
  <1>9. \A t \in Tiles : CursorPixels[t] = Under(cursor, px)[t]
    BY <1>5, <1>6, <1>7, <1>8
  <1>10. CursorPixels = [t \in Tiles |-> CursorPixels[t]]
    BY <1>6
  <1>11. Under(cursor, px) = [t \in Tiles |-> Under(cursor, px)[t]]
    BY DEF Under
  <1>12. CursorPixels = Under(cursor, px)
    BY <1>9, <1>10, <1>11
  <1> QED
    BY <1>2, <1>12 DEF px

\* Client c has taken a lease of the picture, with at least the damage since its
\* last upload.
TakesLease(c, l) ==
  /\ l \in Leases /\ client[c].lease = Nothing /\ client' = [client EXCEPT ![c].lease = l]
  /\ l.generation = generation /\ hasFrame
  /\ l.taken = Under(cursor, slots[committed].pixels)
  /\ \A t \in Tiles : Stale(history, generation, client[c].generation, t) => t \in l.damage
  /\ client[c].generation = Nothing => l.damage = Tiles
SamePublished ==
  /\ generation' = generation /\ hasFrame' = hasFrame /\ history' = history /\ cursor' = cursor
  /\ committed' = committed /\ slots'[committed].pixels = slots[committed].pixels
  /\ resource' = resource /\ scanout' = scanout /\ committedScanout' = committedScanout
  /\ command' = command

\* frameMetadata's damage covers what is stale in the client's texture.
LEMMA LeasedDamage ==
  ASSUME SlotsInvariant, NEW c \in Clients, NEW p \in {Nothing, client[c].generation}, HasMetadata(p)
  PROVE  /\ DamageSince(p) \in SUBSET Tiles /\ hasFrame
         /\ \A t \in Tiles : Stale(history, generation, client[c].generation, t) => t \in DamageSince(p)
         /\ client[c].generation = Nothing => DamageSince(p) = Tiles
  <1>1. hasFrame /\ p # generation
    BY DEF HasMetadata
  <1>2. Published(generation, hasFrame, history) /\ Nothing \in Baselines(hasFrame, generation)
    BY NothingBaseline DEF SlotsInvariant
  <1>3. client[c].generation \in Baselines(hasFrame, generation)
    BY DEF SlotsInvariant, ClientTypes
  <1>4. p \in Optional(0..generation)
    BY <1>2, <1>3 DEF Baselines
  <1>5. DamageSince(p) \in SUBSET Tiles
        /\ \A t \in Tiles : t \in DamageSince(p) <=> Stale(history, generation, p, t)
    BY <1>1, <1>2, <1>4, DamageFacts
  <1>6. p = Nothing => DamageSince(p) = Tiles
    BY DEF DamageSince
  <1>7. CASE p = Nothing
    BY <1>1, <1>6, <1>7
  <1>8. CASE p # Nothing
    BY <1>1, <1>5, <1>8
  <1> QED
    BY <1>7, <1>8

\* The client's state with the lease.
LEMMA ClientTakes ==
  ASSUME SlotsInvariant, NEW c \in Clients, NEW l, TakesLease(c, l)
  PROVE  /\ ClientTypes(client', hasFrame, generation)
         /\ Taken(client, client', c, l)
         /\ client'[c].texture = client[c].texture /\ client'[c].generation = client[c].generation
  <1> DEFINE k == [client[c] EXCEPT !.lease = l]
  <1>1. client \in [Clients -> ClientStates] /\ client[c] \in ClientStates /\ l \in Leases
    BY DEF SlotsInvariant, ClientTypes, TakesLease
  <1>2. k \in ClientStates /\ k.lease = l /\ k.texture = client[c].texture /\ k.generation = client[c].generation
    BY <1>1 DEF ClientStates, Optional
  <1>3. client' = [client EXCEPT ![c] = k]
    BY DEF TakesLease
  <1> HIDE DEF k
  <1>4. client' \in [Clients -> ClientStates] /\ client'[c] = k /\ \A d \in Clients \ {c} : client'[d] = client[d]
    BY <1>1, <1>2, <1>3
  <1>5. Taken(client, client', c, l)
    BY <1>1, <1>2, <1>4 DEF Taken, TakesLease
  <1>6. generation \in Baselines(hasFrame, generation)
    <2>1. Published(generation, hasFrame, history) /\ hasFrame
      BY DEF SlotsInvariant, TakesLease
    <2>2. generation \in Nat
      BY <2>1, NothingBaseline
    <2> QED
      BY <2>1, <2>2 DEF Baselines, Optional
  <1>7. ASSUME NEW d \in Clients
        PROVE  /\ client'[d].generation \in Baselines(hasFrame, generation)
               /\ client'[d].texture = Nothing <=> client'[d].generation = Nothing
               /\ client'[d].lease # Nothing =>
                    /\ client'[d].lease.generation \in Baselines(hasFrame, generation)
                    /\ client'[d].texture = Nothing => client'[d].lease.damage = Tiles
    <2>1. CASE d = c
      BY <2>1, <1>2, <1>4, <1>6 DEF SlotsInvariant, ClientTypes, TakesLease
    <2>2. CASE d # c
      BY <2>2, <1>4 DEF SlotsInvariant, ClientTypes
    <2> QED
      BY <2>1, <2>2
  <1>8. ClientTypes(client', hasFrame, generation)
    BY <1>4, <1>7 DEF ClientTypes
  <1> QED
    BY <1>2, <1>4, <1>5, <1>8

\* Counts are naturals.
LEMMA CountsTyped ==
  ASSUME SlotsInvariant
  PROVE  /\ slots \in Seq(SlotStates) /\ committed \in 1..Len(slots) /\ Len(slots) \in Nat
         /\ \A i \in 1..Len(slots) : slots[i] \in SlotStates /\ slots[i].leases \in Nat
         /\ cursorSlots \in [SurfaceNames -> SurfaceStates]
         /\ \A i \in SurfaceNames : cursorSlots[i].leases \in Nat /\ cursorSlots[i].pixels \in Pictures
         /\ SurfaceNames \subseteq Nat
  <1>1. slots \in Seq(SlotStates) /\ committed \in 1..Len(slots) /\ cursorSlots \in [SurfaceNames -> SurfaceStates]
    BY DEF SlotsInvariant, PoolTypes, CursorTypes
  <1>2. \A i \in 1..Len(slots) : slots[i] \in SlotStates
    BY <1>1
  <1>3. SurfaceNames \subseteq Nat
    BY FrameSlotsAssumption, FS_CardinalityType DEF SurfaceNames
  <1>4. \A i \in SurfaceNames : cursorSlots[i] \in SurfaceStates
    BY <1>1
  <1> QED
    BY <1>1, <1>2, <1>3, <1>4 DEF SlotStates, SurfaceStates

\* frameLease without a cursor.
LEMMA LeaseSlotKeeps ==
  ASSUME SlotsInvariant, NEW c \in Clients, client[c].lease = Nothing,
         NEW p \in {Nothing, client[c].generation}, HasMetadata(p), LeaseSlot(c, p),
         UNCHANGED <<committed, generation, hasFrame, history, guest, cursor, command>>
  PROVE  NextInvariant /\ SamePublished /\ \E l : TakesLease(c, l)
  <1> DEFINE m == committed
             l == [surface |-> "slot", index |-> committed, generation |-> generation,
                   damage |-> DamageSince(p), taken |-> slots[committed].pixels]
  <1>1. /\ slots \in Seq(SlotStates) /\ m \in 1..Len(slots) /\ Len(slots) \in Nat
        /\ \A i \in 1..Len(slots) : slots[i].leases \in Nat
        /\ \A i \in SurfaceNames : cursorSlots[i].leases \in Nat
    BY CountsTyped
  <1>2. /\ DamageSince(p) \in SUBSET Tiles /\ hasFrame
        /\ \A t \in Tiles : Stale(history, generation, client[c].generation, t) => t \in DamageSince(p)
        /\ client[c].generation = Nothing => DamageSince(p) = Tiles
    BY LeasedDamage
  <1>3. generation \in Nat /\ slots[m].pixels \in Pictures /\ cursor = Nothing
        /\ Under(cursor, slots[m].pixels) = slots[m].pixels
    BY NothingBaseline, UnderTyped DEF SlotsInvariant, LeaseSlot
  <1>4. /\ l \in Leases /\ l.surface = "slot" /\ l.index = m /\ l.generation = generation
        /\ l.damage = DamageSince(p) /\ l.taken = slots[m].pixels
    BY <1>1, <1>2, <1>3 DEF Leases
  <1>5. client' = [client EXCEPT ![c].lease = l] /\ slots' = [slots EXCEPT ![m].leases = slots[m].leases + 1]
        /\ cursorSlots' = cursorSlots /\ cursorFrame' = cursorFrame /\ cursorGeneration' = cursorGeneration
    BY DEF LeaseSlot
  <1> HIDE DEF l
  <1>6. TakesLease(c, l)
    <2>1. client[c].lease = Nothing
      OBVIOUS
    <2>2. l.taken = Under(cursor, slots[committed].pixels)
      BY <1>3, <1>4
    <2>3. \A t \in Tiles : Stale(history, generation, client[c].generation, t) => t \in l.damage
      BY <1>2, <1>4
    <2>4. client[c].generation = Nothing => l.damage = Tiles
      BY <1>2, <1>4
    <2> QED
      BY <1>2, <1>4, <1>5, <2>1, <2>2, <2>3, <2>4, Zenon DEF TakesLease
  <1>7. /\ ClientTypes(client', hasFrame, generation) /\ Taken(client, client', c, l)
    BY <1>6, ClientTakes
  <1> DEFINE x == slots[m].leases + 1
  <1>8. x \in Nat /\ slots' = Recount(slots, m, x) /\ x = slots[m].leases + 1
    BY <1>1, <1>5 DEF Recount
  <1> HIDE DEF x
  <1>9. Recounted(slots, slots') /\ slots'[m].leases = x
        /\ \A j \in 1..Len(slots) : j # m => slots'[j] = slots[j]
    BY <1>1, <1>8, RecountedFacts
  <1>10. OneMore(slots, slots', cursorSlots, cursorSlots, l)
    <2>1. Len(slots') = Len(slots)
      BY <1>9 DEF Recounted
    <2>2. ASSUME NEW i \in 1..Len(slots)
          PROVE  /\ slots[i].leases \in Nat /\ slots'[i].leases \in Nat
                 /\ slots'[i].leases = slots[i].leases + (IF l.surface = "slot" /\ l.index = i THEN 1 ELSE 0)
      <3>1. CASE i = m
        BY <3>1, <1>1, <1>4, <1>8, <1>9
      <3>2. CASE i # m
        BY <3>2, <1>1, <1>4, <1>9
      <3> QED
        BY <3>1, <3>2
    <2>3. \A i \in SurfaceNames : ~(l.surface = "cursor" /\ l.index = i)
      BY <1>4
    <2> QED
      BY <2>1, <2>2, <2>3, <1>1 DEF OneMore
  <1>11. Counted(slots, cursorSlots, client) /\ LeasesKept(slots, cursorSlots, client)
    BY DEF SlotsInvariant
  <1>12. Counted(slots', cursorSlots, client')
    BY <1>7, <1>10, <1>11, CountedTake
  <1>13. LeasesKept(slots', cursorSlots, client')
    <2> SUFFICES ASSUME NEW d \in Clients, client'[d].lease # Nothing
                 PROVE  Kept(slots', cursorSlots, client'[d].lease)
      BY DEF LeasesKept
    <2>1. CASE d = c
      BY <2>1, <1>1, <1>4, <1>7, <1>9 DEF Kept, Taken, Recounted
    <2>2. CASE d # c
      <3>1. client'[d] = client[d]
        BY <2>2, <1>7 DEF Taken
      <3>2. Kept(slots, cursorSlots, client[d].lease)
        BY <3>1, <1>11 DEF LeasesKept
      <3> QED
        BY <3>1, <3>2, <1>9 DEF Kept, Recounted
    <2> QED
      BY <2>1, <2>2
  <1>14. command.op # "idle" => command.slot \in 1..Len(slots) /\ command.slot # m
                                /\ slots[command.slot].leases = 0
    BY DEF SlotsInvariant, CommandOwns
  <1>15. /\ PoolTypes(slots', m, generation, hasFrame)
         /\ SlotsMatch(slots', m, generation, history, command)
         /\ CommandOwns(slots', m, generation, hasFrame, scanout, command)
         /\ slots'[m].pixels = slots[m].pixels
    BY <1>1, <1>9, <1>14, RecountedKeeps DEF SlotsInvariant
  <1>16. SamePublished
    BY <1>15 DEF SamePublished, guest
  <1>17. NextInvariant
    BY <1>5, <1>7, <1>12, <1>13, <1>15, <1>16 DEF SlotsInvariant, NextInvariant, SamePublished
  <1> QED
    BY <1>6, <1>16, <1>17

\* frameLease with a cursor: the surface is the picture under the cursor.
LEMMA LeaseCursorKeeps ==
  ASSUME SlotsInvariant, NEW c \in Clients, client[c].lease = Nothing,
         NEW p \in {Nothing, client[c].generation}, HasMetadata(p), LeaseCursor(c, p),
         UNCHANGED <<committed, generation, hasFrame, history, guest, cursor, command>>
  PROVE  NextInvariant /\ SamePublished /\ \E l : TakesLease(c, l)
  <1> DEFINE i == CursorTarget
             px == CursorPixels
             l == [surface |-> "cursor", index |-> i, generation |-> generation,
                   damage |-> DamageSince(p), taken |-> px]
             surface == [pixels |-> px, leases |-> 1]
             su == [cursorSlots EXCEPT ![i] = surface]
  <1>1. /\ slots \in Seq(SlotStates) /\ committed \in 1..Len(slots)
        /\ \A j \in 1..Len(slots) : slots[j].leases \in Nat
        /\ cursorSlots \in [SurfaceNames -> SurfaceStates]
        /\ \A j \in SurfaceNames : cursorSlots[j].leases \in Nat
        /\ SurfaceNames \subseteq Nat
    BY CountsTyped
  <1>2. /\ DamageSince(p) \in SUBSET Tiles /\ hasFrame
        /\ \A t \in Tiles : Stale(history, generation, client[c].generation, t) => t \in DamageSince(p)
        /\ client[c].generation = Nothing => DamageSince(p) = Tiles
    BY LeasedDamage
  <1>3. /\ i \in SurfaceNames /\ cursorSlots[i].leases = 0
        /\ px = Under(cursor, slots[committed].pixels) /\ px \in Pictures
    BY ComposedFacts, UnderTyped DEF LeaseCursor
  <1>4. generation \in Nat /\ generation \in Baselines(hasFrame, generation)
    <2>1. Published(generation, hasFrame, history)
      BY DEF SlotsInvariant
    <2>2. generation \in Nat
      BY <2>1, NothingBaseline
    <2> QED
      BY <2>2, <1>2 DEF Baselines, Optional
  <1>5. /\ client' = [client EXCEPT ![c].lease = l] /\ cursorSlots' = Unreferenced(su, i)
        /\ cursorFrame' = i /\ cursorGeneration' = generation /\ slots' = slots
    BY DEF LeaseCursor
  <1> HIDE DEF i, px
  <1>6. /\ l \in Leases /\ l.surface = "cursor" /\ l.index = i /\ l.generation = generation
        /\ l.damage = DamageSince(p) /\ l.taken = px
    BY <1>1, <1>2, <1>3, <1>4 DEF Leases
  <1>7. surface \in SurfaceStates /\ surface.pixels = px /\ surface.leases = 1
    BY <1>3 DEF SurfaceStates
  <1> HIDE DEF l, surface
  <1>8. /\ su \in [SurfaceNames -> SurfaceStates] /\ su[i] = surface
        /\ \A j \in SurfaceNames : j # i => su[j] = cursorSlots[j]
    BY <1>1, <1>3, <1>7
  <1> HIDE DEF su
  <1>9. TakesLease(c, l)
    <2>1. client[c].lease = Nothing
      OBVIOUS
    <2>2. l.taken = Under(cursor, slots[committed].pixels)
      BY <1>3, <1>6
    <2>3. \A t \in Tiles : Stale(history, generation, client[c].generation, t) => t \in l.damage
      BY <1>2, <1>6
    <2>4. client[c].generation = Nothing => l.damage = Tiles
      BY <1>2, <1>6
    <2> QED
      BY <1>2, <1>5, <1>6, <2>1, <2>2, <2>3, <2>4, Zenon DEF TakesLease
  <1>10. /\ ClientTypes(client', hasFrame, generation) /\ Taken(client, client', c, l)
    BY <1>9, ClientTakes
  <1>11. Counted(slots, cursorSlots, client) /\ LeasesKept(slots, cursorSlots, client)
    BY DEF SlotsInvariant
  <1>12. OneMore(slots, slots, cursorSlots, su, l)
    <2>1. ASSUME NEW j \in SurfaceNames
          PROVE  /\ cursorSlots[j].leases \in Nat /\ su[j].leases \in Nat
                 /\ su[j].leases = cursorSlots[j].leases + (IF l.surface = "cursor" /\ l.index = j THEN 1 ELSE 0)
      <3>1. CASE j = i
        BY <3>1, <1>1, <1>3, <1>6, <1>7, <1>8
      <3>2. CASE j # i
        BY <3>2, <1>1, <1>6, <1>8
      <3> QED
        BY <3>1, <3>2
    <2>2. \A j \in 1..Len(slots) : ~(l.surface = "slot" /\ l.index = j)
      BY <1>6
    <2> QED
      BY <2>1, <2>2, <1>1 DEF OneMore
  <1>13. Counted(slots, su, client')
    BY <1>10, <1>11, <1>12, CountedTake
  <1>14. LeasesKept(slots, su, client')
    <2> SUFFICES ASSUME NEW d \in Clients, client'[d].lease # Nothing
                 PROVE  Kept(slots, su, client'[d].lease)
      BY DEF LeasesKept
    <2>1. CASE d = c
      BY <2>1, <1>3, <1>6, <1>7, <1>8, <1>10 DEF Kept, Taken
    <2>2. CASE d # c
      <3> DEFINE o == client[d].lease
      <3>1. client'[d] = client[d]
        BY <2>2, <1>10 DEF Taken
      <3>2. Kept(slots, cursorSlots, o)
        BY <3>1, <1>11 DEF LeasesKept
      <3>3. o.surface = "cursor" => o.index \in SurfaceNames /\ cursorSlots[o.index].leases # 0
        BY <3>1, <3>2, <1>11, UnleasedFacts DEF Kept
      <3> HIDE DEF o
      <3>4. o.surface = "cursor" => su[o.index] = cursorSlots[o.index]
        BY <3>3, <1>3, <1>8
      <3>5. Kept(slots, su, o)
        BY <3>2, <3>4 DEF Kept
      <3> QED
        BY <3>1, <3>5 DEF o
    <2> QED
      BY <2>1, <2>2
  <1>15. /\ cursorSlots' \in [SurfaceNames -> SurfaceStates] /\ cursorSlots'[i] = su[i]
         /\ Counted(slots, cursorSlots', client') /\ LeasesKept(slots, cursorSlots', client')
    <2> DEFINE cl == client'
    <2>1. Counted(slots, su, cl) /\ LeasesKept(slots, su, cl)
      BY <1>13, <1>14
    <2> HIDE DEF cl
    <2>2. /\ Unreferenced(su, i) \in [SurfaceNames -> SurfaceStates] /\ Unreferenced(su, i)[i] = su[i]
          /\ Counted(slots, Unreferenced(su, i), cl) /\ LeasesKept(slots, Unreferenced(su, i), cl)
      BY <2>1, <1>3, <1>8, UnreferencedFacts
    <2> QED
      BY <2>2, <1>5 DEF cl
  <1>16. SamePublished
    BY <1>5 DEF SamePublished, guest
  <1>17. CursorTypes(cursor, cursorSlots', i, generation, hasFrame, generation)
    BY <1>1, <1>3, <1>4, <1>15, NothingAssumption DEF SlotsInvariant, CursorTypes, Optional
  <1>18. SurfaceMatches(history, generation, cursor, cursorSlots', i, generation, slots[committed].pixels)
    BY <1>3, <1>7, <1>8, <1>15 DEF SurfaceMatches, Matches
  <1>19. NextInvariant
    BY <1>5, <1>10, <1>15, <1>16, <1>17, <1>18 DEF SlotsInvariant, NextInvariant, SamePublished
  <1> QED
    BY <1>9, <1>16, <1>19

\* frameLease(afterGeneration:).
LEMMA AcquireKeeps ==
  ASSUME SlotsInvariant, NEW c \in Clients, Acquire(c)
  PROVE  NextInvariant /\ SamePublished /\ \E l : TakesLease(c, l)
  <1>1. client[c].lease = Nothing
        /\ UNCHANGED <<committed, generation, hasFrame, history, guest, cursor, command>>
    BY DEF Acquire
  <1>2. PICK p \in {Nothing, client[c].generation} :
          HasMetadata(p) /\ (LeaseSlot(c, p) \/ LeaseCursor(c, p))
    BY DEF Acquire
  <1>3. CASE LeaseSlot(c, p)
    BY <1>1, <1>2, <1>3, LeaseSlotKeeps
  <1>4. CASE LeaseCursor(c, p)
    BY <1>1, <1>2, <1>4, LeaseCursorKeeps
  <1> QED
    BY <1>2, <1>3, <1>4

\* Client c gives lease l back and is in state k.
Releases(c, l, k) ==
  /\ client[c].lease = l /\ l # Nothing
  /\ k \in ClientStates /\ k.lease = Nothing
  /\ k.generation \in Baselines(hasFrame, generation)
  /\ k.texture = Nothing <=> k.generation = Nothing
  /\ client' = [client EXCEPT ![c] = k]

\* The clients without the lease.
LEMMA ClientReleases ==
  ASSUME SlotsInvariant, NEW c \in Clients, NEW l, NEW k, Releases(c, l, k)
  PROVE  /\ ClientTypes(client', hasFrame, generation)
         /\ Taken(client', client, c, l)
         /\ \A s, su : LeasesKept(s, su, client) => LeasesKept(s, su, client')
         /\ Kept(slots, cursorSlots, l) /\ l \in Leases
         /\ l.surface = "slot" => l.index \in 1..Len(slots) /\ slots[l.index].leases # 0
         /\ l.surface = "cursor" => l.index \in SurfaceNames /\ cursorSlots[l.index].leases # 0
  <1>1. client \in [Clients -> ClientStates] /\ client[c] \in ClientStates
    BY DEF SlotsInvariant, ClientTypes
  <1>2. l \in Leases
    BY <1>1 DEF Releases, ClientStates, Optional
  <1>3. client' \in [Clients -> ClientStates] /\ client'[c] = k
        /\ \A d \in Clients \ {c} : client'[d] = client[d]
    BY <1>1 DEF Releases
  <1>4. Taken(client', client, c, l)
    BY <1>1, <1>2, <1>3 DEF Taken, Releases
  <1>5. ASSUME NEW d \in Clients
        PROVE  /\ client'[d].generation \in Baselines(hasFrame, generation)
               /\ client'[d].texture = Nothing <=> client'[d].generation = Nothing
               /\ client'[d].lease # Nothing =>
                    /\ client'[d].lease.generation \in Baselines(hasFrame, generation)
                    /\ client'[d].texture = Nothing => client'[d].lease.damage = Tiles
    <2>1. CASE d = c
      BY <2>1, <1>3 DEF Releases
    <2>2. CASE d # c
      BY <2>2, <1>3 DEF SlotsInvariant, ClientTypes
    <2> QED
      BY <2>1, <2>2
  <1>6. ClientTypes(client', hasFrame, generation)
    BY <1>3, <1>5 DEF ClientTypes
  <1>7. ASSUME NEW s, NEW su, LeasesKept(s, su, client) PROVE LeasesKept(s, su, client')
    <2> SUFFICES ASSUME NEW d \in Clients, client'[d].lease # Nothing PROVE Kept(s, su, client'[d].lease)
      BY DEF LeasesKept
    <2>1. d # c /\ client'[d] = client[d]
      BY <1>3 DEF Releases
    <2> QED
      BY <2>1, <1>7 DEF LeasesKept
  <1>8. Counted(slots, cursorSlots, client) /\ Kept(slots, cursorSlots, l) /\ client[c].lease = l /\ l # Nothing
    BY DEF SlotsInvariant, LeasesKept, Releases
  <1>9. /\ l.surface = "slot" => l.index \in 1..Len(slots)
        /\ l.surface = "cursor" => l.index \in SurfaceNames
    BY <1>8 DEF Kept
  <1>10. /\ l.surface = "slot" => slots[l.index].leases # 0
         /\ l.surface = "cursor" => cursorSlots[l.index].leases # 0
    BY <1>8, <1>9, UnleasedFacts
  <1> QED
    BY <1>2, <1>4, <1>6, <1>7, <1>8, <1>9, <1>10

\* The lease's deinit, of a slot.
LEMMA ReleaseSlotKeeps ==
  ASSUME SlotsInvariant, NEW c \in Clients, NEW l, NEW k, Releases(c, l, k),
         l.surface = "slot", ReleaseSurface(l),
         UNCHANGED <<committed, generation, hasFrame, history, guest,
                     cursor, cursorFrame, cursorGeneration, command>>
  PROVE  NextInvariant /\ SamePublished
  <1> DEFINE i == l.index
             x == slots[i].leases - 1
  <1>1. /\ ClientTypes(client', hasFrame, generation)
        /\ Taken(client', client, c, l)
        /\ LeasesKept(slots, cursorSlots, client')
        /\ l \in Leases /\ i \in 1..Len(slots) /\ slots[i].leases # 0
    BY ClientReleases DEF SlotsInvariant
  <1>2. /\ slots \in Seq(SlotStates) /\ committed \in 1..Len(slots) /\ Len(slots) \in Nat
        /\ \A j \in 1..Len(slots) : slots[j].leases \in Nat
        /\ \A j \in SurfaceNames : cursorSlots[j].leases \in Nat
    BY CountsTyped
  <1>3. slots' = Recount(slots, i, x) /\ cursorSlots' = cursorSlots
    BY DEF ReleaseSurface, Recount
  <1>4. x \in Nat /\ slots[i].leases = x + 1
    BY <1>1, <1>2
  <1> HIDE DEF x
  <1>5. Recounted(slots, slots') /\ slots'[i].leases = x
        /\ \A j \in 1..Len(slots) : j # i => slots'[j] = slots[j]
    BY <1>1, <1>2, <1>3, <1>4, RecountedFacts
  <1>6. OneMore(slots', slots, cursorSlots, cursorSlots, l)
    <2>1. Len(slots') = Len(slots)
      BY <1>5 DEF Recounted
    <2>2. ASSUME NEW j \in 1..Len(slots)
          PROVE  /\ slots'[j].leases \in Nat /\ slots[j].leases \in Nat
                 /\ slots[j].leases = slots'[j].leases + (IF l.surface = "slot" /\ l.index = j THEN 1 ELSE 0)
      <3>1. CASE j = i
        BY <3>1, <1>2, <1>4, <1>5
      <3>2. CASE j # i
        BY <3>2, <1>2, <1>5
      <3> QED
        BY <3>1, <3>2
    <2>3. \A j \in SurfaceNames : ~(l.surface = "cursor" /\ l.index = j)
      OBVIOUS
    <2> QED
      BY <2>1, <2>2, <2>3, <1>2 DEF OneMore
  <1>7. Counted(slots', cursorSlots, client')
    <2>1. Counted(slots, cursorSlots, client)
      BY DEF SlotsInvariant
    <2> QED
      BY <2>1, <1>1, <1>6, CountedTake
  <1>8. LeasesKept(slots', cursorSlots, client')
    <2> DEFINE q == slots'
               cl == client'
    <2>1. Recounted(slots, q) /\ LeasesKept(slots, cursorSlots, cl)
      BY <1>1, <1>5
    <2> HIDE DEF q, cl
    <2>2. LeasesKept(q, cursorSlots, cl)
      BY <2>1 DEF LeasesKept, Kept, Recounted
    <2> QED
      BY <2>2 DEF q, cl
  <1>9. command.op # "idle" => command.slot \in 1..Len(slots) /\ slots'[command.slot].leases = 0
    <2>1. command.op # "idle" => command.slot \in 1..Len(slots) /\ slots[command.slot].leases = 0
      BY DEF SlotsInvariant, CommandOwns
    <2> QED
      BY <2>1, <1>1, <1>5
  <1>10. /\ PoolTypes(slots', committed, generation, hasFrame)
         /\ SlotsMatch(slots', committed, generation, history, command)
         /\ CommandOwns(slots', committed, generation, hasFrame, scanout, command)
         /\ slots'[committed].pixels = slots[committed].pixels
    BY <1>2, <1>5, <1>9, RecountedKeeps DEF SlotsInvariant
  <1>11. SamePublished
    BY <1>10 DEF SamePublished, guest
  <1>12. NextInvariant
    BY <1>1, <1>3, <1>7, <1>8, <1>10, <1>11 DEF SlotsInvariant, NextInvariant, SamePublished
  <1> QED
    BY <1>11, <1>12

\* The lease's deinit, of a cursor surface.
LEMMA ReleaseCursorKeeps ==
  ASSUME SlotsInvariant, NEW c \in Clients, NEW l, NEW k, Releases(c, l, k),
         l.surface # "slot", ReleaseSurface(l),
         UNCHANGED <<committed, generation, hasFrame, history, guest,
                     cursor, cursorFrame, cursorGeneration, command>>
  PROVE  NextInvariant /\ SamePublished
  <1> DEFINE i == l.index
             x == cursorSlots[i].leases - 1
             surface == [cursorSlots[i] EXCEPT !.leases = x]
             su == [cursorSlots EXCEPT ![i] = surface]
  <1>1. l \in Leases
    BY ClientReleases
  <1>2. l.surface = "cursor"
    BY <1>1 DEF Leases
  <1>3. /\ ClientTypes(client', hasFrame, generation)
        /\ Taken(client', client, c, l)
        /\ LeasesKept(slots, cursorSlots, client')
        /\ i \in SurfaceNames /\ cursorSlots[i].leases # 0
    BY <1>2, ClientReleases DEF SlotsInvariant
  <1>4. /\ \A j \in 1..Len(slots) : slots[j].leases \in Nat
        /\ cursorSlots \in [SurfaceNames -> SurfaceStates] /\ cursorSlots[i] \in SurfaceStates
        /\ \A j \in SurfaceNames : cursorSlots[j].leases \in Nat
    BY <1>3, CountsTyped
  <1>5. x \in Nat /\ cursorSlots[i].leases = x + 1
    BY <1>3, <1>4
  <1>6. slots' = slots /\ cursorSlots' = Unreferenced(su, cursorFrame)
    BY DEF ReleaseSurface
  <1> HIDE DEF x
  <1>7. surface \in SurfaceStates /\ surface.pixels = cursorSlots[i].pixels /\ surface.leases = x
    BY <1>4, <1>5 DEF SurfaceStates
  <1> HIDE DEF surface
  <1>8. /\ su \in [SurfaceNames -> SurfaceStates]
        /\ \A j \in SurfaceNames : su[j].pixels = cursorSlots[j].pixels
        /\ su[i].leases = x
        /\ \A j \in SurfaceNames : j # i => su[j] = cursorSlots[j]
    BY <1>3, <1>4, <1>7
  <1> HIDE DEF su
  <1>9. OneMore(slots, slots, su, cursorSlots, l)
    <2>1. ASSUME NEW j \in SurfaceNames
          PROVE  /\ su[j].leases \in Nat /\ cursorSlots[j].leases \in Nat
                 /\ cursorSlots[j].leases = su[j].leases + (IF l.surface = "cursor" /\ l.index = j THEN 1 ELSE 0)
      <3>1. CASE j = i
        BY <3>1, <1>2, <1>4, <1>5, <1>8
      <3>2. CASE j # i
        BY <3>2, <1>4, <1>8
      <3> QED
        BY <3>1, <3>2
    <2>2. \A j \in 1..Len(slots) : ~(l.surface = "slot" /\ l.index = j)
      OBVIOUS
    <2> QED
      BY <2>1, <2>2, <1>4 DEF OneMore
  <1>10. Counted(slots, su, client')
    <2>1. Counted(slots, cursorSlots, client)
      BY DEF SlotsInvariant
    <2> QED
      BY <2>1, <1>3, <1>9, CountedTake
  <1>11. LeasesKept(slots, su, client')
    BY <1>3, <1>8 DEF LeasesKept, Kept
  <1>12. /\ cursorSlots' \in [SurfaceNames -> SurfaceStates]
         /\ cursorFrame \in SurfaceNames => cursorSlots'[cursorFrame].pixels = cursorSlots[cursorFrame].pixels
         /\ Counted(slots, cursorSlots', client') /\ LeasesKept(slots, cursorSlots', client')
    <2> DEFINE cl == client'
               v == Unreferenced(su, cursorFrame)
    <2>1. Counted(slots, su, cl) /\ LeasesKept(slots, su, cl)
      BY <1>10, <1>11
    <2> HIDE DEF cl
    <2>2. /\ v \in [SurfaceNames -> SurfaceStates]
          /\ cursorFrame \in SurfaceNames => v[cursorFrame] = su[cursorFrame]
          /\ Counted(slots, v, cl) /\ LeasesKept(slots, v, cl)
      BY <2>1, <1>8, UnreferencedFacts
    <2> HIDE DEF v
    <2> QED
      BY <2>2, <1>6, <1>8 DEF cl, v
  <1>13. SamePublished
    BY <1>6 DEF SamePublished, guest
  <1>14. CursorTypes(cursor, cursorSlots', cursorFrame, cursorGeneration, hasFrame, generation)
    BY <1>12 DEF SlotsInvariant, CursorTypes
  <1>15. SurfaceMatches(history, generation, cursor, cursorSlots', cursorFrame, cursorGeneration, slots[committed].pixels)
    <2>1. cursorGeneration # Nothing => cursorFrame \in SurfaceNames
      BY DEF SlotsInvariant, CursorTypes, Optional
    <2>2. SurfaceMatches(history, generation, cursor, cursorSlots, cursorFrame, cursorGeneration, slots[committed].pixels)
      BY DEF SlotsInvariant
    <2> QED
      BY <2>1, <2>2, <1>12 DEF SurfaceMatches
  <1>16. NextInvariant
    BY <1>3, <1>6, <1>12, <1>13, <1>14, <1>15 DEF SlotsInvariant, NextInvariant, SamePublished
  <1> QED
    BY <1>13, <1>16

\* What the client's texture becomes when it uploads its lease.
Uploaded(k) ==
  [lease |-> Nothing, generation |-> k.lease.generation,
   texture |-> CopyTiles(k.lease.damage, k.lease.taken, IF k.texture = Nothing THEN Blank ELSE k.texture)]

\* What a lease shows is what was leased.
LEMMA LeasedTaken ==
  ASSUME NEW l, Kept(slots, cursorSlots, l), l \in Leases
  PROVE  Leased(l) = l.taken
  BY DEF Kept, Leased, Leases

\* The consumer copies the damage and releases the lease.
LEMMA UploadKeeps ==
  ASSUME SlotsInvariant, NEW c \in Clients, Upload(c)
  PROVE  /\ NextInvariant /\ SamePublished
         /\ client[c].lease # Nothing /\ client' = [client EXCEPT ![c] = Uploaded(client[c])]
  <1> DEFINE l == client[c].lease
             old == IF client[c].texture = Nothing THEN Blank ELSE client[c].texture
             tx == CopyTiles(l.damage, l.taken, old)
             k == [lease |-> Nothing, generation |-> l.generation, texture |-> tx]
  <1>1. /\ l # Nothing /\ ReleaseSurface(l)
        /\ client' = [client EXCEPT ![c] = [lease |-> Nothing, generation |-> l.generation,
                                            texture |-> CopyTiles(l.damage, Leased(l), old)]]
        /\ UNCHANGED <<committed, generation, hasFrame, history, guest,
                       cursor, cursorFrame, cursorGeneration, command>>
    BY DEF Upload
  <1>2. client[c] \in ClientStates /\ Kept(slots, cursorSlots, l)
        /\ l.generation \in Baselines(hasFrame, generation)
    BY <1>1 DEF SlotsInvariant, ClientTypes, LeasesKept
  <1>3. l \in Leases /\ l.generation \in Nat /\ l.taken \in Pictures /\ l.damage \in SUBSET Tiles
    <2>1. l \in Leases
      BY <1>1, <1>2 DEF ClientStates, Optional
    <2> HIDE DEF l
    <2> QED
      BY <2>1 DEF Leases
  <1>4. Leased(l) = l.taken
    <2> HIDE DEF l
    <2> QED
      BY <1>2, <1>3, LeasedTaken
  <1>5. old \in Pictures
    BY <1>2 DEF ClientStates, Optional, Blank, Black, Pictures
  <1> HIDE DEF old
  <1>6. tx \in Pictures
    BY <1>3, <1>5 DEF CopyTiles, Pictures
  <1>7. client' = [client EXCEPT ![c] = k] /\ k = Uploaded(client[c])
    BY <1>1, <1>4 DEF Uploaded, old
  <1> HIDE DEF tx
  <1>8. /\ k \in ClientStates /\ k.lease = Nothing /\ k.generation = l.generation
        /\ k.generation # Nothing /\ k.texture # Nothing
    <2> HIDE DEF l
    <2> QED
      BY <1>3, <1>6, NothingAssumption DEF ClientStates, Optional
  <1> HIDE DEF k
  <1>9. Releases(c, l, k)
    BY <1>1, <1>2, <1>7, <1>8 DEF Releases
  <1>10. NextInvariant /\ SamePublished
    <2> HIDE DEF l
    <2>1. CASE l.surface = "slot"
      BY <2>1, <1>1, <1>9, ReleaseSlotKeeps
    <2>2. CASE l.surface # "slot"
      BY <2>2, <1>1, <1>9, ReleaseCursorKeeps
    <2> QED
      BY <2>1, <2>2
  <1> QED
    BY <1>1, <1>7, <1>10

\* The client's state after a failed upload.
Abandoned == [lease |-> Nothing, generation |-> Nothing, texture |-> Nothing]

\* The upload failed.
LEMMA AbandonKeeps ==
  ASSUME SlotsInvariant, NEW c \in Clients, Abandon(c)
  PROVE  /\ NextInvariant /\ SamePublished
         /\ client[c].lease # Nothing /\ client' = [client EXCEPT ![c] = Abandoned]
  <1> DEFINE l == client[c].lease
  <1>1. /\ l # Nothing /\ ReleaseSurface(l) /\ client' = [client EXCEPT ![c] = Abandoned]
        /\ UNCHANGED <<committed, generation, hasFrame, history, guest,
                       cursor, cursorFrame, cursorGeneration, command>>
    BY DEF Abandon, Abandoned
  <1>2. Published(generation, hasFrame, history)
    BY DEF SlotsInvariant
  <1>3. /\ Abandoned \in ClientStates /\ Abandoned.lease = Nothing
        /\ Abandoned.generation \in Baselines(hasFrame, generation)
        /\ Abandoned.texture = Nothing /\ Abandoned.generation = Nothing
    <2>1. Nothing \in Baselines(hasFrame, generation)
      BY <1>2, NothingBaseline
    <2> QED
      BY <2>1 DEF Abandoned, ClientStates, Optional
  <1> DEFINE k == Abandoned
  <1> HIDE DEF k
  <1>4. Releases(c, l, k)
    BY <1>1, <1>3 DEF Releases, k
  <1>5. NextInvariant /\ SamePublished
    <2> HIDE DEF l
    <2>1. CASE l.surface = "slot"
      BY <2>1, <1>1, <1>4, ReleaseSlotKeeps
    <2>2. CASE l.surface # "slot"
      BY <2>2, <1>1, <1>4, ReleaseCursorKeeps
    <2> QED
      BY <2>1, <2>2
  <1> QED
    BY <1>1, <1>5

-----------------------------------------------------------------------------
(* The invariant.                                                          *)

\* The guest's steps change the picture as the records say, but for a transfer
\* into the cursor's resource that changes the cursor's image.
LEMMA GuestKeeps ==
  ASSUME SlotsInvariant, GuestCommand \/ EndPixelWork
  PROVE  /\ NextInvariant
         /\ (\A image \in Images : TransferCursor(image) => cursor' = cursor) => PictureAdvances
  <1>1. CASE GuestCommand
    <2>1. CASE \E r \in Resources, tiles \in Rectangles, color \in Colors, exact \in ExactTransfers :
                 Transfer(r, tiles, color, exact)
      BY <2>1, TransferKeeps
    <2>2. CASE \E r \in Resources, tiles \in Screens : SetScanout(r, tiles)
      BY <2>2, SetScanoutKeeps
    <2>3. CASE \E r \in Resources : UnrefResource(r)
      BY <2>3, UnrefResourceKeeps
    <2>4. CASE \E tiles \in Rectangles : BeginFlush(tiles)
      BY <2>4, BeginFlushKeeps
    <2>5. CASE \E tile \in Tiles, image \in Images : UpdateCursor(tile, image)
      BY <2>5, UpdateCursorKeeps
    <2>6. CASE \E tile \in Tiles : MoveCursor(tile)
      BY <2>6, MoveCursorKeeps
    <2>7. CASE \E image \in Images : TransferCursor(image)
      BY <2>7, TransferCursorKeeps
    <2>8. CASE BeginDisable
      BY <2>8, BeginDisableKeeps
    <2>9. CASE BeginReset
      BY <2>9, BeginResetKeeps
    <2>10. CASE RemoveCursor
      BY <2>10, RemoveCursorKeeps
    <2> QED
      BY <1>1, <2>1, <2>2, <2>3, <2>4, <2>5, <2>6, <2>7, <2>8, <2>9, <2>10, Zenon DEF GuestCommand
  <1>2. CASE EndPixelWork
    <2>1. CASE EndDisable
      BY <2>1, EndDisableKeeps
    <2>2. CASE EndReset
      BY <2>2, EndResetKeeps
    <2>3. CASE EndCopy
      BY <2>3, EndCopyKeeps
    <2>4. CASE EndIncrementalFlush
      BY <2>4, EndIncrementalFlushKeeps
    <2>5. CASE EndFullFlush
      BY <2>5, EndFullFlushKeeps
    <2> QED
      BY <1>2, <2>1, <2>2, <2>3, <2>4, <2>5, Zenon DEF EndPixelWork
  <1> QED
    BY <1>1, <1>2

\* A step that changes nothing.
LEMMA StutterKeeps ==
  ASSUME SlotsInvariant, UNCHANGED vars
  PROVE  SlotsInvariant'
  <1>1. /\ resource' = resource /\ scanout' = scanout /\ committedScanout' = committedScanout
        /\ generation' = generation /\ hasFrame' = hasFrame /\ history' = history
        /\ slots' = slots /\ committed' = committed
        /\ cursor' = cursor /\ cursorSlots' = cursorSlots /\ cursorFrame' = cursorFrame
        /\ cursorGeneration' = cursorGeneration /\ client' = client /\ command' = command
    BY DEF vars, source, guest, cursorState
  <1> QED
    BY <1>1 DEF SlotsInvariant

\* Every step keeps the invariant.
LEMMA StepKeeps ==
  ASSUME SlotsInvariant, [Next]_vars
  PROVE  SlotsInvariant'
  <1>1. CASE GuestCommand \/ EndPixelWork
    BY <1>1, GuestKeeps, NextIsPrime
  <1>2. CASE Consume
    <2>1. PICK c \in Clients : Acquire(c) \/ Upload(c) \/ Abandon(c)
      BY <1>2 DEF Consume
    <2>2. CASE Acquire(c)
      BY <2>2, AcquireKeeps, NextIsPrime
    <2>3. CASE Upload(c)
      BY <2>3, UploadKeeps, NextIsPrime
    <2>4. CASE Abandon(c)
      BY <2>4, AbandonKeeps, NextIsPrime
    <2> QED
      BY <2>1, <2>2, <2>3, <2>4
  <1>3. CASE UNCHANGED vars
    BY <1>3, StutterKeeps
  <1> QED
    BY <1>1, <1>2, <1>3, Zenon DEF Next

\* The device as it is created.
LEMMA InitEstablishes ==
  ASSUME Init
  PROVE  SlotsInvariant
  <1>1. Cardinality(Clients) \in Nat
    BY FrameSlotsAssumption, FS_CardinalityType
  <1>2. NewSlot \in SlotStates /\ NewSlot.pixels = Blank /\ NewSlot.generation = Nothing /\ NewSlot.leases = 0
    BY DEF NewSlot, SlotStates, Optional, Blank, Black
  <1>3. /\ slots \in Seq(SlotStates) /\ Len(slots) = 1 /\ slots[1] = NewSlot /\ committed = 1
    BY <1>2 DEF Init
  <1>4. generation = 0 /\ hasFrame = FALSE /\ history = <<>> /\ cursor = Nothing /\ cursorFrame = Nothing
        /\ cursorGeneration = Nothing /\ command = NoCommand /\ scanout = Nothing /\ committedScanout = Nothing
    BY DEF Init
  <1>5. GuestTypes(resource, scanout, committedScanout)
    BY <1>4, NewResourceTyped DEF Init, GuestTypes, Optional
  <1>6. Published(generation, hasFrame, history)
    <2>1. MaxGeneration \in Nat /\ MaximumDamageHistory \in Nat
      BY FrameSlotsAssumption
    <2>2. <<>> \in Seq(Records) /\ Len(<<>>) = 0
      OBVIOUS
    <2>3. Recorded(<<>>, 0) /\ 0 \in Generations
      BY <2>1, <2>2 DEF Recorded, Generations
    <2> QED
      BY <2>3, <1>4, Zenon DEF Published
  <1>7. Nothing \in Baselines(hasFrame, generation)
    BY <1>6, NothingBaseline
  <1>8. Blank \in Pictures
    BY DEF Blank, Black, Pictures
  <1>9. PoolTypes(slots, committed, generation, hasFrame)
    BY <1>1, <1>2, <1>3, <1>7, <1>8 DEF PoolTypes
  <1>10. NoSurface \in SurfaceStates /\ NoSurface.leases = 0
    BY <1>8 DEF NoSurface, SurfaceStates
  <1>11. cursorSlots \in [SurfaceNames -> SurfaceStates] /\ \A i \in SurfaceNames : cursorSlots[i] = NoSurface
    BY <1>10 DEF Init, SurfaceNames
  <1>12. CursorTypes(cursor, cursorSlots, cursorFrame, cursorGeneration, hasFrame, generation)
    BY <1>4, <1>7, <1>11 DEF CursorTypes, Optional
  <1>13. /\ client \in [Clients -> ClientStates]
         /\ \A c \in Clients : client[c].lease = Nothing /\ client[c].texture = Nothing /\ client[c].generation = Nothing
    BY DEF Init, ClientStates, Optional
  <1>14. ClientTypes(client, hasFrame, generation)
    BY <1>7, <1>13 DEF ClientTypes
  <1>15. Counted(slots, cursorSlots, client)
    <2>1. \A surface, i : Holders(client, surface, i) = {}
      BY <1>13 DEF Holders
    <2>2. \A surface, i : Cardinality(Holders(client, surface, i)) = 0
      BY <2>1, HoldersFinite
    <2> QED
      BY <2>2, <1>2, <1>3, <1>10, <1>11 DEF Counted
  <1>16. LeasesKept(slots, cursorSlots, client)
    BY <1>13 DEF LeasesKept
  <1>17. CommandOwns(slots, committed, generation, hasFrame, scanout, command)
    BY <1>4, IdleCommand DEF CommandOwns
  <1>18. SlotsMatch(slots, committed, generation, history, command)
    <2>1. \A i \in 1..Len(slots) : i = committed
      BY <1>3
    <2> QED
      BY <2>1, <1>4, IdleCommand DEF SlotsMatch, Matches
  <1>19. SurfaceMatches(history, generation, cursor, cursorSlots, cursorFrame, cursorGeneration,
                        slots[committed].pixels)
    BY <1>4 DEF SurfaceMatches
  <1> QED
    BY <1>5, <1>6, <1>9, <1>12, <1>14, <1>15, <1>16, <1>17, <1>18, <1>19 DEF SlotsInvariant

\* The pool, the damage records, the leases and the surfaces stay consistent
\* (VirtIOGPU.swift: frameSlots, damageHistory, committedFrame, cursorFrame).
THEOREM SlotsStayConsistent == Spec => []SlotsInvariant
  <1>1. Init => SlotsInvariant
    BY InitEstablishes
  <1>2. SlotsInvariant /\ [Next]_vars => SlotsInvariant'
    BY StepKeeps
  <1> QED
    BY <1>1, <1>2, PTL DEF Spec

\* A lease shows what it showed when it was taken, whatever the guest draws,
\* flushes, clears or resets while it is held (unpublishedFrame and
\* prepareCursorFrame write only surfaces without leases).
THEOREM LeasesAreImmutable == Spec => []LeasesImmutable
  <1>1. SlotsInvariant => LeasesImmutable
    <2> SUFFICES ASSUME SlotsInvariant, NEW c \in Clients, client[c].lease # Nothing
                 PROVE  Leased(client[c].lease) = client[c].lease.taken
      BY DEF LeasesImmutable
    <2>1. Kept(slots, cursorSlots, client[c].lease) /\ client[c] \in ClientStates
      BY DEF SlotsInvariant, LeasesKept, ClientTypes
    <2>2. client[c].lease \in Leases
      BY <2>1 DEF ClientStates, Optional
    <2> QED
      BY <2>1, <2>2, LeasedTaken
  <1> QED
    BY <1>1, SlotsStayConsistent, PTL

-----------------------------------------------------------------------------
(* What can be leased.                                                     *)

\* Slots, surfaces and records refer to things that exist; no lease count
\* exceeds the consumers.
LEMMA InvariantTypes ==
  ASSUME SlotsInvariant
  PROVE  TypeOK
  <1>1. slots \in Seq(SlotStates) /\ DOMAIN slots = 1..Len(slots) /\ committed \in DOMAIN slots
    BY DEF SlotsInvariant, PoolTypes
  <1>2. \A i \in DOMAIN slots : slots[i].leases \in 0..Cardinality(Clients)
    <2> TAKE i \in DOMAIN slots
    <2>1. slots[i].leases = Cardinality(Holders(client, "slot", i))
      BY <1>1 DEF SlotsInvariant, Counted
    <2>2. Holders(client, "slot", i) \subseteq Clients
      BY DEF Holders
    <2>3. Cardinality(Holders(client, "slot", i)) <= Cardinality(Clients)
      BY <2>2, FrameSlotsAssumption, FS_Subset
    <2> QED
      BY <2>1, <2>3, HoldersFinite, FrameSlotsAssumption, FS_CardinalityType
  <1>3. Recorded(history, generation) /\ generation \in Generations
    BY DEF SlotsInvariant, Published
  <1>4. \A i \in DOMAIN history : history[i].generation \in Generations
    <2>1. /\ history \in Seq(Records) /\ DOMAIN history = 1..Len(history)
          /\ Len(history) \in Nat /\ MaxGeneration \in Nat
      BY <1>3, FrameSlotsAssumption DEF Recorded
    <2> TAKE i \in DOMAIN history
    <2>2. history[i] \in Records
      BY <2>1
    <2>3. history[i].generation \in Nat
      BY <2>2 DEF Records
    <2>4. history[i].generation = generation - Len(history) + i
      BY <2>1, <1>3 DEF Recorded
    <2> QED
      BY <2>1, <2>3, <2>4, <1>3 DEF Generations
  <1>5. cursorFrame \in DOMAIN cursorSlots \cup {Nothing}
    BY DEF SlotsInvariant, CursorTypes, Optional
  <1> QED
    BY <1>1, <1>2, <1>3, <1>4, <1>5 DEF TypeOK, Recorded

\* What can be leased is never half-written, and the pool is bounded.
LEMMA InvariantWhole ==
  ASSUME SlotsInvariant
  PROVE  PictureNeverTorn /\ PoolBounded
  <1>1. slots[committed].pixels \in [Tiles -> Nat]
    BY DEF SlotsInvariant, PoolTypes, Pictures
  <1>2. PictureNeverTorn
    BY <1>1 DEF PictureNeverTorn, Torn
  <1> QED
    BY <1>2 DEF SlotsInvariant, PoolTypes, PoolBounded

\* The slots and records are well formed, what can be leased is whole, and
\* leases, not flushes, grow the pool (unpublishedFrame, commit).
THEOREM PoolStaysWhole == Spec => [](TypeOK /\ PictureNeverTorn /\ PoolBounded)
  <1>1. SlotsInvariant => TypeOK /\ PictureNeverTorn /\ PoolBounded
    BY InvariantTypes, InvariantWhole
  <1> QED
    BY <1>1, SlotsStayConsistent, PTL

-----------------------------------------------------------------------------
(* FrameSource is implemented.                                             *)

\* A transfer into the cursor's resource leaves the image as it was.  The code
\* commits nothing for a transfer that changes it: refreshCursorPixels.
SameImage == \A image \in Images : TransferCursor(image) => cursor' = cursor

\* What a client holds still matches after the picture has advanced.
LEMMA ClientFollows ==
  ASSUME NEW g, NEW hf, NEW h, NEW n, NEW f, NEW k, NEW old, NEW new,
         Advances(g, hf, h, n, f, k, old, new), NEW cl, ClientTypes(cl, hf, g), NEW c \in Clients,
         ClientMatches(h, g, cl[c], old)
  PROVE  ClientMatches(k, n, cl[c], new)
  <1>1. cl[c].generation \in Baselines(hf, g)
    BY DEF ClientTypes
  <1>2. cl[c].lease # Nothing => cl[c].lease.generation \in Baselines(hf, g)
    BY DEF ClientTypes
  <1>3. cl[c].texture # Nothing => Matches(k, n, cl[c].generation, cl[c].texture, new)
    BY <1>1, MatchesAdvances DEF ClientMatches
  <1>4. cl[c].lease # Nothing => Matches(k, n, cl[c].lease.generation, cl[c].lease.taken, new)
    BY <1>2, MatchesAdvances DEF ClientMatches
  <1> QED
    BY <1>3, <1>4 DEF ClientMatches

\* After an upload the texture is the whole picture that was leased.
LEMMA UploadedWhole ==
  ASSUME SlotsInvariant, ClientsMatch, NEW c \in Clients, client[c].lease # Nothing
  PROVE  /\ client[c].lease.taken \in Pictures
         /\ Uploaded(client[c]).texture = client[c].lease.taken
  <1> DEFINE l == client[c].lease
             old == IF client[c].texture = Nothing THEN Blank ELSE client[c].texture
  <1>1. client[c] \in ClientStates
    BY DEF SlotsInvariant, ClientTypes
  <1>2. l \in Leases
    BY <1>1 DEF ClientStates, Optional
  <1>3. client[c].texture = Nothing => l.damage = Tiles
    BY DEF SlotsInvariant, ClientTypes
  <1>4. client[c].texture # Nothing => \A t \in Tiles \ l.damage : client[c].texture[t] = l.taken[t]
    BY DEF ClientsMatch, ClientMatches
  <1>5. Uploaded(client[c]).texture = CopyTiles(l.damage, l.taken, old)
    BY DEF Uploaded
  <1>6. \A t \in Tiles : t \notin l.damage => old[t] = l.taken[t]
    BY <1>3, <1>4
  <1> HIDE DEF l, old
  <1>7. l.taken \in [Tiles -> Nat]
    BY <1>2 DEF Leases, Pictures
  <1>8. CopyTiles(l.damage, l.taken, old) = l.taken
    BY <1>6, <1>7 DEF CopyTiles
  <1> QED
    BY <1>5, <1>7, <1>8 DEF l, Pictures

\* Taking a lease.
LEMMA AcquireMatches ==
  ASSUME SlotsInvariant, ClientsMatch, NEW c \in Clients, NEW l, TakesLease(c, l), SamePublished
  PROVE  ClientsMatch'
  <1> DEFINE pic == Under(cursor, slots[committed].pixels)
  <1>1. Under(cursor', slots'[committed'].pixels) = pic
    BY DEF SamePublished
  <1>2. /\ Taken(client, client', c, l)
        /\ client'[c].texture = client[c].texture /\ client'[c].generation = client[c].generation
    BY ClientTakes
  <1>3. SUFFICES ASSUME NEW d \in Clients
                 PROVE  ClientMatches(history, generation, client'[d], pic)
    BY <1>1 DEF ClientsMatch, SamePublished
  <1>4. ClientMatches(history, generation, client[d], pic)
    BY DEF ClientsMatch
  <1> HIDE DEF pic
  <1>5. CASE d # c
    BY <1>2, <1>4, <1>5 DEF Taken
  <1>6. CASE d = c
    <2>1. /\ client'[c].lease = l /\ l.generation = generation /\ l.taken = pic
          /\ \A t \in Tiles : Stale(history, generation, client[c].generation, t) => t \in l.damage
      BY <1>2 DEF Taken, TakesLease, pic
    <2>2. client'[c].texture # Nothing =>
            Matches(history, generation, client'[c].generation, client'[c].texture, pic)
      BY <1>2, <1>4, <1>6 DEF ClientMatches
    <2>3. Matches(history, generation, l.generation, l.taken, pic)
      BY <2>1 DEF Matches
    <2>4. client'[c].texture # Nothing => \A t \in Tiles \ l.damage : client'[c].texture[t] = l.taken[t]
      BY <2>1, <2>2, <1>2 DEF Matches
    <2> QED
      BY <2>1, <2>2, <2>3, <2>4, <1>6 DEF ClientMatches
  <1> QED
    BY <1>5, <1>6

\* Giving it back.
LEMMA ReleaseMatches ==
  ASSUME SlotsInvariant, ClientsMatch, NEW c \in Clients, SamePublished, client[c].lease # Nothing,
         \/ client' = [client EXCEPT ![c] = Uploaded(client[c])]
         \/ client' = [client EXCEPT ![c] = Abandoned]
  PROVE  ClientsMatch'
  <1> DEFINE pic == Under(cursor, slots[committed].pixels)
  <1>1. Under(cursor', slots'[committed'].pixels) = pic
    BY DEF SamePublished
  <1>2. client \in [Clients -> ClientStates]
    BY DEF SlotsInvariant, ClientTypes
  <1>3. SUFFICES ASSUME NEW d \in Clients
                 PROVE  ClientMatches(history, generation, client'[d], pic)
    BY <1>1 DEF ClientsMatch, SamePublished
  <1>4. ClientMatches(history, generation, client[d], pic)
    BY DEF ClientsMatch
  <1> HIDE DEF pic
  <1>5. CASE d # c
    <2>1. client'[d] = client[d]
      BY <1>2, <1>5
    <2> QED
      BY <2>1, <1>4
  <1>6. CASE d = c /\ client' = [client EXCEPT ![c] = Uploaded(client[c])]
    <2> DEFINE k == Uploaded(client[c])
    <2>1. client'[c] = k
      BY <1>2, <1>6
    <2>2. k.lease = Nothing /\ k.generation = client[c].lease.generation
      BY DEF Uploaded
    <2>3. k.texture = client[c].lease.taken
      BY UploadedWhole
    <2> HIDE DEF k
    <2>4. Matches(history, generation, k.generation, k.texture, pic)
      BY <2>2, <2>3, <1>4, <1>6 DEF ClientMatches
    <2> QED
      BY <2>1, <2>2, <2>4, <1>6 DEF ClientMatches
  <1>7. CASE d = c /\ client' = [client EXCEPT ![c] = Abandoned]
    <2>1. client'[c] = Abandoned
      BY <1>2, <1>7
    <2> QED
      BY <2>1, <1>7 DEF Abandoned, ClientMatches
  <1> QED
    BY <1>5, <1>6, <1>7

\* What the clients hold keeps matching.
LEMMA StepMatches ==
  ASSUME SlotsInvariant, ClientsMatch, [Next]_vars, [SameImage]_vars
  PROVE  ClientsMatch'
  <1>1. CASE GuestCommand \/ EndPixelWork
    <2>1. CASE SameImage
      <3>1. PictureAdvances
        BY <1>1, <2>1, GuestKeeps DEF SameImage
      <3> DEFINE old == Under(cursor, slots[committed].pixels)
                 new == Under(cursor', slots'[committed'].pixels)
      <3>2. Advances(generation, hasFrame, history, generation', hasFrame', history', old, new)
            /\ client' = client
        BY <3>1 DEF PictureAdvances
      <3>3. ClientTypes(client, hasFrame, generation)
        BY DEF SlotsInvariant
      <3>4. \A c \in Clients : ClientMatches(history, generation, client[c], old)
        BY DEF ClientsMatch
      <3>5. SUFFICES \A c \in Clients : ClientMatches(history', generation', client[c], new)
        BY <3>2 DEF ClientsMatch
      <3> HIDE DEF old, new
      <3> QED
        BY <3>2, <3>3, <3>4, ClientFollows
    <2>2. CASE UNCHANGED vars
      BY <2>2 DEF ClientsMatch, vars, source, guest, cursorState
    <2> QED
      BY <2>1, <2>2
  <1>2. CASE Consume
    <2>1. PICK c \in Clients : Acquire(c) \/ Upload(c) \/ Abandon(c)
      BY <1>2 DEF Consume
    <2>2. CASE Acquire(c)
      BY <2>2, AcquireKeeps, AcquireMatches
    <2>3. CASE Upload(c)
      BY <2>3, UploadKeeps, ReleaseMatches
    <2>4. CASE Abandon(c)
      BY <2>4, AbandonKeeps, ReleaseMatches
    <2> QED
      BY <2>1, <2>2, <2>3, <2>4
  <1>3. CASE UNCHANGED vars
    BY <1>3 DEF ClientsMatch, vars, source, guest, cursorState
  <1> QED
    BY <1>1, <1>2, <1>3, Zenon DEF Next

\* The picture of FrameSource, before and after a step.
LEMMA PictureShown ==
  /\ Picture = IF hasFrame THEN Under(cursor, slots[committed].pixels) ELSE Nothing
  /\ Picture' = IF hasFrame' THEN Under(cursor', slots'[committed'].pixels) ELSE Nothing
  <1>1. \A t \in Tiles : t \in CursorTiles(cursor) \cap Tiles <=> cursor # Nothing /\ cursor.tile = t
    BY DEF CursorTiles
  <1>2. Composite(Tiles, slots[committed].pixels) = Under(cursor, slots[committed].pixels)
    BY <1>1 DEF Composite, Under
  <1>3. \A t \in Tiles : t \in CursorTiles(cursor') \cap Tiles <=> cursor' # Nothing /\ cursor'.tile = t
    BY DEF CursorTiles
  <1>4. Composite(Tiles, slots[committed].pixels)' = Under(cursor', slots'[committed'].pixels)
    BY <1>3 DEF Composite, Under
  <1> QED
    BY <1>2, <1>4 DEF Picture

\* The leases and textures of FrameSource.
LeasesOf(cl) == [c \in Clients |-> IF cl[c].lease = Nothing THEN Nothing ELSE cl[c].lease.taken]
TexturesOf(cl) == [c \in Clients |-> cl[c].texture]

\* The steps of FrameSource, in terms of this module's state.
LEMMA SourceSteps ==
  /\ \A c \in Clients :
       Source!Acquire(c) <=>
         /\ LeasesOf(client)[c] = Nothing /\ Picture # Nothing
         /\ LeasesOf(client') = [LeasesOf(client) EXCEPT ![c] = Picture]
         /\ Picture' = Picture /\ TexturesOf(client') = TexturesOf(client)
  /\ \A c \in Clients :
       Source!Upload(c) <=>
         /\ LeasesOf(client)[c] # Nothing
         /\ TexturesOf(client') = [TexturesOf(client) EXCEPT ![c] = LeasesOf(client)[c]]
         /\ LeasesOf(client') = [LeasesOf(client) EXCEPT ![c] = Nothing]
         /\ Picture' = Picture
  /\ \A c \in Clients :
       Source!Abandon(c) <=>
         /\ LeasesOf(client)[c] # Nothing
         /\ LeasesOf(client') = [LeasesOf(client) EXCEPT ![c] = Nothing]
         /\ TexturesOf(client') \in {TexturesOf(client), [TexturesOf(client) EXCEPT ![c] = Nothing]}
         /\ Picture' = Picture
  /\ Source!Publish <=> /\ Picture' # Picture /\ LeasesOf(client') = LeasesOf(client)
                        /\ TexturesOf(client') = TexturesOf(client)
  /\ UNCHANGED Source!vars <=> /\ Picture' = Picture /\ LeasesOf(client') = LeasesOf(client)
                               /\ TexturesOf(client') = TexturesOf(client)
  BY DEF Source!Acquire, Source!Upload, Source!Abandon, Source!Publish, Source!vars, LeasesOf, TexturesOf

\* Every step is a step of FrameSource or changes nothing there.
LEMMA StepImplements ==
  ASSUME SlotsInvariant, ClientsMatch, [Next]_vars, [SameImage]_vars
  PROVE  [Source!Next]_Source!vars
  <1> DEFINE L == LeasesOf(client)
             L2 == LeasesOf(client')
             T == TexturesOf(client)
             T2 == TexturesOf(client')
  <1>1. client \in [Clients -> ClientStates]
    BY DEF SlotsInvariant, ClientTypes
  <1>2. ASSUME NEW c \in Clients, client[c].lease # Nothing
        PROVE  L[c] # Nothing /\ L[c] = client[c].lease.taken
    BY <1>2, UploadedWhole, NothingAssumption DEF LeasesOf
  <1>3. CASE client' = client
    <2>1. L2 = L /\ T2 = T
      BY <1>3
    <2>2. Source!Publish \/ UNCHANGED Source!vars
      BY <2>1, SourceSteps
    <2> QED
      BY <2>2 DEF Source!Next
  <1>4. CASE GuestCommand \/ EndPixelWork
    <2>1. CASE SameImage
      BY <1>3, <1>4, <2>1, GuestKeeps DEF SameImage, PictureAdvances
    <2>2. CASE UNCHANGED vars
      BY <1>3, <2>2 DEF vars
    <2> QED
      BY <2>1, <2>2
  <1>5. CASE UNCHANGED vars
    BY <1>3, <1>5 DEF vars
  <1>6. ASSUME SamePublished PROVE Picture' = Picture
    BY <1>6, PictureShown DEF SamePublished
  <1>7. ASSUME NEW c \in Clients, Acquire(c) PROVE Source!Acquire(c)
    <2>1. SamePublished /\ \E l : TakesLease(c, l)
      BY <1>7, AcquireKeeps
    <2>2. PICK l : TakesLease(c, l)
      BY <2>1
    <2>3. /\ Taken(client, client', c, l) /\ client'[c].texture = client[c].texture
      BY <2>2, ClientTakes
    <2>4. Picture = l.taken /\ l.taken \in Pictures /\ l # Nothing
      <3>1. l \in Leases /\ hasFrame /\ l.taken = Under(cursor, slots[committed].pixels)
        BY <2>2 DEF TakesLease
      <3> QED
        BY <3>1, PictureShown, NothingAssumption DEF Leases
    <2>5. L[c] = Nothing /\ L2[c] = Picture /\ \A d \in Clients \ {c} : L2[d] = L[d]
      BY <2>3, <2>4 DEF Taken, LeasesOf
    <2>6. L2 = [L EXCEPT ![c] = Picture]
      BY <2>5 DEF LeasesOf
    <2>7. T2 = T
      BY <2>3 DEF Taken, TexturesOf
    <2>8. Picture # Nothing /\ Picture' = Picture
      BY <2>1, <2>4, <1>6, NothingAssumption
    <2> QED
      BY <2>5, <2>6, <2>7, <2>8, SourceSteps
  <1>8. ASSUME NEW c \in Clients, Upload(c) PROVE Source!Upload(c)
    <2> DEFINE k == Uploaded(client[c])
    <2>1. SamePublished /\ client[c].lease # Nothing /\ client' = [client EXCEPT ![c] = k]
      BY <1>8, UploadKeeps
    <2>2. k.lease = Nothing /\ k.texture = client[c].lease.taken
      BY <2>1, UploadedWhole DEF Uploaded
    <2> HIDE DEF k
    <2>3. client'[c] = k /\ \A d \in Clients \ {c} : client'[d] = client[d]
      BY <2>1, <1>1
    <2>4. L[c] # Nothing /\ L[c] = client[c].lease.taken
      BY <2>1, <1>2
    <2>5. L2 = [L EXCEPT ![c] = Nothing]
      BY <2>2, <2>3 DEF LeasesOf
    <2>6. T2 = [T EXCEPT ![c] = L[c]]
      BY <2>2, <2>3, <2>4 DEF TexturesOf
    <2> QED
      BY <2>1, <2>4, <2>5, <2>6, <1>6, SourceSteps
  <1>9. ASSUME NEW c \in Clients, Abandon(c) PROVE Source!Abandon(c)
    <2>1. SamePublished /\ client[c].lease # Nothing /\ client' = [client EXCEPT ![c] = Abandoned]
      BY <1>9, AbandonKeeps
    <2>2. client'[c] = Abandoned /\ \A d \in Clients \ {c} : client'[d] = client[d]
      BY <2>1, <1>1
    <2>3. Abandoned.lease = Nothing /\ Abandoned.texture = Nothing
      BY DEF Abandoned
    <2>4. L[c] # Nothing
      BY <2>1, <1>2
    <2>5. L2 = [L EXCEPT ![c] = Nothing]
      BY <2>2, <2>3 DEF LeasesOf
    <2>6. T2 = [T EXCEPT ![c] = Nothing]
      BY <2>2, <2>3 DEF TexturesOf
    <2> QED
      BY <2>1, <2>4, <2>5, <2>6, <1>6, SourceSteps
  <1>10. CASE Consume
    <2>1. PICK c \in Clients : Acquire(c) \/ Upload(c) \/ Abandon(c)
      BY <1>10 DEF Consume
    <2>2. Source!Acquire(c) \/ Source!Upload(c) \/ Source!Abandon(c)
      BY <2>1, <1>7, <1>8, <1>9
    <2> QED
      BY <2>2 DEF Source!Next
  <1> QED
    BY <1>4, <1>5, <1>10, Zenon DEF Next

\* Leasing slots and copying only the damage is indistinguishable from copying
\* each picture whole, as long as transfers into the cursor's resource do not
\* change the image that is shown (frameLease, damageHistory, compositeCursor).
THEOREM WholePicturesAreCopied == Spec /\ [][SameImage]_vars => CopiesWholePictures
  <1>1. Init => Source!Init /\ ClientsMatch
    <2> SUFFICES ASSUME Init PROVE Source!Init /\ ClientsMatch
      OBVIOUS
    <2>1. hasFrame = FALSE /\ client = [c \in Clients |-> [lease |-> Nothing, texture |-> Nothing,
                                                            generation |-> Nothing]]
      BY DEF Init
    <2>2. Picture = Nothing
      BY <2>1 DEF Picture
    <2>3. Source!Init
      BY <2>1, <2>2 DEF Source!Init
    <2>4. ClientsMatch
      BY <2>1 DEF ClientsMatch, ClientMatches
    <2> QED
      BY <2>3, <2>4
  <1>2. SlotsInvariant /\ ClientsMatch /\ [Next]_vars /\ [SameImage]_vars => ClientsMatch'
    BY StepMatches
  <1>3. SlotsInvariant /\ ClientsMatch /\ [Next]_vars /\ [SameImage]_vars => [Source!Next]_Source!vars
    BY StepImplements
  <1> QED
    BY <1>1, <1>2, <1>3, SlotsStayConsistent, PTL DEF Spec, CopiesWholePictures, Source!Spec

\* So the source accumulates damage from the last upload, as
\* FramePresentationScheduler.swift says, as long as transfers into the
\* cursor's resource do not change the image that is shown.
THEOREM DamageIsFromLastUpload == Spec /\ [][SameImage]_vars => []DamageFromLastUpload
  <1>1. Init => ClientsMatch
    BY DEF Init, ClientsMatch, ClientMatches
  <1>2. SlotsInvariant /\ ClientsMatch /\ [Next]_vars /\ [SameImage]_vars => ClientsMatch'
    BY StepMatches
  <1>3. SlotsInvariant /\ ClientsMatch => DamageFromLastUpload
    <2> SUFFICES ASSUME SlotsInvariant, ClientsMatch, NEW c \in Clients,
                        client[c].lease # Nothing, client[c].texture # Nothing
                 PROVE  CopyTiles(client[c].lease.damage, client[c].lease.taken, client[c].texture)
                          = client[c].lease.taken
      BY DEF DamageFromLastUpload
    <2> QED
      BY UploadedWhole DEF Uploaded
  <1> QED
    BY <1>1, <1>2, <1>3, SlotsStayConsistent, PTL DEF Spec

-----------------------------------------------------------------------------
(* One resource is shown as it is, or black.                               *)

\* A slot that is taken to be written is not the picture.
LEMMA TakenSlot ==
  ASSUME SlotsInvariant, NEW slot, slots' = WithSlot(UnpublishedSlot, slot), committed' = committed
  PROVE  slots'[committed'] = slots[committed]
  <1> DEFINE n == UnpublishedSlot
  <1>1. slots \in Seq(SlotStates) /\ committed \in 1..Len(slots) /\ DOMAIN slots = 1..Len(slots)
    BY DEF SlotsInvariant, PoolTypes
  <1>2. n # committed
    BY UnpublishedFacts DEF SlotsInvariant
  <1> HIDE DEF n
  <1>3. slots' = WithSlot(n, slot)
    BY DEF n
  <1>4. CASE n \in DOMAIN slots
    BY <1>1, <1>2, <1>3, <1>4 DEF WithSlot
  <1>5. CASE n \notin DOMAIN slots
    <2>1. slots' = Append(slots, slot)
      BY <1>3, <1>5 DEF WithSlot
    <2>2. Append(slots, slot)[committed] = slots[committed]
      BY <1>1
    <2> QED
      BY <2>1, <2>2
  <1> QED
    BY <1>4, <1>5

\* A flush of the only resource: the copied tiles are the resource's, the others
\* were already shown as they are.
LEMMA FlushShows ==
  ASSUME SlotsInvariant, ResourceShown, \A r, s \in Resources : r = s,
         EndIncrementalFlush \/ EndFullFlush
  PROVE  ResourceShown'
  <1> DEFINE tiles == command.tiles
             sr == scanout.resource
             old == slots[committed].pixels
             new == slots'[committed'].pixels
  <1>1. command.op \in {"full", "write"} /\ Shown \in ResourceStates /\ scanout \in Scanouts
    BY ShownFacts DEF EndIncrementalFlush, EndFullFlush
  <1>2. sr \in Resources /\ resource \in [Resources -> ResourceStates] /\ Shown = resource[sr]
        /\ Shown.pixels \in Pictures
    BY <1>1 DEF Scanouts, ResourceStates, Shown, SlotsInvariant, GuestTypes
  <1>3. command.slot \in 1..Len(slots) /\ slots \in Seq(SlotStates) /\ slots[command.slot] \in SlotStates
    BY <1>1, OwnFacts DEF Idle
  <1>4. ASSUME NEW damage, NEW pixels, FinishFlush(damage, pixels)
        PROVE  /\ new = pixels /\ scanout' = scanout /\ committedScanout' = scanout
               /\ command' = NoCommand
               /\ resource'[sr].pending = Shown.pending \ tiles /\ resource'[sr].pixels = Shown.pixels
    <2>1. slots' = [slots EXCEPT ![command.slot] = [@ EXCEPT !.pixels = pixels, !.generation = generation']]
          /\ committed' = command.slot
      BY <1>4 DEF FinishFlush
    <2>2. new = pixels
      BY <2>1, <1>3 DEF SlotStates
    <2>3. resource'[sr] = [Shown EXCEPT !.pending = Shown.pending \ tiles, !.exact = Shown.exact \ tiles]
      BY <1>2, <1>4 DEF FinishFlush
    <2>4. resource'[sr].pending = Shown.pending \ tiles /\ resource'[sr].pixels = Shown.pixels
      BY <1>1, <2>3 DEF ResourceStates
    <2> QED
      BY <2>2, <2>4, <1>4 DEF FinishFlush
  <1>5. SUFFICES ASSUME \A t \in scanout.tiles :
                   t \in Shown.pending \ tiles \/ new[t] = Shown.pixels[t] \/ new[t] = Black,
                 scanout' = scanout, committedScanout' = scanout, command' = NoCommand,
                 resource'[sr].pending = Shown.pending \ tiles, resource'[sr].pixels = Shown.pixels
                 PROVE  ResourceShown'
    <2>1. CASE EndFullFlush
      <3>1. new = CopyTiles(tiles \cap scanout.tiles, Shown.pixels, Blank)
        BY <2>1, <1>4 DEF EndFullFlush
      <3>2. \A t \in scanout.tiles : t \in Tiles
        BY <1>1 DEF Scanouts
      <3>3. \A t \in scanout.tiles : new[t] = Shown.pixels[t] \/ new[t] = Black
        BY <3>1, <3>2 DEF CopyTiles, Blank
      <3> QED
        BY <2>1, <3>3, <1>4, <1>5 DEF EndFullFlush
    <2>2. CASE EndIncrementalFlush
      <3> DEFINE damage == command.damage
      <3>1. new = CopyTiles(damage, Shown.pixels, slots[command.slot].pixels) /\ command.op = "write"
        BY <2>2, <1>4 DEF EndIncrementalFlush
      <3>2. \A t \in Tiles \ damage : slots[command.slot].pixels[t] = old[t]
        BY <3>1 DEF SlotsInvariant, SlotsMatch
      <3>3. /\ committedScanout # Nothing /\ committedScanout.tiles = scanout.tiles
            /\ \A t \in (Shown.pending \cap tiles \cap scanout.tiles) \ damage : old[t] = Shown.pixels[t]
            /\ ShowsResource(old, committedScanout, resource)
        BY <3>1, <1>2 DEF ResourceShown, ShowsFlushed
      <3>4. committedScanout \in Scanouts
        BY <3>3 DEF SlotsInvariant, GuestTypes, Optional
      <3>5. committedScanout.resource = sr
        BY <3>4, <1>2 DEF Scanouts
      <3>6. \A t \in scanout.tiles :
              t \in Tiles /\ (t \in Shown.pending \/ old[t] = Shown.pixels[t] \/ old[t] = Black)
        BY <3>3, <3>5, <1>1, <1>2 DEF ShowsResource, Scanouts
      <3>7. \A t \in Tiles : new[t] = IF t \in damage THEN Shown.pixels[t] ELSE old[t]
        BY <3>1, <3>2 DEF CopyTiles
      <3> HIDE DEF old, new, damage, tiles
      <3>8. \A t \in scanout.tiles : t \in Shown.pending \ tiles \/ new[t] = Shown.pixels[t] \/ new[t] = Black
        BY <3>3, <3>6, <3>7
      <3> QED
        BY <2>2, <3>8, <1>4, <1>5 DEF EndIncrementalFlush, tiles, new
    <2> QED
      BY <2>1, <2>2
  <1> HIDE DEF new, tiles
  <1>6. ShowsResource(new, scanout, resource')
    BY <1>5 DEF ShowsResource
  <1>7. NoCommand.op = "idle" /\ scanout # Nothing
    BY <1>1, IdleCommand, NothingAssumption
  <1>8. ShowsFlushed(new, scanout, scanout, resource', NoCommand)
    BY <1>6, <1>7 DEF ShowsFlushed
  <1> QED
    BY <1>5, <1>8 DEF ResourceShown, new

\* Transfers into a resource await a flush.
LEMMA TransferShows ==
  ASSUME SlotsInvariant, ResourceShown, NEW r \in Resources, NEW tiles \in Rectangles,
         NEW color \in Colors, NEW exact \in ExactTransfers, Transfer(r, tiles, color, exact)
  PROVE  ResourceShown'
  <1> DEFINE new == [pixels |-> [t \in Tiles |-> IF t \in tiles THEN color ELSE resource[r].pixels[t]],
                     pending |-> resource[r].pending \cup tiles,
                     exact |-> IF exact THEN resource[r].exact \cup tiles ELSE resource[r].exact]
  <1>1. /\ slots' = slots /\ committed' = committed /\ scanout' = scanout
        /\ committedScanout' = committedScanout /\ command' = command /\ command.op = "idle"
        /\ resource' = [resource EXCEPT ![r] = new]
    BY DEF Transfer, source, Idle
  <1>2. /\ new.pending = resource[r].pending \cup tiles
        /\ \A t \in Tiles \ tiles : new.pixels[t] = resource[r].pixels[t]
    OBVIOUS
  <1> HIDE DEF new
  <1>3. resource \in [Resources -> ResourceStates] /\ committedScanout \in Optional(Scanouts)
    BY DEF SlotsInvariant, GuestTypes
  <1>4. \A x \in Resources : resource'[x] = IF x = r THEN new ELSE resource[x]
    BY <1>1, <1>3
  <1>5. ShowsResource(slots[committed].pixels, committedScanout, resource')
    <2> SUFFICES ASSUME committedScanout # Nothing, NEW t \in committedScanout.tiles
                 PROVE  LET x == committedScanout.resource
                        IN  \/ t \in resource'[x].pending
                            \/ slots[committed].pixels[t] = resource'[x].pixels[t]
                            \/ slots[committed].pixels[t] = Black
      BY DEF ShowsResource
    <2>1. committedScanout.resource \in Resources /\ t \in Tiles
      BY <1>3 DEF Optional, Scanouts
    <2>2. LET x == committedScanout.resource
          IN  \/ t \in resource[x].pending
              \/ slots[committed].pixels[t] = resource[x].pixels[t]
              \/ slots[committed].pixels[t] = Black
      BY <1>1 DEF ResourceShown, ShowsFlushed, ShowsResource
    <2> QED
      BY <2>1, <2>2, <1>2, <1>4
  <1> QED
    BY <1>1, <1>5 DEF ResourceShown, ShowsFlushed

\* A cleared picture shows nothing.
LEMMA ClearShows ==
  ASSUME SlotsInvariant, ResourceShown, EndDisable \/ EndReset
  PROVE  ResourceShown'
  <1>1. slots \in Seq(SlotStates) /\ DOMAIN slots = 1..Len(slots) /\ command.slot \in 1..Len(slots)
    BY OwnFacts DEF SlotsInvariant, PoolTypes, EndDisable, EndReset, Idle
  <1>2. slots' = [slots EXCEPT ![command.slot] = ClearedSlot] /\ committed' = command.slot
        /\ command' = NoCommand
    BY <1>1 DEF EndDisable, EndReset, WithSlot
  <1>3. ClearedSlot.pixels = Blank
    <2>1. slots[command.slot] \in SlotStates
      BY <1>1
    <2> QED
      BY <2>1 DEF ClearedSlot, SlotStates
  <1>4. slots'[committed'].pixels = Blank
    BY <1>1, <1>2, <1>3
  <1>5. committedScanout' \in Optional(Scanouts) /\ (committedScanout' # Nothing => scanout' # Nothing)
    BY DEF SlotsInvariant, GuestTypes, EndDisable, EndReset, guest, ResourceShown, ShowsFlushed, Optional
  <1>6. ShowsResource(Blank, committedScanout', resource')
    BY <1>5 DEF ShowsResource, Blank, Optional, Scanouts
  <1>7. ShowsFlushed(Blank, committedScanout', scanout', resource', NoCommand)
    BY <1>5, <1>6, IdleCommand DEF ShowsFlushed
  <1> QED
    BY <1>2, <1>4, <1>7 DEF ResourceShown

\* Commands that take a slot.
LEMMA BeginShows ==
  ASSUME SlotsInvariant, ResourceShown, \A r, s \in Resources : r = s,
         \/ BeginDisable \/ BeginReset
         \/ \E r \in Resources : UnrefResource(r)
         \/ \E tiles \in Rectangles : BeginFlush(tiles)
  PROVE  ResourceShown'
  <1> DEFINE px == slots[committed].pixels
  <1>1. committedScanout # Nothing => scanout # Nothing
    BY DEF ResourceShown, ShowsFlushed
  <1>2. ASSUME NEW op \in {"disable", "reset"}, BeginClear(op)
        PROVE  slots'[committed'].pixels = px /\ command'.op = op
    BY <1>2, TakenSlot DEF BeginClear
  <1>3. CASE BeginDisable
    BY <1>2, <1>3 DEF BeginDisable, ResourceShown, ShowsFlushed, ShowsResource
  <1>4. CASE BeginReset
    BY <1>1, <1>2, <1>4 DEF BeginReset, ResourceShown, ShowsFlushed
  <1>5. CASE \E r \in Resources : UnrefResource(r)
    <2>1. PICK r \in Resources : UnrefResource(r)
      BY <1>5
    <2>2. CASE scanout # Nothing
      <3>1. scanout.resource = r
        BY <2>2 DEF SlotsInvariant, GuestTypes, Optional, Scanouts
      <3>2. BeginClear("disable") /\ committedScanout' = Nothing
        BY <2>1, <2>2, <3>1 DEF UnrefResource
      <3> QED
        BY <3>2, <1>2 DEF ResourceShown, ShowsFlushed, ShowsResource
    <2>3. CASE scanout = Nothing
      <3>1. UNCHANGED <<source, scanout, committedScanout, cursorState, command, client>> /\ Idle
        BY <2>1, <2>3 DEF UnrefResource
      <3>2. committedScanout' = Nothing /\ command'.op = "idle"
        BY <3>1, <2>3, <1>1 DEF Idle
      <3> QED
        BY <3>2 DEF ResourceShown, ShowsFlushed, ShowsResource
    <2> QED
      BY <2>2, <2>3
  <1>6. CASE \E tiles \in Rectangles : BeginFlush(tiles)
    <2>1. PICK tiles \in Rectangles : BeginFlush(tiles)
      BY <1>6
    <2>2. slots'[committed'].pixels = px
      BY <2>1, TakenSlot DEF BeginFlush
    <2>3. UNCHANGED guest /\ Idle
      BY <2>1 DEF BeginFlush
    <2>4. command'.op = IF NeedsFullFrame THEN "full" ELSE "copy"
      BY <2>1 DEF BeginFlush
    <2>5. ~NeedsFullFrame => committedScanout # Nothing /\ committedScanout.tiles = scanout.tiles
      BY DEF NeedsFullFrame
    <2> QED
      BY <2>2, <2>3, <2>4, <2>5 DEF ResourceShown, ShowsFlushed, Idle, guest
  <1> QED
    BY <1>3, <1>4, <1>5, <1>6

\* The tiles an incremental flush finds unchanged are shown already.
LEMMA CopyShows ==
  ASSUME SlotsInvariant, ResourceShown, EndCopy
  PROVE  ResourceShown'
  <1> DEFINE n == command.slot
             old == slots[committed].pixels
             copied == CopyTiles(command.damage, slots[committed].pixels, slots[n].pixels)
             changed == ChangedTiles(command.tiles, copied)
             co == [command EXCEPT !.op = "write", !.damage = changed]
  <1>1. command.op = "copy" /\ command' = co /\ UNCHANGED guest /\ committed' = committed
        /\ slots' = [slots EXCEPT ![n] = [@ EXCEPT !.pixels = Tear(changed, copied), !.generation = generation]]
    BY DEF EndCopy
  <1>2. Shown \in ResourceStates /\ scanout \in Scanouts /\ command \in Flushes
    BY <1>1, ShownFacts
  <1>3. n # committed /\ committed \in 1..Len(slots) /\ slots \in Seq(SlotStates)
    BY <1>1, OwnFacts DEF Idle, SlotsInvariant, PoolTypes
  <1>4. slots'[committed'].pixels = old
    BY <1>1, <1>3
  <1>5. \A t \in Tiles : copied[t] = old[t]
    BY <1>1 DEF SlotsInvariant, SlotsMatch, CopyTiles
  <1>6. \A t \in Transferred(command.tiles) \ changed : old[t] = Shown.pixels[t]
    <2>1. \A t \in Transferred(command.tiles) : t \in Tiles
      BY <1>2 DEF Transferred, Scanouts
    <2> QED
      BY <2>1, <1>5 DEF ChangedTiles
  <1>7. changed \in SUBSET Tiles
    BY <1>2 DEF ChangedTiles, Transferred, Scanouts
  <1> HIDE DEF changed
  <1>8. co \in Flushes /\ co.op = "write" /\ co.tiles = command.tiles /\ co.damage = changed
    BY <1>2, <1>7 DEF Flushes
  <1> HIDE DEF co, old
  <1>9. \A t \in (resource[scanout.resource].pending \cap co.tiles \cap scanout.tiles) \ co.damage :
          old[t] = resource[scanout.resource].pixels[t]
    BY <1>6, <1>8 DEF Transferred, Shown
  <1>10. ShowsFlushed(old, committedScanout, scanout, resource, co)
    BY <1>1, <1>8, <1>9 DEF ResourceShown, ShowsFlushed, old
  <1> QED
    BY <1>1, <1>4, <1>10 DEF ResourceShown, guest

\* Steps that leave the picture and the resources alone.
LEMMA OthersShow ==
  ASSUME SlotsInvariant, ResourceShown,
         \/ \E r \in Resources, tiles \in Screens : SetScanout(r, tiles)
         \/ \E tile \in Tiles, image \in Images : UpdateCursor(tile, image)
         \/ \E tile \in Tiles : MoveCursor(tile)
         \/ \E image \in Images : TransferCursor(image)
         \/ RemoveCursor
         \/ Consume
         \/ UNCHANGED vars
  PROVE  ResourceShown'
  <1>1. CASE \E r \in Resources, tiles \in Screens : SetScanout(r, tiles)
    <2>1. PICK r \in Resources, tiles \in Screens : SetScanout(r, tiles)
      BY <1>1
    <2>2. scanout' \in Scanouts
      BY <2>1, FrameSlotsAssumption DEF SetScanout, Scanouts
    <2>3. scanout' # Nothing
      BY <2>2, NothingAssumption
    <2> QED
      BY <2>1, <2>3 DEF SetScanout, ResourceShown, ShowsFlushed, source, Idle
  <1>2. CASE \/ \E tile \in Tiles, image \in Images : UpdateCursor(tile, image)
             \/ \E tile \in Tiles : MoveCursor(tile)
             \/ \E image \in Images : TransferCursor(image)
             \/ RemoveCursor
    <2>1. UNCHANGED <<slots, committed, guest, command>>
      BY <1>2 DEF UpdateCursor, MoveCursor, RemoveCursor, ChangeCursor, TransferCursor, source
    <2> QED
      BY <2>1 DEF ResourceShown, guest
  <1>3. CASE Consume
    <2>1. PICK c \in Clients : Acquire(c) \/ Upload(c) \/ Abandon(c)
      BY <1>3 DEF Consume
    <2>2. SamePublished
      BY <2>1, AcquireKeeps, UploadKeeps, AbandonKeeps
    <2> QED
      BY <2>2 DEF ResourceShown, SamePublished
  <1>4. CASE UNCHANGED vars
    BY <1>4 DEF ResourceShown, vars, source, guest
  <1> QED
    BY <1>1, <1>2, <1>3, <1>4

\* With one resource to show, a reader can lease at any moment, and leases a
\* finished picture of what the guest drew: no tile that was flushed shows an
\* earlier picture of it (flushResource, withPixelWork, unpublishedFrame).  Of
\* two resources scanned out in turn with the same rectangle this does not
\* hold: geometryChanged compares rectangles only.
THEOREM PictureStaysCurrent ==
  ASSUME \A r, s \in Resources : r = s
  PROVE  Spec => []PictureIsCurrent
  <1>1. Init => ResourceShown
    BY IdleCommand DEF Init, ResourceShown, ShowsFlushed, ShowsResource
  <1>2. SlotsInvariant /\ ResourceShown /\ [Next]_vars => ResourceShown'
    <2> SUFFICES ASSUME SlotsInvariant, ResourceShown, [Next]_vars PROVE ResourceShown'
      OBVIOUS
    <2>1. CASE GuestCommand
      BY <2>1, TransferShows, OthersShow, BeginShows DEF GuestCommand
    <2>2. CASE EndPixelWork
      BY <2>2, ClearShows, CopyShows, FlushShows DEF EndPixelWork
    <2>3. CASE Consume \/ UNCHANGED vars
      BY <2>3, OthersShow
    <2> QED
      BY <2>1, <2>2, <2>3, Zenon DEF Next
  <1>3. SlotsInvariant /\ ResourceShown => PictureIsCurrent
    <2> SUFFICES ASSUME SlotsInvariant, ResourceShown PROVE NoStalePixels
      BY InvariantTypes, InvariantWhole DEF PictureIsCurrent
    <2> SUFFICES ASSUME Idle, scanout # Nothing, committedScanout = scanout,
                        NEW t \in scanout.tiles \ Shown.pending
                 PROVE  slots[committed].pixels[t] \in {Shown.pixels[t], Black}
      BY DEF NoStalePixels
    <2>1. ShowsResource(slots[committed].pixels, scanout, resource)
      BY DEF ResourceShown, ShowsFlushed, Idle
    <2> QED
      BY <2>1 DEF ShowsResource, Shown
  <1> QED
    BY <1>1, <1>2, <1>3, SlotsStayConsistent, PTL DEF Spec
=================================================================================
