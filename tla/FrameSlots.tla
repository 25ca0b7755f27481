----------------------------- MODULE FrameSlots -----------------------------
(***************************************************************************)
(* How the virtual GPU publishes pictures to the host's display            *)
(* (VirtIOGPU.swift): a pool of frame slots, one of them committed; damage *)
(* records by generation; copy-on-write of a slot the display has leased;  *)
(* and a separate cursor surface composed when a lease is taken.           *)
(*                                                                         *)
(* A command that writes pixels holds the GPU's execution permit for its   *)
(* whole length, so commands never overlap, but it releases the metadata   *)
(* lock while it writes (withPixelWork): leases are taken and released     *)
(* between the steps of a command.  Pixels being written are Torn until    *)
(* the step that ends the pixel work.                                      *)
(*                                                                         *)
(* Data: the screen is a set of tiles, a tile's content a number, Black    *)
(* being the cleared one; a rectangle is a set of tiles; a resource and    *)
(* the screen use the same coordinates.  Generations and                   *)
(* timestamps do not wrap.                                                 *)
(***************************************************************************)
EXTENDS Naturals, Integers, Sequences, SequencesExt, FiniteSets

CONSTANTS Tiles,                 \* the screen
          Colors,                \* what the guest paints; not Black
          Images,                \* cursor images
          Rectangles,            \* rectangles the guest transfers and flushes
          Screens,               \* rectangles the guest scans out
          ExactTransfers,        \* whether transfers may be exact: a set of Booleans
          Clients,               \* consumers of leases
          MaximumDamageHistory,  \* 120 in the code
          MaxGeneration,         \* bound: generations explored
          Resources,             \* resources that can be scanned out
          Nothing                \* nil

Black == 0
Torn == -1

ASSUME FrameSlotsAssumption ==
  /\ Tiles # {} /\ IsFiniteSet(Tiles) /\ IsFiniteSet(Clients)
  /\ Colors \subseteq Nat \ {Black}
  /\ Images \subseteq Nat \ {0}
  /\ Rectangles \cup Screens \subseteq (SUBSET Tiles) \ {{}}
  /\ ExactTransfers \subseteq BOOLEAN
  /\ MaximumDamageHistory \in Nat \ {0}
  /\ MaxGeneration \in Nat

\* Finished pictures, and what optionals of these names hold.
Pictures == [Tiles -> Nat]
Leases == [surface : {"slot", "cursor"}, index : Nat, generation : Nat,
           damage : SUBSET Tiles, taken : Pictures]
Scanouts == [resource : Resources, tiles : SUBSET Tiles]
Cursors == [tile : Tiles, image : Nat]

\* nil is no value of an optional.
ASSUME NothingAssumption ==
  Nothing \notin Nat \cup Pictures \cup Leases \cup Scanouts \cup Cursors

VARIABLES
  slots,             \* frameSlots: pixels, generation, leaseCount
  committed,         \* committedFrame, an index of slots
  generation,        \* committedGeneration
  hasFrame,          \* hasCommittedFrame
  history,           \* damageHistory
  resource,          \* each resource's pixels and pending transfers
  scanout,           \* the scanout's resource and rectangle, or Nothing
  committedScanout,
  cursor,            \* the cursor's tile and image, or Nothing
  cursorSlots,       \* cursor surfaces still referenced, by identity
  cursorFrame,       \* the identity of cursorFrame, or Nothing
  cursorGeneration,  \* cursorFrameGeneration
  command,           \* the command between two of its lock releases
  client             \* each consumer's lease, texture and texture generation

source == <<slots, committed, generation, hasFrame, history>>
guest == <<resource, scanout, committedScanout>>
cursorState == <<cursor, cursorSlots, cursorFrame, cursorGeneration>>
vars == <<source, guest, cursorState, command, client>>

-----------------------------------------------------------------------------
(* Damage *)

Blank == [t \in Tiles |-> Black]

\* Copy the tiles of damage from one surface into another.
CopyTiles(damage, from, into) ==
  [t \in Tiles |-> IF t \in damage THEN from[t] ELSE into[t]]

Tear(damage, into) == [t \in Tiles |-> IF t \in damage THEN Torn ELSE into[t]]

\* Bug: the records are trusted even when older ones were dropped.
ShortHistoryTrusted(previous) ==
  IF previous = Nothing THEN Tiles
  ELSE LET newer == {i \in DOMAIN history : history[i].generation > previous}
       IN  IF newer = {} THEN Tiles ELSE UNION {history[i].tiles : i \in newer}

\* The damage frameMetadata reports to a consumer whose pixels are of the
\* generation previous: everything, unless the records reach back that far.
DamageSince(previous) ==
  IF previous = Nothing THEN Tiles
  ELSE LET newer == {i \in DOMAIN history : history[i].generation > previous}
       IN  IF newer = {} \/ history[1].generation > previous + 1 THEN Tiles
           ELSE UNION {history[i].tiles : i \in newer}

\* frameMetadata returns nil without a frame or to an up-to-date consumer.
HasMetadata(previous) == hasFrame /\ previous # generation

\* Bug: the oldest record is dropped one commit late.
KeepOneMore(records) ==
  LET excess == Len(records) - MaximumDamageHistory
  IN  IF excess > 1 THEN SubSeq(records, excess, Len(records)) ELSE records

KeepRecords(records) ==
  LET excess == Len(records) - MaximumDamageHistory
  IN  IF excess > 0 THEN SubSeq(records, excess + 1, Len(records)) ELSE records

\* commit: a new generation with its damage record; nothing without damage.
Commit(damage) ==
  IF damage = {}
  THEN UNCHANGED <<generation, history, hasFrame>>
  ELSE /\ generation < MaxGeneration
       /\ generation' = generation + 1
       /\ history' = KeepRecords(Append(history,
                       [generation |-> generation + 1, tiles |-> damage]))
       /\ hasFrame' = TRUE

-----------------------------------------------------------------------------
(* Slots *)

NewSlot == [pixels |-> Blank, generation |-> Nothing, leases |-> 0]

\* Bug: a slot is taken although it is leased.
LeaseBlindSlots == {i \in DOMAIN slots : i # committed}

\* Bug: the committed slot is taken too.
CommittedTooSlots == {i \in DOMAIN slots : slots[i].leases = 0}

\* Slots that unpublishedFrame may write into.
IdleSlots == {i \in DOMAIN slots : i # committed /\ slots[i].leases = 0}

\* Bug: idle slots are never reused.
AlwaysNewSlot == Len(slots) + 1

\* unpublishedFrame picks the first idle slot or appends a new one.
UnpublishedSlot ==
  IF IdleSlots = {} THEN Len(slots) + 1
  ELSE CHOOSE i \in IdleSlots : \A j \in IdleSlots : i <= j

SlotAt(n) == IF n \in DOMAIN slots THEN slots[n] ELSE NewSlot

\* slots with slot n changed, appended if it was just allocated.
WithSlot(n, slot) ==
  IF n \in DOMAIN slots THEN [slots EXCEPT ![n] = slot] ELSE Append(slots, slot)

\* Damage to bring a slot up to date with the committed picture.
CatchUp(slot) ==
  IF slot.generation = generation THEN {}
  ELSE IF HasMetadata(slot.generation) THEN DamageSince(slot.generation)
  ELSE Tiles

Idle == command.op = "idle"
NoCommand == [op |-> "idle"]

-----------------------------------------------------------------------------
(* Commands that do not touch the committed picture *)

NewResource == [pixels |-> Blank, pending |-> {}, exact |-> {}]

\* transferToHost into a resource: the tiles await a flush.  exact transfers
\* are of rectangles the paravirtual renderer is known to have written.
Transfer(r, tiles, color, exact) ==
  /\ Idle
  /\ resource' = [resource EXCEPT ![r] =
       [pixels |-> [t \in Tiles |-> IF t \in tiles THEN color ELSE @.pixels[t]],
        pending |-> @.pending \cup tiles,
        exact |-> IF exact THEN @.exact \cup tiles ELSE @.exact]]
  /\ UNCHANGED <<source, scanout, committedScanout, cursorState, command, client>>

\* setScanout with a resource: shown from the next flush on.
SetScanout(r, tiles) ==
  /\ Idle
  /\ scanout' = [resource |-> r, tiles |-> tiles]
  /\ UNCHANGED <<source, resource, committedScanout, cursorState, command, client>>

-----------------------------------------------------------------------------
(* Commands that replace the committed picture *)

\* clearCommittedFrame, first half: a slot is taken and cleared unlocked.
BeginClear(op) ==
  /\ LET n == UnpublishedSlot
     IN  /\ slots' = WithSlot(n, [SlotAt(n) EXCEPT !.pixels = Tear(Tiles, @)])
         /\ command' = [op |-> op, slot |-> n]
  /\ UNCHANGED <<committed, generation, hasFrame, history, cursorState, client>>

\* setScanout with resource 0.
BeginDisable ==
  /\ Idle
  /\ generation < MaxGeneration
  /\ scanout' = Nothing
  /\ committedScanout' = Nothing
  /\ UNCHANGED resource
  /\ BeginClear("disable")

\* unrefResource (the guest creates the resource anew, with no contents): the
\* screen goes dark if it showed this resource.
UnrefResource(r) ==
  /\ Idle
  /\ resource' = [resource EXCEPT ![r] = NewResource]
  /\ IF scanout # Nothing /\ scanout.resource = r
     THEN /\ generation < MaxGeneration
          /\ scanout' = Nothing
          /\ committedScanout' = Nothing
          /\ BeginClear("disable")
     ELSE UNCHANGED <<source, scanout, committedScanout, cursorState, command, client>>

\* reset drops the resources first, then clears.
BeginReset ==
  /\ Idle
  /\ generation < MaxGeneration
  /\ resource' = [r \in Resources |-> NewResource]
  /\ UNCHANGED <<scanout, committedScanout>>
  /\ BeginClear("reset")

ClearedSlot == [slots[command.slot] EXCEPT !.pixels = Blank, !.generation = Nothing]

\* The cleared slot becomes the committed picture.
EndDisable ==
  /\ command.op = "disable"
  /\ slots' = WithSlot(command.slot, ClearedSlot)
  /\ committed' = command.slot
  /\ Commit(Tiles)
  /\ command' = NoCommand
  /\ UNCHANGED <<guest, cursorState, client>>

\* A cursor surface nobody refers to any more is freed.
NoSurface == [pixels |-> Blank, leases |-> 0]

Unreferenced(surfaces, current) ==
  [i \in DOMAIN surfaces |->
     IF i # current /\ surfaces[i].leases = 0 THEN NoSurface ELSE surfaces[i]]

EndReset ==
  /\ command.op = "reset"
  /\ slots' = WithSlot(command.slot, ClearedSlot)
  /\ committed' = command.slot
  /\ scanout' = Nothing
  /\ committedScanout' = Nothing
  /\ cursor' = Nothing
  /\ cursorFrame' = Nothing
  /\ cursorSlots' = Unreferenced(cursorSlots, Nothing)
  /\ cursorGeneration' = Nothing
  /\ generation' = generation + 1
  /\ history' = <<>>
  /\ hasFrame' = FALSE
  /\ command' = NoCommand
  /\ UNCHANGED <<resource, client>>

-----------------------------------------------------------------------------
(* flushResource *)

\* geometryChanged compares rectangles only.
NeedsFullFrame ==
  ~hasFrame \/ committedScanout = Nothing \/ committedScanout.tiles # scanout.tiles

Shown == resource[scanout.resource]

\* The tiles an incremental flush copies: the transferred ones it covers.
Transferred(tiles) == Shown.pending \cap tiles \cap scanout.tiles

\* Of those, the exact ones are damage, the others only where they differ.
ChangedTiles(tiles, pixels) ==
  {t \in Transferred(tiles) : t \in Shown.exact \/ pixels[t] # Shown.pixels[t]}

\* A flush outside the scanout is acknowledged and changes nothing.  A full
\* frame starts from a cleared slot, any other from a copy of the picture.
BeginFlush(tiles) ==
  /\ Idle
  /\ generation < MaxGeneration
  /\ scanout # Nothing
  /\ tiles \cap scanout.tiles # {}
  /\ LET n == UnpublishedSlot
         slot == SlotAt(n)
         damage == IF NeedsFullFrame THEN Tiles ELSE CatchUp(slot)
     IN  /\ slots' = WithSlot(n, [slot EXCEPT !.pixels = Tear(damage, @)])
         /\ command' = [op |-> IF NeedsFullFrame THEN "full" ELSE "copy",
                        slot |-> n, damage |-> damage, tiles |-> tiles]
  /\ UNCHANGED <<committed, generation, hasFrame, history, guest, cursorState, client>>

\* The copy ends; the slot is of the committed generation, and the changed
\* tiles are written next.
EndCopy ==
  /\ command.op = "copy"
  /\ LET n == command.slot
         copied == CopyTiles(command.damage, slots[committed].pixels, slots[n].pixels)
         changed == ChangedTiles(command.tiles, copied)
     IN  /\ slots' = [slots EXCEPT ![n] = [@ EXCEPT !.pixels = Tear(changed, copied),
                                                    !.generation = generation]]
         /\ command' = [command EXCEPT !.op = "write", !.damage = changed]
  /\ UNCHANGED <<committed, generation, hasFrame, history, guest, cursorState, client>>

\* Bug: the flush forgets the transfers it did not cover.
ForgetfulFinishFlush(damage, pixels) ==
  /\ Commit(damage)
  /\ slots' = [slots EXCEPT ![command.slot] =
                  [@ EXCEPT !.pixels = pixels, !.generation = generation']]
  /\ committed' = command.slot
  /\ resource' = [resource EXCEPT ![scanout.resource] =
                    [@ EXCEPT !.pending = {}, !.exact = {}]]
  /\ committedScanout' = scanout
  /\ command' = NoCommand
  /\ UNCHANGED <<scanout, cursorState, client>>

\* The written slot is committed with its damage and its new generation.
FinishFlush(damage, pixels) ==
  /\ Commit(damage)
  /\ slots' = [slots EXCEPT ![command.slot] =
                  [@ EXCEPT !.pixels = pixels, !.generation = generation']]
  /\ committed' = command.slot
  /\ resource' = [resource EXCEPT ![scanout.resource] =
                    [Shown EXCEPT !.pending = @ \ command.tiles,
                                  !.exact = @ \ command.tiles]]
  /\ committedScanout' = scanout
  /\ command' = NoCommand
  /\ UNCHANGED <<scanout, cursorState, client>>

EndIncrementalFlush ==
  /\ command.op = "write"
  /\ FinishFlush(command.damage,
                 CopyTiles(command.damage, Shown.pixels, slots[command.slot].pixels))

\* Outside the flushed rectangle a full frame stays cleared.
EndFullFlush ==
  /\ command.op = "full"
  /\ FinishFlush(Tiles, CopyTiles(command.tiles \cap scanout.tiles, Shown.pixels, Blank))

-----------------------------------------------------------------------------
(* Cursor *)

CursorTiles(c) == IF c = Nothing THEN {} ELSE {c.tile} \cap Tiles

\* Bug: a moved cursor damages only its new place.
NewPlaceOnly(new) ==
  /\ cursor' = new
  /\ IF hasFrame THEN Commit(CursorTiles(new)) ELSE UNCHANGED <<generation, history, hasFrame>>
  /\ UNCHANGED <<slots, committed, guest, cursorSlots, cursorFrame, command, client>>

\* displayStateChanged: a cursor change is a commit without a new frame.
DisplayStateChanged(damage) ==
  IF hasFrame THEN Commit(damage) ELSE UNCHANGED <<generation, history, hasFrame>>

\* updateCursor, moveCursor and removal: the damage is where it was and is.
ChangeCursor(new) ==
  /\ cursor' = new
  /\ DisplayStateChanged(CursorTiles(cursor) \cup CursorTiles(new))
  /\ UNCHANGED <<slots, committed, guest, cursorSlots, cursorFrame, command, client>>

UpdateCursor(tile, image) ==
  /\ Idle
  /\ cursorGeneration' = Nothing
  /\ ChangeCursor([tile |-> tile, image |-> image])

MoveCursor(tile) ==
  /\ Idle
  /\ cursor # Nothing
  /\ UNCHANGED cursorGeneration
  /\ ChangeCursor([cursor EXCEPT !.tile = tile])

\* updateCursor with resource 0, or unref of the cursor's resource.
RemoveCursor ==
  /\ Idle
  /\ cursor # Nothing
  /\ UNCHANGED cursorGeneration
  /\ ChangeCursor(Nothing)

\* A transfer into the shown cursor's resource: refreshCursorPixels.
TransferCursor(image) ==
  /\ Idle
  /\ cursor # Nothing
  /\ cursor' = [cursor EXCEPT !.image = image]
  /\ cursorGeneration' = Nothing
  /\ UNCHANGED <<source, guest, cursorSlots, cursorFrame, command, client>>

\* Source-over of a cursor image, distinct for every image and pixel.
Blend(image, pixel) == 10 * image + pixel

\* compositeCursor: the cursor blended into the damaged tiles it covers.
Composite(damage, pixels) ==
  [t \in Tiles |-> IF t \in CursorTiles(cursor) \cap damage
                   THEN Blend(cursor.image, pixels[t]) ELSE pixels[t]]

\* Bug: the surface is composed in place under a lease.
AlwaysReusable == cursorFrame # Nothing

\* prepareCursorFrame reuses its surface only when no lease holds it.
CursorReusable == cursorFrame # Nothing /\ cursorSlots[cursorFrame].leases = 0

CursorTarget ==
  IF CursorReusable THEN cursorFrame
  ELSE CHOOSE i \in DOMAIN cursorSlots : i # cursorFrame /\ cursorSlots[i].leases = 0

\* A new surface starts as a copy of the previous one.
CursorBase == IF cursorFrame = Nothing THEN Blank ELSE cursorSlots[cursorFrame].pixels

CursorDamage ==
  IF cursorGeneration = Nothing THEN Tiles
  ELSE IF cursorGeneration = generation THEN {}
  ELSE DamageSince(cursorGeneration)

CursorPixels ==
  Composite(CursorDamage, CopyTiles(CursorDamage, slots[committed].pixels, CursorBase))

-----------------------------------------------------------------------------
(* Consumers *)

\* frameLease without a cursor: the committed slot itself.
LeaseSlot(c, previous) ==
  /\ cursor = Nothing
  /\ slots' = [slots EXCEPT ![committed].leases = @ + 1]
  /\ client' = [client EXCEPT ![c].lease =
        [surface |-> "slot", index |-> committed, generation |-> generation,
         damage |-> DamageSince(previous), taken |-> slots[committed].pixels]]
  /\ UNCHANGED <<cursorSlots, cursorFrame, cursorGeneration>>

\* With a cursor: the surface prepareCursorFrame composed.
LeaseCursor(c, previous) ==
  /\ cursor # Nothing
  /\ cursorSlots' = Unreferenced(
       [cursorSlots EXCEPT ![CursorTarget] = [pixels |-> CursorPixels, leases |-> 1]],
       CursorTarget)
  /\ cursorFrame' = CursorTarget
  /\ cursorGeneration' = generation
  /\ client' = [client EXCEPT ![c].lease =
        [surface |-> "cursor", index |-> CursorTarget, generation |-> generation,
         damage |-> DamageSince(previous), taken |-> CursorPixels]]
  /\ UNCHANGED slots

\* frameLease(afterGeneration:).  A consumer asks for the damage since its
\* texture's generation, or for everything.
Acquire(c) ==
  /\ client[c].lease = Nothing
  /\ \E previous \in {Nothing, client[c].generation} :
       /\ HasMetadata(previous)
       /\ LeaseSlot(c, previous) \/ LeaseCursor(c, previous)
  /\ UNCHANGED <<committed, generation, hasFrame, history, guest, cursor, command>>

\* The pixels behind a lease, now.
Leased(l) == IF l.surface = "slot" THEN slots[l.index].pixels ELSE cursorSlots[l.index].pixels

\* The lease's deinit: releaseHandler.
ReleaseSurface(l) ==
  IF l.surface = "slot"
  THEN /\ slots' = [slots EXCEPT ![l.index].leases = @ - 1]
       /\ UNCHANGED cursorSlots
  ELSE /\ cursorSlots' = Unreferenced([cursorSlots EXCEPT ![l.index].leases = @ - 1],
                                      cursorFrame)
       /\ UNCHANGED slots

\* The consumer copies the damage into its texture and releases the lease.
Upload(c) ==
  LET l == client[c].lease
      old == IF client[c].texture = Nothing THEN Blank ELSE client[c].texture
  IN  /\ l # Nothing
      /\ client' = [client EXCEPT ![c] =
            [lease |-> Nothing, generation |-> l.generation,
             texture |-> CopyTiles(l.damage, Leased(l), old)]]
      /\ ReleaseSurface(l)
      /\ UNCHANGED <<committed, generation, hasFrame, history, guest,
                     cursor, cursorFrame, cursorGeneration, command>>

\* The upload failed: its texture is no baseline for later damage.
Abandon(c) ==
  /\ client[c].lease # Nothing
  /\ client' = [client EXCEPT ![c] =
        [lease |-> Nothing, generation |-> Nothing, texture |-> Nothing]]
  /\ ReleaseSurface(client[c].lease)
  /\ UNCHANGED <<committed, generation, hasFrame, history, guest,
                 cursor, cursorFrame, cursorGeneration, command>>

-----------------------------------------------------------------------------

Init ==
  /\ slots = <<NewSlot>>
  /\ committed = 1
  /\ generation = 0
  /\ hasFrame = FALSE
  /\ history = <<>>
  /\ resource = [r \in Resources |-> NewResource]
  /\ scanout = Nothing
  /\ committedScanout = Nothing
  /\ cursor = Nothing
  /\ cursorSlots = [i \in 1..(Cardinality(Clients) + 1) |-> NoSurface]
  /\ cursorFrame = Nothing
  /\ cursorGeneration = Nothing
  /\ command = NoCommand
  /\ client = [c \in Clients |-> [lease |-> Nothing, texture |-> Nothing,
                                  generation |-> Nothing]]

GuestCommand ==
  \/ \E r \in Resources, tiles \in Rectangles, color \in Colors, exact \in ExactTransfers :
       Transfer(r, tiles, color, exact)
  \/ \E r \in Resources, tiles \in Screens : SetScanout(r, tiles)
  \/ \E r \in Resources : UnrefResource(r)
  \/ \E tiles \in Rectangles : BeginFlush(tiles)
  \/ \E tile \in Tiles, image \in Images : UpdateCursor(tile, image)
  \/ \E tile \in Tiles : MoveCursor(tile)
  \/ \E image \in Images : TransferCursor(image)
  \/ BeginDisable \/ BeginReset \/ RemoveCursor

EndPixelWork ==
  EndDisable \/ EndReset \/ EndCopy \/ EndIncrementalFlush \/ EndFullFlush

Consume == \E c \in Clients : Acquire(c) \/ Upload(c) \/ Abandon(c)

Next == GuestCommand \/ EndPixelWork \/ Consume

Spec == Init /\ [][Next]_vars

-----------------------------------------------------------------------------
(* Properties *)

Generations == 0..MaxGeneration

\* Slots, surfaces and records refer to things that exist.
TypeOK ==
  /\ committed \in DOMAIN slots
  /\ \A i \in DOMAIN slots : slots[i].leases \in 0..Cardinality(Clients)
  /\ generation \in Generations
  /\ \A i \in DOMAIN history : history[i].generation \in Generations
  /\ Len(history) <= MaximumDamageHistory
  /\ cursorFrame \in DOMAIN cursorSlots \cup {Nothing}

\* A lease shows what it showed when it was taken, whatever the guest draws,
\* flushes, clears or resets while it is held: unpublishedFrame and
\* prepareCursorFrame never write into a surface with leases.
LeasesImmutable ==
  \A c \in Clients :
    client[c].lease # Nothing => Leased(client[c].lease) = client[c].lease.taken

\* The picture a reader can lease is never half-written, although commands
\* write pixels with the metadata lock released.
PictureNeverTorn == \A t \in Tiles : slots[committed].pixels[t] # Torn

\* Every slot but the committed one and the one being prepared is there
\* because a lease once needed it: leases, not flushes, grow the pool.
PoolBounded == Len(slots) <= Cardinality(Clients) + 2

\* With one resource to show, a tile whose transfers have all been flushed
\* shows the resource or, after a change of geometry that only part of the
\* screen was flushed for, black; never an earlier picture of the resource.
NoStalePixels ==
  (Idle /\ hasFrame /\ scanout # Nothing /\ committedScanout = scanout) =>
    \A t \in scanout.tiles \ Shown.pending :
      slots[committed].pixels[t] \in {Shown.pixels[t], Black}

\* A reader can lease at any moment, and what it leases is a finished picture
\* of what the guest drew: never half of one, never one that a later flush of
\* the same tile has replaced; and no sequence of flushes makes the pool grow.
PictureIsCurrent == TypeOK /\ PictureNeverTorn /\ NoStalePixels /\ PoolBounded

\* "The source accumulates damage from the slot's last successful upload"
\* (FramePresentationScheduler.swift): outside a lease's damage the
\* consumer's texture already shows what the lease shows.
DamageFromLastUpload ==
  \A c \in Clients :
    LET l == client[c].lease
    IN  (l # Nothing /\ client[c].texture # Nothing) =>
          CopyTiles(l.damage, l.taken, client[c].texture) = l.taken

\* The picture of FrameSource: the committed slot under the cursor.
Picture == IF hasFrame THEN Composite(Tiles, slots[committed].pixels) ELSE Nothing

Source == INSTANCE FrameSource WITH
  picture <- Picture,
  leased <- [c \in Clients |-> IF client[c].lease = Nothing THEN Nothing
                               ELSE client[c].lease.taken],
  texture <- [c \in Clients |-> client[c].texture]

\* Leasing slots and copying only the damage is indistinguishable from
\* copying each picture whole: a texture brought up to date by damage, from
\* however old a generation, equals the picture that was leased.
CopiesWholePictures == Source!Spec
=============================================================================
