------------------------------- MODULE MCFrames -------------------------------
(* Two instances of FrameSlots and the pixel routines they rest on, one in   *)
(* focus at a time: one consumer of a screen that is drawn in two colours,   *)
(* two consumers of a screen with a cursor, and calls of Framebuffer.        *)
EXTENDS FrameSlots

VARIABLES focus, job, copied, tiles, rects, result

(* The two consumers are interchangeable: no action or property names one.   *)
InterchangeableClients == Permutations(Clients)

(* The screen that is drawn in two colours has one consumer at a time.       *)
OneConsumer ==
  \E c \in Clients : \A other \in Clients \ {c} :
    client'[other] = [lease |-> Nothing, texture |-> Nothing, generation |-> Nothing]

(* The screen with a cursor.                                                 *)
WithCursor == INSTANCE FrameSlots WITH
  Colors <- {1}, Images <- {1}, Rectangles <- {{1}}, Screens <- {{1}, {1, 2}},
  ExactTransfers <- {TRUE}, MaxGeneration <- 2

(* Rectangles of a surface of 4 by 3 pixels in tiles of 2 by 2, and channel  *)
(* values around the ends, the middle and the rounding points.               *)
Pixels == INSTANCE Framebuffer WITH
  WordMax <- 15, MaxExtent <- 9, FractionBits <- 8,
  Channels <- {0, 1, 2, 100, 127, 128, 200, 254, 255},
  Width <- 4, Height <- 3, TileWidth <- 2, TileHeight <- 2, Capacities <- {1, 3}

pixelVars == <<job, copied, tiles, rects, result>>

MCInit ==
  \/ /\ focus = "slots" /\ Init
     /\ job = [call |-> "none"] /\ copied = {} /\ tiles = 0 /\ rects = <<>> /\ result = <<>>
  \/ /\ focus = "cursor" /\ WithCursor!Init
     /\ job = [call |-> "none"] /\ copied = {} /\ tiles = 0 /\ rects = <<>> /\ result = <<>>
  \/ focus = "pixels" /\ Init /\ Pixels!Init

MCNext ==
  \/ focus = "slots" /\ Next /\ OneConsumer /\ UNCHANGED <<focus, pixelVars>>
  \/ focus = "cursor" /\ WithCursor!Next /\ UNCHANGED <<focus, pixelVars>>
  \/ focus = "pixels" /\ Pixels!Next /\ UNCHANGED <<focus, vars>>

MCSpec == MCInit /\ [][MCNext]_<<focus, vars, pixelVars>>

(* Both instances have the same tiles and consumers, on which alone          *)
(* LeasesImmutable, PictureIsCurrent and CopiesWholePictures depend, but for *)
(* the bounds of TypeOK: the properties of FrameSlots hold of either.        *)

(* avz_framebuffer: a commit copies and reports exactly the damage, a       *)
(* scaled draw samples inside its source, and all paths blend alike.        *)
PixelsExact == Pixels!CommitExact /\ Pixels!SamplesInside /\ Pixels!PathsAgree
================================================================================
