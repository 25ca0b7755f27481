---------------------------- MODULE Framebuffer ----------------------------
(***************************************************************************)
(* The pixel routines of the native core (ARM64VizFramebuffer.c): parameter *)
(* checks in machine words, conversion to BGRA, sampling for a scaled draw,*)
(* blending along the scalar and the vector paths, and the commit of a     *)
(* rectangle by dirty tiles with its list of damage.                       *)
(*                                                                         *)
(* A job is one call.  Pixels of a rectangle are independent, so a draw is *)
(* a color channel and an alpha, and a commit is the set of pixels in      *)
(* which source and destination differ.                                    *)
(***************************************************************************)
EXTENDS Integers, Sequences, FiniteSets, FiniteSetsExt

CONSTANTS
    WordMax,        \* SIZE_MAX
    MaxExtent,      \* largest extent of a scaled draw
    FractionBits,   \* 16: fixed-point fraction of a bilinear position
    Channels,       \* values of a channel, of 0 .. 255
    Width, Height,  \* of a committed rectangle
    TileWidth, TileHeight,
    Capacities      \* lengths of the damage list

VARIABLES
    job,        \* the call
    copied,     \* commit: pixels the destination has taken from the source
    tiles,      \* commit: tiles still to compare
    rects,      \* commit: damage_rects
    result      \* what the call has returned

vars == <<job, copied, tiles, rects, result>>
None == <<>>
Pixels == (0 .. Width - 1) \X (0 .. Height - 1)
Words == 0 .. WordMax
-----------------------------------------------------------------------------
(* Parameter checks.                                                       *)

\* Mutant: the sum may wrap around.
FitsWrapped(x, extent, stride) == extent # 0 /\ (x + extent) % (WordMax + 1) <= stride \div 4
\* A row of `extent` pixels from x on lies within the stride.
Fits(x, extent, stride) == extent # 0 /\ ~(x > WordMax - extent) /\ (x + extent) % (WordMax + 1) <= stride \div 4
LayoutIsValid(stride, width, height) ==
    /\ width # 0 /\ height # 0 /\ ~(width > WordMax \div 4)
    /\ stride >= width * 4 /\ height <= WordMax \div stride
-----------------------------------------------------------------------------
(* Conversion to BGRA.  Byte n of a pixel is the n-th letter of the format's*)
(* name; X is a byte without meaning, "1" an opaque alpha.                 *)

Formats == {"BGRA", "BGRX", "ARGB", "XRGB", "RGBA", "XBGR", "ABGR", "RGBX"}
Bytes(format) == CASE format = "BGRA" -> <<"B", "G", "R", "A">> [] format = "BGRX" -> <<"B", "G", "R", "X">>
                   [] format = "ARGB" -> <<"A", "R", "G", "B">> [] format = "XRGB" -> <<"X", "R", "G", "B">>
                   [] format = "RGBA" -> <<"R", "G", "B", "A">> [] format = "XBGR" -> <<"X", "B", "G", "R">>
                   [] format = "ABGR" -> <<"A", "B", "G", "R">> [] format = "RGBX" -> <<"R", "G", "B", "X">>
Opaque == "1"
\* normalize_bgra8: the bytes c0 .. c3 of a pixel, rearranged.
Normalized(format, c) ==
    CASE format = "BGRA" -> c
      [] format = "BGRX" -> <<c[1], c[2], c[3], Opaque>>
      [] format = "ARGB" -> <<c[4], c[3], c[2], c[1]>>
      [] format = "XRGB" -> <<c[4], c[3], c[2], Opaque>>
      [] format = "RGBA" -> <<c[3], c[2], c[1], c[4]>>
      [] format = "XBGR" -> <<c[2], c[3], c[4], Opaque>>
      [] format = "ABGR" -> <<c[2], c[3], c[4], c[1]>>
      [] format = "RGBX" -> <<c[3], c[2], c[1], Opaque>>
-----------------------------------------------------------------------------
(* Sampling.                                                               *)

\* scaled_coordinate: the source pixel under destination pixel p.
ScaledCoordinate(p, source, destination) ==
    LET quotient == source \div destination
        remainder == source % destination
    IN p * quotient + (p * remainder + remainder \div 2) \div destination
\* bilinear_position: where destination pixel p falls, between source pixels.
One == 2 ^ FractionBits
BilinearPosition(p, source, destination) ==
    LET position == ((p * 2 + 1) * source * (One \div 2)) \div destination
        maximum == (source - 1) * One
    IN IF position <= One \div 2 THEN 0 ELSE Min({position - One \div 2, maximum})
\* bilinear_sample: the two pixels of a row it weighs, and the second's weight.
BilinearSample(p, source, destination) ==
    LET fixed == BilinearPosition(p, source, destination)
        left == fixed \div One
    IN [left |-> left, right |-> IF left + 1 < source THEN left + 1 ELSE left, weight |-> fixed % One]
\* The value of a channel between two pixels.
Weighed(near, far, weight) == (near * (One - weight) + far * weight + One \div 2) \div One
-----------------------------------------------------------------------------
(* Blending.  A pixel is <<channel, alpha>>, premultiplied.                *)

U8(x) == x % 256
U16(x) == x % 65536
Clamped(x) == IF x > 255 THEN 255 ELSE U8(x)
\* A function of the front and of the back, in the channel and in the alpha.
Each(F(_, _), f, b) == <<F(f[1], b[1]), F(f[2], b[2])>>
\* multiply_255: a product of two fractions of 255, rounded.
Multiply255(value, alpha) == LET product == value * alpha + 128 IN U8((product + product \div 256) \div 256)
\* Mutant: the lanes of a vector truncate.
DivideLaneDown(value) == U8(U16(value + 128) \div 256)
\* divide_255_round, in the lanes of a vector: 16-bit sums.
DivideLane(value) == LET sum == U16(value + 128) IN U8(U16(sum + sum \div 256) \div 256)

ScalarOver(f, b) ==
    LET Blend(c, d) == LET product == d * (255 - f[2]) + 128 IN Clamped(c + (product + product \div 256) \div 256)
    IN Each(Blend, f, b)
VectorOver(f, b) ==
    LET Blend(c, d) == Clamped(c + DivideLane(d * (255 - f[2]))) IN Each(Blend, f, b)
ScaledOver(f, b) ==
    LET Blend(c, d) == LET product == U16(U16(d * (255 - f[2])) + 128)
                       IN Clamped(U16(c + (product + product \div 256) \div 256))
    IN Each(Blend, f, b)
\* fill_over: an opaque color does not read the destination.
FillOver(f, b) == IF f[2] = 255 THEN f ELSE ScalarOver(f, b)
MaskedOver(f, coverage, b) ==
    LET m == <<Multiply255(f[1], coverage), Multiply255(f[2], coverage)>>
        Blend(c, d) == Clamped(c + Multiply255(d, 255 - m[2]))
    IN Each(Blend, m, b)
GlyphOver(f, coverage, b) ==
    LET inverse == 255 - DivideLane(f[2] * coverage)
        Blend(c, d) == Clamped(DivideLane(c * coverage) + DivideLane(d * inverse))
    IN Each(Blend, f, b)

\* composite_bgra8: the operators of Pixman by their factors.
SourceFactor(operator, alpha) ==
    CASE operator \in {"overReverse", "out", "atopReverse", "xor"} -> 255 - alpha
      [] operator \in {"in", "atop"} -> alpha
      [] operator \in {"inReverse", "outReverse"} -> 0
      [] OTHER -> 255
DestinationFactor(operator, covered) ==
    CASE operator = "overReverse" -> 255
      [] operator \in {"in", "out"} -> 0
      [] operator \in {"inReverse", "atopReverse"} -> covered
      [] OTHER -> 255 - covered
Operators == {"clear", "source", "destination", "over", "overReverse", "in", "inReverse", "out", "outReverse",
              "atop", "atopReverse", "xor", "add"}
Composite(operator, f, coverage, b) ==
    LET m == <<Multiply255(f[1], coverage), Multiply255(f[2], coverage)>>
        Blend(c, d) == Clamped(Multiply255(c, SourceFactor(operator, b[2])) + Multiply255(d, DestinationFactor(operator, m[2])))
        Add(c, d) == Clamped(c + d)
    IN CASE operator = "clear" -> <<0, 0>>
         [] operator = "destination" -> b
         [] operator = "source" -> m
         [] operator = "add" -> Each(Add, m, b)
         [] OTHER -> Each(Blend, m, b)
\* What each path makes of a pixel over another, through a mask.
Drawn(f, coverage, b) ==
    [masked |-> MaskedOver(f, coverage, b), composite |-> Composite("over", f, coverage, b), glyph |-> GlyphOver(f, coverage, b)]
DrawnUnmasked(f, b) ==
    [scalar |-> ScalarOver(f, b), vector |-> VectorOver(f, b), scaled |-> ScaledOver(f, b), fill |-> FillOver(f, b),
     masked |-> MaskedOver(f, 255, b)]
-----------------------------------------------------------------------------
(* The calls.                                                              *)

Check ==
    /\ job.call = "check" /\ result = None
    /\ result' = <<Fits(job.x, job.extent, job.stride), LayoutIsValid(job.stride, job.extent, job.x)>>
    /\ UNCHANGED <<job, copied, tiles, rects>>
Normalize ==
    /\ job.call = "normalize" /\ result = None
    /\ result' = Normalized(job.format, Bytes(job.format))
    /\ UNCHANGED <<job, copied, tiles, rects>>
Scale ==
    /\ job.call = "scale" /\ result = None
    /\ result' = [p \in 1 .. job.destination |->
                    [nearest |-> ScaledCoordinate(p - 1, job.source, job.destination),
                     bilinear |-> BilinearSample(p - 1, job.source, job.destination)]]
    /\ UNCHANGED <<job, copied, tiles, rects>>
Draw ==
    /\ job.call = "draw" /\ result = None
    /\ result' = <<Drawn(job.f, job.coverage, job.b), DrawnUnmasked(job.f, job.b),
                   [o \in Operators |-> Composite(o, job.f, job.coverage, job.b)]>>
    /\ UNCHANGED <<job, copied, tiles, rects>>

Area(r) == (r.x .. r.x + r.w - 1) \X (r.y .. r.y + r.h - 1)
Whole == [x |-> 0, y |-> 0, w |-> Width, h |-> Height]
\* The tiles of the rectangle in the order they are compared.
Columns == (Width + TileWidth - 1) \div TileWidth
TileCount == Columns * ((Height + TileHeight - 1) \div TileHeight)
Tile(n) ==
    LET x == (n % Columns) * TileWidth
        y == (n \div Columns) * TileHeight
    IN [x |-> x, y |-> y, w |-> Min({TileWidth, Width - x}), h |-> Min({TileHeight, Height - y})]
\* The smallest rectangle around the pixels of a tile that differ.
Around(S) ==
    LET xs == {p[1] : p \in S}
        ys == {p[2] : p \in S}
    IN [x |-> Min(xs), y |-> Min(ys), w |-> Max(xs) - Min(xs) + 1, h |-> Max(ys) - Min(ys) + 1]

\* One tile: unchanged, copied, or one more than the list can hold, which
\* copies the whole rectangle and ends the call.
CommitTile ==
    /\ job.call = "commit" /\ result = None /\ tiles < TileCount
    /\ LET differs == job.changed \cap Area(Tile(tiles))
           r == Around(differs)
       IN \/ /\ differs = {}
             /\ tiles' = tiles + 1 /\ UNCHANGED <<copied, rects, result>>
          \/ /\ differs # {} /\ Len(rects) < job.capacity
             /\ copied' = copied \cup Area(r)
             /\ rects' = Append(rects, r)
             /\ tiles' = tiles + 1 /\ UNCHANGED result
          \/ /\ differs # {} /\ Len(rects) = job.capacity
             /\ copied' = Area(Whole)
             /\ rects' = <<Whole>>
             /\ result' = <<Width * Height>>
             /\ UNCHANGED tiles
    /\ UNCHANGED job

\* Mutant: rectangles that overlap in the other direction merge too.
MergesLoosely(a, b) == (a.y = b.y /\ a.x + a.w >= b.x /\ b.x + b.w >= a.x) \/ (a.x = b.x /\ a.w = b.w /\ a.y + a.h >= b.y /\ b.y + b.h >= a.y)
\* merge_damage: two rectangles of one row or one column that touch.
Merges(a, b) ==
    \/ a.y = b.y /\ a.h = b.h /\ a.x + a.w >= b.x /\ b.x + b.w >= a.x
    \/ a.x = b.x /\ a.w = b.w /\ a.y + a.h >= b.y /\ b.y + b.h >= a.y
Merged(a, b) == Around(Area(a) \cup Area(b))
Pairs == {<<i, j>> \in (1 .. Len(rects)) \X (1 .. Len(rects)) : i < j /\ Merges(rects[i], rects[j])}
Earlier(p, q) == p[1] < q[1] \/ (p[1] = q[1] /\ p[2] <= q[2])
\* compact_damage: the first pair merges; the last rectangle takes the free place.
CompactDamage ==
    /\ job.call = "commit" /\ result = None /\ tiles = TileCount /\ Pairs # {}
    /\ LET p == CHOOSE p \in Pairs : \A q \in Pairs : Earlier(p, q)
           merged == [rects EXCEPT ![p[1]] = Merged(rects[p[1]], rects[p[2]]), ![p[2]] = rects[Len(rects)]]
       IN rects' = SubSeq(merged, 1, Len(rects) - 1)
    /\ UNCHANGED <<job, copied, tiles, result>>
Bytecount(rs) == FoldSet(LAMBDA n, sum : sum + rs[n].w * rs[n].h, 0, 1 .. Len(rs))
Committed ==
    /\ job.call = "commit" /\ result = None /\ tiles = TileCount /\ Pairs = {}
    /\ result' = <<Bytecount(rects)>>
    /\ UNCHANGED <<job, copied, tiles, rects>>

Jobs ==
    [call : {"check"}, x : Words, extent : Words, stride : Words]
    \cup [call : {"normalize"}, format : Formats]
    \cup [call : {"scale"}, source : 1 .. MaxExtent, destination : 1 .. MaxExtent]
    \cup [call : {"draw"}, f : {p \in Channels \X Channels : p[1] <= p[2]}, coverage : Channels,
          b : {p \in Channels \X Channels : p[1] <= p[2]}]
    \cup [call : {"commit"}, changed : SUBSET Pixels, capacity : Capacities]
Init ==
    /\ job \in Jobs
    /\ copied = {} /\ tiles = 0 /\ rects = <<>> /\ result = None
Next == Check \/ Normalize \/ Scale \/ Draw \/ CommitTile \/ CompactDamage \/ Committed
Spec == Init /\ [][Next]_vars
-----------------------------------------------------------------------------
Ended(call) == job.call = call /\ result # None

\* After a commit the destination equals the source, the damage is exactly what
\* was written, it fits in the caller's list, and no pixel is counted twice,
\* however the rectangles were merged.
CommitExact ==
    Ended("commit") =>
        /\ job.changed \subseteq copied
        /\ UNION {Area(rects[n]) : n \in 1 .. Len(rects)} = copied
        /\ Len(rects) <= job.capacity
        /\ result = <<Cardinality(copied)>>

\* A call whose parameters pass the checks stays in its rows, words that wrap
\* around included; a scaled draw samples the source only, in order, and at
\* scale one every pixel is its own sample.
SamplesInside ==
    /\ Ended("check") => /\ result[1] => job.x + job.extent <= job.stride \div 4
                         /\ result[2] => job.x * job.stride <= WordMax
    /\ Ended("scale") =>
         \A p \in 1 .. job.destination :
            /\ result[p].nearest \in 0 .. job.source - 1
            /\ {result[p].bilinear.left, result[p].bilinear.right} \subseteq 0 .. job.source - 1
            /\ p > 1 => result[p - 1].nearest <= result[p].nearest /\ result[p - 1].bilinear.left <= result[p].bilinear.left
            /\ job.source = job.destination =>
                 result[p].nearest = p - 1 /\ result[p].bilinear.left = p - 1 /\ result[p].bilinear.weight = 0
            /\ \A c \in Channels : Weighed(c, c, result[p].bilinear.weight) = c

\* Every path that draws one pixel over another makes the same pixel of them,
\* rounding included; the result is premultiplied and an opaque surface stays
\* opaque; a converted pixel is in the order its format's name says.
Nearest255(value, alpha) == (2 * value * alpha + 255) \div 510
PathsAgree ==
    /\ Ended("draw") =>
         LET m == <<Nearest255(job.f[1], job.coverage), Nearest255(job.f[2], job.coverage)>>
             exact(top) == [n \in 1 .. 2 |-> Min({255, top[n] + Nearest255(job.b[n], 255 - top[2])})]
         IN /\ \A path \in DOMAIN result[1] : result[1][path] = exact(m)
            /\ \A path \in DOMAIN result[2] : result[2][path] = exact(job.f)
            /\ \A o \in Operators : result[3][o][1] <= result[3][o][2]
            /\ job.b[2] = 255 => result[3]["over"][2] = 255 /\ result[3]["atop"][2] = 255
    /\ Ended("normalize") =>
         LET names == {Bytes(job.format)[n] : n \in 1 .. 4}
         IN result = <<"B", "G", "R", IF "A" \in names THEN "A" ELSE Opaque>>
=============================================================================
