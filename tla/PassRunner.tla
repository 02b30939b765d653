----------------------------- MODULE PassRunner -----------------------------
(***************************************************************************)
(* run_pass of src/pass_runner.cpp: one kernel invocation for each pixel,  *)
(* in raster order.  A kernel that uses screen-space derivatives is first  *)
(* invoked for the four corners of the 2x2 quad of the pixel; the records  *)
(* are kept until the last pixel of the quad is done.  The image is stored *)
(* from its top row, fragment coordinates count from the bottom row.       *)
(*                                                                         *)
(* The kernel retains its output between invocations, so their order can   *)
(* be observed.  What a record holds is abstracted to the place it was     *)
(* recorded at.                                                            *)
(***************************************************************************)
EXTENDS Integers, Sequences, FiniteSets

CONSTANT Extents     \* widths and heights, as Surface admits them

ASSUME ExtentsAssumption == Extents \subseteq (Nat \ {0}) \X (Nat \ {0})

VARIABLES
    width, height,
    derivatives,  \* kernel.uses_derivatives
    x, y,         \* the pixel, in the order of the image
    phase,        \* "visit"; "probe" and "replay" within a visit; "done"
    lane,         \* the next corner to probe
    cache,        \* corner records, by cache_index
    calls,        \* history: the kernel invocations
    stored        \* the image: what each pixel stored was computed from

vars == <<width, height, derivatives, x, y, phase, lane, cache, calls, stored>>

-----------------------------------------------------------------------------

\* Faulty variant: the rows are not turned round.
PixelYUnturned == y

PixelY == height - 1 - y

QuadsAcross == (width + 1) \div 2
QuadX == x \div 2
QuadY == PixelY \div 2
CacheIndex == QuadY * QuadsAcross + QuadX

\* Where corner number l of the quad of the pixel is probed: maybe one pixel
\* outside of the image.
Corner(l) == <<2 * QuadX + (l % 2), 2 * QuadY + (l \div 2)>>

NotRecorded == <<>>

Call(mode, at) == [mode |-> mode, at |-> at]

Init ==
    /\ \E e \in Extents : width = e[1] /\ height = e[2]
    /\ derivatives \in BOOLEAN
    /\ x = 0 /\ y = 0
    /\ phase = "visit"
    /\ lane = 0
    /\ cache = <<>>
    /\ calls = <<>>
    /\ stored = <<>>

\* The loops over rows and columns.
Advance ==
    /\ x' = IF x + 1 < width THEN x + 1 ELSE 0
    /\ y' = IF x + 1 < width THEN y ELSE y + 1
    /\ phase' = IF x + 1 < width \/ y + 1 < height THEN "visit" ELSE "done"

StorePixel(from) ==
    stored' = [p \in DOMAIN stored \cup {<<x, y>>} |-> IF p = <<x, y>> THEN from ELSE stored[p]]

\* A kernel without derivatives.
RunPixel ==
    /\ phase = "visit" /\ ~derivatives
    /\ calls' = Append(calls, Call("plain", <<x, PixelY>>))
    /\ StorePixel([at |-> <<x, PixelY>>, corners |-> <<>>])
    /\ Advance
    /\ UNCHANGED <<width, height, derivatives, lane, cache>>

\* try_emplace: a quad that is not in the cache is to be probed.
VisitPixel ==
    /\ phase = "visit" /\ derivatives
    /\ IF CacheIndex \in DOMAIN cache
       THEN phase' = "replay" /\ UNCHANGED cache
       ELSE /\ phase' = "probe"
            /\ cache' = [i \in DOMAIN cache \cup {CacheIndex} |->
                           IF i = CacheIndex THEN [l \in 0 .. 3 |-> NotRecorded] ELSE cache[i]]
    /\ lane' = 0
    /\ UNCHANGED <<width, height, derivatives, x, y, calls, stored>>

Probe ==
    /\ phase = "probe"
    /\ calls' = Append(calls, Call("record", Corner(lane)))
    /\ cache' = [cache EXCEPT ![CacheIndex][lane] = Corner(lane)]
    /\ lane' = lane + 1
    /\ phase' = IF lane = 3 THEN "replay" ELSE "probe"
    /\ UNCHANGED <<width, height, derivatives, x, y, stored>>

\* Faulty variant: rows and columns of the quad are mixed up.
DifferencesTransposed(corner) ==
    [left |-> corner[2 * (x % 2)], right |-> corner[2 * (x % 2) + 1],
     bottom |-> corner[PixelY % 2], top |-> corner[(PixelY % 2) + 2]]

\* The records that the derivatives of the pixel are differences of.
Differences(corner) ==
    [left |-> corner[2 * (PixelY % 2)], right |-> corner[2 * (PixelY % 2) + 1],
     bottom |-> corner[x % 2], top |-> corner[(x % 2) + 2]]

\* Faulty variants: a quad is dropped in its upper row, or never at the right
\* edge of an odd width.
EvictsInUpperRow == (x % 2 = 1 \/ x = width - 1) /\ (PixelY % 2 = 1 \/ PixelY = height - 1)
EvictsOnlyPairs  == x % 2 = 1 /\ (PixelY % 2 = 0 \/ PixelY = 0)

\* The last pixel of its quad: rows are visited from the top one down.
Evicts == (x % 2 = 1 \/ x = width - 1) /\ (PixelY % 2 = 0 \/ PixelY = 0)

Replay ==
    /\ phase = "replay"
    /\ calls' = Append(calls, Call("replay", <<x, PixelY>>))
    /\ StorePixel([at |-> <<x, PixelY>>, corners |-> Differences(cache[CacheIndex])])
    /\ cache' = IF Evicts THEN [i \in DOMAIN cache \ {CacheIndex} |-> cache[i]] ELSE cache
    /\ Advance
    /\ UNCHANGED <<width, height, derivatives, lane>>

Returned == phase = "done" /\ UNCHANGED vars

Next == RunPixel \/ VisitPixel \/ Probe \/ Replay \/ Returned

Spec == Init /\ [][Next]_vars

-----------------------------------------------------------------------------
\* The pixels, by fragment coordinates, and the quads of the image.

Columns == 0 .. width - 1
Rows    == 0 .. height - 1
Quads   == (0 .. (width - 1) \div 2) \X (0 .. (height - 1) \div 2)
Members(q) == {p \in Columns \X Rows : p[1] \div 2 = q[1] /\ p[2] \div 2 = q[2]}

\* Fragments that are computed, and those that are, or are just being.
Finished(p) == <<p[1], height - 1 - p[2]>> \in DOMAIN stored
Started(p)  == Finished(p) \/ (phase \in {"probe", "replay"} /\ p = <<x, height - 1 - y>>)

TypeOK ==
    /\ <<width, height>> \in Extents
    /\ derivatives \in BOOLEAN
    /\ x \in Columns
    /\ y \in 0 .. height
    /\ phase \in {"visit", "probe", "replay", "done"}
    /\ phase = "done" <=> y = height
    /\ phase \in {"probe", "replay"} => derivatives
    /\ lane \in 0 .. 4
    /\ phase = "probe" => lane < 4

\* The cache holds the records of exactly the quads that have been started
\* and are not finished, whatever the parity of the extent: the records are
\* never recorded twice and never kept longer than needed, so that what
\* cache.reserve asks for, one row of quads, is enough.
CacheHoldsOpenQuads ==
    /\ DOMAIN cache = {q[2] * QuadsAcross + q[1] :
          q \in {r \in Quads : derivatives /\ (\E p \in Members(r) : Started(p))
                                           /\ (\E p \in Members(r) : ~Finished(p))}}
    /\ Cardinality(DOMAIN cache) <= (width + 1) \div 2

\* dFdx is a difference along the row of the pixel and dFdy along its column:
\* the records replayed are those of its own quad, at its own row and column.
ReplaysOwnCorners ==
    derivatives =>
      \A i \in DOMAIN stored :
        LET at == stored[i].at
            c  == stored[i].corners
            even(n) == n - (n % 2)
        IN  /\ c.left   = <<even(at[1]), at[2]>> /\ c.right = <<even(at[1]) + 1, at[2]>>
            /\ c.bottom = <<at[1], even(at[2])>> /\ c.top   = <<at[1], even(at[2]) + 1>>

\* Pixels are computed in raster order and each once, at the fragment of the
\* same distance from the bottom, with derivatives as without.
StoresEveryPixel ==
    /\ DOMAIN stored = {i \in Columns \X Rows : i[2] < y \/ (i[2] = y /\ i[1] < x)}
    /\ \A i \in DOMAIN stored : stored[i].at = <<i[1], height - 1 - i[2]>>

\* The order of invocations: a quad is probed, each corner once, immediately
\* before the first of its pixels is computed, and never again.  It is enough
\* to look at the newest invocation: every earlier one was the newest.
InvocationOrder ==
    derivatives /\ calls # <<>> =>
      LET n    == Len(calls)
          quad(c) == <<c.at[1] \div 2, c.at[2] \div 2>>
          ofQuad  == {k \in 1 .. n : quad(calls[k]) = quad(calls[n])}
          records == {k \in ofQuad : calls[k].mode = "record"}
          replays == ofQuad \ records
      IN  /\ \A j, k \in records : calls[j].at = calls[k].at => j = k
          /\ replays # {} =>
               /\ Cardinality(records) = 4
               /\ \A k \in records : /\ \A r \in replays : k < r
                                  /\ \E r \in replays : r - k <= 4
=============================================================================
