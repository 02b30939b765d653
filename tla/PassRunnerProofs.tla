-------------------------- MODULE PassRunnerProofs --------------------------
(***************************************************************************)
(* Proofs about PassRunner, for images of every extent.                    *)
(***************************************************************************)
EXTENDS PassRunner, FiniteSetTheorems, SequenceTheorems, TLAPS

\* The place in the image where the loops are.
Cursor == TypeOK /\ StoresEveryPixel

LEMMA CursorInit == Init => Cursor
  BY ExtentsAssumption DEF Init, Cursor, TypeOK, StoresEveryPixel, Columns, Rows

\* Storing the pixel and advancing keeps the cursor.
LEMMA CursorAdvances ==
  ASSUME Cursor, phase \in {"visit", "replay"}, NEW corners,
         StorePixel([at |-> <<x, PixelY>>, corners |-> corners]), Advance,
         UNCHANGED <<width, height, derivatives>>, lane' \in 0 .. 4
  PROVE  Cursor'
<1>1. width \in Nat \ {0} /\ height \in Nat \ {0}
  BY ExtentsAssumption DEF Cursor, TypeOK
<1>2. y < height /\ y \in Nat /\ x \in Nat /\ x < width
  BY <1>1 DEF Cursor, TypeOK, Columns
<1>3. TypeOK'
  BY <1>1, <1>2 DEF Cursor, TypeOK, Advance, Columns
<1>4. (DOMAIN stored)' = DOMAIN stored \cup {<<x, y>>}
  BY DEF StorePixel
<1>5. (DOMAIN stored)' = {i \in Columns \X Rows : i[2] < y' \/ (i[2] = y' /\ i[1] < x')}
  <2>1. DOMAIN stored = {i \in Columns \X Rows : i[2] < y \/ (i[2] = y /\ i[1] < x)}
    BY DEF Cursor, StoresEveryPixel
  <2> QED
    BY <1>1, <1>2, <1>4, <2>1 DEF Advance, Columns, Rows
<1>6. \A i \in (DOMAIN stored)' : stored'[i].at = <<i[1], height - 1 - i[2]>>
  BY <1>4 DEF StorePixel, PixelY, Cursor, StoresEveryPixel
<1> QED
  BY <1>3, <1>5, <1>6 DEF Cursor, StoresEveryPixel, Columns, Rows

LEMMA CursorNext == Cursor /\ [Next]_vars => Cursor'
<1> SUFFICES ASSUME Cursor, [Next]_vars PROVE Cursor'
  OBVIOUS
<1>1. CASE RunPixel
  BY <1>1, CursorAdvances DEF RunPixel, Cursor, TypeOK
<1>2. CASE VisitPixel
  BY <1>2 DEF VisitPixel, Cursor, TypeOK, StoresEveryPixel, Columns, Rows
<1>3. CASE Probe
  BY <1>3 DEF Probe, Cursor, TypeOK, StoresEveryPixel, Columns, Rows
<1>4. CASE Replay
  BY <1>4, CursorAdvances DEF Replay, Cursor, TypeOK
<1>5. CASE UNCHANGED vars
  BY <1>5 DEF vars, Cursor, TypeOK, StoresEveryPixel, Columns, Rows
<1> QED
  BY <1>1, <1>2, <1>3, <1>4, <1>5 DEF Next, Returned

-----------------------------------------------------------------------------
\* The open quads are all in the row of quads that the pixel is in: those
\* that this row of pixels, or the one above it, has begun, and that have a
\* pixel left.

Key(c) == QuadY * QuadsAcross + c

Begun(c) ==
    IF PixelY % 2 = 1 \/ PixelY = height - 1
    THEN 2 * c < x \/ (phase \in {"probe", "replay"} /\ c = QuadX)
    ELSE TRUE
Ended(c) == PixelY % 2 = 0 /\ 2 * c + 1 < x

Open == {c \in 0 .. QuadsAcross - 1 : Begun(c) /\ ~Ended(c)}

Place(c, l) == <<2 * c + (l % 2), 2 * QuadY + (l \div 2)>>

CacheIsOpen ==
    /\ ~derivatives \/ phase = "done" => DOMAIN cache = {}
    /\ derivatives /\ phase # "done" =>
         /\ DOMAIN cache = {Key(c) : c \in Open}
         /\ \A c \in Open :
              /\ DOMAIN cache[Key(c)] = 0 .. 3
              /\ \A l \in 0 .. 3 : ~(phase = "probe" /\ c = QuadX /\ lane <= l)
                                     => cache[Key(c)][l] = Place(c, l)

IInv == Cursor /\ CacheIsOpen /\ ReplaysOwnCorners

\* What a step may use of the cursor.
LEMMA Bounds ==
  ASSUME Cursor, phase # "done"
  PROVE  /\ width \in Nat \ {0} /\ height \in Nat \ {0}
         /\ x \in 0 .. width - 1 /\ y \in 0 .. height - 1
         /\ PixelY \in 0 .. height - 1
         /\ QuadX \in 0 .. QuadsAcross - 1
         /\ QuadX = x \div 2 /\ QuadY = PixelY \div 2
         /\ QuadY * QuadsAcross \in Int /\ QuadsAcross \in Int
         /\ CacheIndex = Key(QuadX)
<1>1. width \in Nat \ {0} /\ height \in Nat \ {0}
  BY ExtentsAssumption DEF Cursor, TypeOK
<1>2. x \in 0 .. width - 1 /\ y \in 0 .. height - 1
  BY <1>1 DEF Cursor, TypeOK, Columns
<1>3. PixelY \in 0 .. height - 1
  BY <1>1, <1>2 DEF PixelY
<1>4. QuadX \in 0 .. QuadsAcross - 1 /\ QuadsAcross \in Int
  BY <1>1, <1>2 DEF QuadX, QuadsAcross
<1>5. QuadY \in Int
  BY <1>3 DEF QuadY
<1>6. \A a, b \in Int : a * b \in Int
  OBVIOUS
<1> QED
  BY <1>1, <1>2, <1>3, <1>4, <1>5, <1>6 DEF QuadX, QuadY, CacheIndex, Key

LEMMA CacheInit == Init => CacheIsOpen /\ ReplaysOwnCorners
<1> SUFFICES ASSUME Init PROVE CacheIsOpen /\ ReplaysOwnCorners
  OBVIOUS
<1>1. width \in Nat \ {0} /\ height \in Nat \ {0}
  BY ExtentsAssumption DEF Init
<1>2. PixelY = height - 1 /\ x = 0 /\ phase = "visit"
  BY <1>1 DEF Init, PixelY
<1>3. Open = {}
  BY <1>1, <1>2 DEF Open, Begun, QuadsAcross
<1>4. DOMAIN cache = {} /\ DOMAIN stored = {}
  BY DEF Init
<1> QED
  BY <1>2, <1>3, <1>4 DEF CacheIsOpen, ReplaysOwnCorners

\* Within a row of quads an index names one quad.
LEMMA KeyInjective ==
  ASSUME Cursor, phase # "done", NEW c \in Int, NEW d \in Int, Key(c) = Key(d)
  PROVE  c = d
  BY Bounds DEF Key

\* A step that stores no pixel keeps what the stored ones were computed from.
LEMMA RecordsReplayedStay ==
  ASSUME ReplaysOwnCorners, derivatives' = derivatives, stored' = stored
  PROVE  ReplaysOwnCorners'
  BY DEF ReplaysOwnCorners

LEMMA CacheVisits ==
  ASSUME IInv, VisitPixel
  PROVE  CacheIsOpen' /\ ReplaysOwnCorners'
<1> USE DEF IInv
<1>1. phase = "visit" /\ derivatives /\ phase' \in {"probe", "replay"}
  BY DEF VisitPixel
<1>2. PixelY' = PixelY /\ QuadX' = QuadX /\ QuadY' = QuadY /\ QuadsAcross' = QuadsAcross
      /\ x' = x /\ width' = width /\ height' = height /\ derivatives' /\ lane' = 0
  BY <1>1 DEF VisitPixel, PixelY, QuadX, QuadY, QuadsAcross
<1>3. \A c : Key(c)' = Key(c)
  BY <1>2 DEF Key
<1>4. /\ width \in Nat \ {0} /\ x \in 0 .. width - 1 /\ QuadX \in 0 .. QuadsAcross - 1
      /\ QuadX = x \div 2 /\ PixelY \in 0 .. height - 1 /\ CacheIndex = Key(QuadX)
      /\ QuadsAcross \in Int
  BY <1>1, Bounds
<1>5. Open' = Open \cup {QuadX}
  BY <1>1, <1>2, <1>4 DEF Open, Begun, Ended
<1>6. DOMAIN cache = {Key(c) : c \in Open}
  BY <1>1 DEF CacheIsOpen
<1>7. Open \subseteq Int /\ QuadX \in Int
  BY <1>4 DEF Open
<1>8. \A c, d \in Int : Key(c) = Key(d) => c = d
  BY <1>1, KeyInjective
<1>11. ReplaysOwnCorners'
  BY RecordsReplayedStay DEF VisitPixel
<1>9. CASE CacheIndex \in DOMAIN cache
  <2>1. QuadX \in Open
    BY <1>9, <1>4, <1>6, <1>7, <1>8
  <2>2. Open' = Open /\ cache' = cache /\ phase' = "replay"
    BY <2>1, <1>5, <1>9 DEF VisitPixel
  <2> QED
    BY <2>2, <1>1, <1>2, <1>3, <1>11 DEF CacheIsOpen, Place
<1>10. CASE CacheIndex \notin DOMAIN cache
  <2>1. QuadX \notin Open
    BY <1>10, <1>4, <1>6
  <2>2. /\ phase' = "probe"
        /\ cache' = [i \in DOMAIN cache \cup {Key(QuadX)} |->
                       IF i = Key(QuadX) THEN [l \in 0 .. 3 |-> NotRecorded] ELSE cache[i]]
    BY <1>10, <1>4 DEF VisitPixel
  <2>3. DOMAIN cache' = {Key(c) : c \in Open'}
    BY <2>2, <1>5, <1>6
  <2>4. \A c \in Open : cache'[Key(c)] = cache[Key(c)]
    BY <2>1, <2>2, <1>6, <1>7, <1>8
  <2>5. cache'[Key(QuadX)] = [l \in 0 .. 3 |-> NotRecorded]
    BY <2>2
  <2>6. \A c \in Open :
          /\ DOMAIN cache[Key(c)] = 0 .. 3
          /\ \A l \in 0 .. 3 : cache[Key(c)][l] = Place(c, l)
    BY <1>1 DEF CacheIsOpen
  <2>7. \A c, l : Place(c, l)' = Place(c, l)
    BY <1>2 DEF Place
  <2>8. \A c \in Open' :
          /\ DOMAIN cache'[Key(c)] = 0 .. 3
          /\ \A l \in 0 .. 3 : ~(phase' = "probe" /\ c = QuadX /\ lane' <= l)
                                 => cache'[Key(c)][l] = Place(c, l)
    BY <2>2, <2>4, <2>5, <2>6, <1>2, <1>5
  <2>9. derivatives' /\ phase' # "done"
    BY <2>2, <1>2
  <2>10. (DOMAIN cache)' = {Key(c)' : c \in Open'}
    BY <2>3, <1>3
  <2>11. \A c \in Open' :
           /\ DOMAIN cache'[Key(c)'] = 0 .. 3
           /\ \A l \in 0 .. 3 : ~(phase' = "probe" /\ c = QuadX' /\ lane' <= l)
                                  => cache'[Key(c)'][l] = Place(c, l)'
    BY <2>7, <2>8, <1>2, <1>3
  <2>12. CacheIsOpen'
    BY <2>9, <2>10, <2>11 DEF CacheIsOpen
  <2> QED
    BY <2>12, <1>11
<1> QED
  BY <1>9, <1>10

LEMMA CacheProbes ==
  ASSUME IInv, Probe
  PROVE  CacheIsOpen' /\ ReplaysOwnCorners'
<1> USE DEF IInv
<1>1. phase = "probe" /\ derivatives /\ phase' \in {"probe", "replay"} /\ lane \in 0 .. 3
  BY DEF Probe, Cursor, TypeOK
<1>2. PixelY' = PixelY /\ QuadX' = QuadX /\ QuadY' = QuadY /\ QuadsAcross' = QuadsAcross
      /\ x' = x /\ height' = height /\ derivatives' /\ lane' = lane + 1
  BY <1>1 DEF Probe, PixelY, QuadX, QuadY, QuadsAcross
<1>3. (\A c : Key(c)' = Key(c)) /\ (\A c, l : Place(c, l)' = Place(c, l))
  BY <1>2 DEF Key, Place
<1>4. QuadX \in Int /\ QuadX \in 0 .. QuadsAcross - 1 /\ QuadX = x \div 2
      /\ x \in 0 .. width - 1 /\ CacheIndex = Key(QuadX)
  BY <1>1, Bounds
<1>5. Open' = Open
  BY <1>1, <1>2 DEF Open, Begun, Ended
<1>6. /\ DOMAIN cache = {Key(c) : c \in Open}
      /\ \A c \in Open :
           /\ DOMAIN cache[Key(c)] = 0 .. 3
           /\ \A l \in 0 .. 3 : ~(c = QuadX /\ lane <= l) => cache[Key(c)][l] = Place(c, l)
  BY <1>1 DEF CacheIsOpen
<1>7. \A c, d \in Int : Key(c) = Key(d) => c = d
  BY <1>1, KeyInjective
<1>8. Open \subseteq Int
  BY DEF Open
<1>9. Corner(lane) = Place(QuadX, lane)
  BY DEF Corner, Place
<1>10. cache' = [cache EXCEPT ![Key(QuadX)][lane] = Place(QuadX, lane)]
  BY <1>4, <1>9 DEF Probe
<1>11. \A c \in Open :
         /\ DOMAIN cache'[Key(c)] = 0 .. 3
         /\ \A l \in 0 .. 3 : ~(phase' = "probe" /\ c = QuadX /\ lane' <= l)
                                => cache'[Key(c)][l] = Place(c, l)
  <2> SUFFICES ASSUME NEW c \in Open
               PROVE  /\ DOMAIN cache'[Key(c)] = 0 .. 3
                      /\ \A l \in 0 .. 3 : ~(phase' = "probe" /\ c = QuadX /\ lane' <= l)
                                             => cache'[Key(c)][l] = Place(c, l)
    OBVIOUS
  <2>1. CASE c = QuadX
    <3>1. cache'[Key(c)] = [cache[Key(c)] EXCEPT ![lane] = Place(c, lane)]
      BY <1>6, <1>10, <2>1
    <3>2. phase' = "probe" \/ lane = 3
      BY DEF Probe
    <3> QED
      BY <3>1, <3>2, <2>1, <1>1, <1>2, <1>6
  <2>2. CASE c # QuadX
    <3>1. Key(c) # Key(QuadX)
      BY <2>2, <1>4, <1>7, <1>8
    <3>2. cache'[Key(c)] = cache[Key(c)]
      BY <3>1, <1>6, <1>10
    <3> QED
      BY <3>2, <2>2, <1>6
  <2> QED
    BY <2>1, <2>2
<1>12. DOMAIN cache' = DOMAIN cache
  BY <1>10
<1>13. ReplaysOwnCorners'
  BY RecordsReplayedStay DEF Probe
<1>14. CacheIsOpen'
  BY <1>1, <1>2, <1>3, <1>5, <1>6, <1>11, <1>12 DEF CacheIsOpen
<1> QED
  BY <1>13, <1>14

\* The quads that are open after a pixel has been computed.
LEMMA OpenAfterReplay ==
  ASSUME Cursor, phase = "replay", Advance, UNCHANGED <<width, height>>, phase' # "done"
  PROVE  /\ Open' = IF Evicts THEN Open \ {QuadX} ELSE Open
         /\ QuadY' = QuadY \/ Open' = {}
<1>1. /\ width \in Nat \ {0} /\ height \in Nat \ {0}
      /\ x \in 0 .. width - 1 /\ y \in 0 .. height - 1 /\ PixelY \in 0 .. height - 1
      /\ PixelY = height - 1 - y
  BY Bounds DEF PixelY
<1>2. PixelY' = height - 1 - y' /\ QuadsAcross' = QuadsAcross /\ phase' = "visit"
      /\ QuadX' = x' \div 2
  BY DEF PixelY, QuadsAcross, QuadX, Advance
<1>3. QuadX = x \div 2 /\ QuadsAcross = (width + 1) \div 2
      /\ QuadY = PixelY \div 2 /\ QuadY' = PixelY' \div 2
  BY DEF QuadX, QuadsAcross, QuadY
<1>4. CASE x + 1 < width
  <2>1. x' = x + 1 /\ PixelY' = PixelY
    BY <1>1, <1>2, <1>4 DEF Advance
  <2>2. \A c \in 0 .. QuadsAcross - 1 : Begun(c)' <=> Begun(c)
    BY <1>1, <1>2, <1>3, <2>1 DEF Begun
  <2>3. \A c \in 0 .. QuadsAcross - 1 : Ended(c)' <=> Ended(c) \/ (Evicts /\ c = QuadX)
    BY <1>1, <1>2, <1>3, <1>4, <2>1 DEF Ended, Evicts
  <2> QED
    BY <1>2, <1>3, <2>1, <2>2, <2>3 DEF Open
<1>5. CASE ~(x + 1 < width) /\ PixelY % 2 = 1
  <2>1. x = width - 1 /\ x' = 0 /\ PixelY' = PixelY - 1
    BY <1>1, <1>2, <1>5 DEF Advance
  <2>2. \A c \in 0 .. QuadsAcross - 1 : Begun(c) /\ ~Ended(c)
    BY <1>1, <1>3, <1>5, <2>1 DEF Begun, Ended
  <2>3. \A c \in 0 .. QuadsAcross - 1 : Begun(c)' /\ ~Ended(c)'
    BY <1>1, <1>2, <1>3, <1>5, <2>1 DEF Begun, Ended
  <2>4. ~Evicts
    BY <1>1, <1>5 DEF Evicts
  <2>5. PixelY' \div 2 = PixelY \div 2
    BY <1>1, <1>5, <2>1
  <2> QED
    BY <1>2, <1>3, <2>2, <2>3, <2>4, <2>5 DEF Open
<1>6. CASE ~(x + 1 < width) /\ PixelY % 2 = 0
  <2>1. x = width - 1 /\ x' = 0 /\ PixelY' = PixelY - 1 /\ PixelY > 0
    BY <1>1, <1>2, <1>6 DEF Advance
  <2>2. \A c \in 0 .. QuadsAcross - 1 : ~Ended(c) => c = QuadX
    BY <1>1, <1>3, <1>6, <2>1 DEF Ended
  <2>3. \A c \in 0 .. QuadsAcross - 1 : ~Begun(c)'
    BY <1>1, <1>2, <1>3, <1>6, <2>1 DEF Begun
  <2>4. Evicts
    BY <1>1, <1>6, <2>1 DEF Evicts
  <2> QED
    BY <1>2, <2>2, <2>3, <2>4 DEF Open
<1> QED
  BY <1>1, <1>4, <1>5, <1>6

LEMMA CacheReplays ==
  ASSUME IInv, Replay
  PROVE  CacheIsOpen' /\ ReplaysOwnCorners'
<1> USE DEF IInv
<1>1. phase = "replay" /\ derivatives /\ derivatives' /\ width' = width /\ height' = height
      /\ Advance
  BY DEF Replay, Cursor, TypeOK
<1>2. /\ QuadX \in 0 .. QuadsAcross - 1 /\ QuadX \in Int /\ QuadX = x \div 2
      /\ width \in Nat \ {0} /\ height \in Nat \ {0}
      /\ x \in 0 .. width - 1 /\ y \in 0 .. height - 1
      /\ PixelY \in 0 .. height - 1 /\ QuadY = PixelY \div 2 /\ CacheIndex = Key(QuadX)
  BY <1>1, Bounds
<1>3. /\ DOMAIN cache = {Key(c) : c \in Open}
      /\ \A c \in Open :
           DOMAIN cache[Key(c)] = 0 .. 3 /\ \A l \in 0 .. 3 : cache[Key(c)][l] = Place(c, l)
  BY <1>1 DEF CacheIsOpen
<1>4. QuadX \in Open
  BY <1>1, <1>2 DEF Open, Begun, Ended
<1>5. \A c, d \in Int : Key(c) = Key(d) => c = d
  BY <1>1, KeyInjective
<1>6. Open \subseteq Int
  BY DEF Open
<1>7. cache' = IF Evicts THEN [i \in DOMAIN cache \ {Key(QuadX)} |-> cache[i]] ELSE cache
  BY <1>2 DEF Replay
<1>8. CacheIsOpen'
  <2>1. CASE phase' = "done"
    <3>1. x = width - 1 /\ PixelY = 0
      BY <1>1, <1>2, <2>1 DEF Advance, PixelY
    <3>2. Evicts /\ Open = {QuadX}
      BY <1>2, <1>4, <3>1 DEF Evicts, Open, Ended, QuadsAcross
    <3>3. DOMAIN cache' = {}
      BY <1>3, <1>7, <3>2
    <3> QED
      BY <2>1, <3>3 DEF CacheIsOpen
  <2>2. CASE phase' # "done"
    <3>1. /\ Open' = IF Evicts THEN Open \ {QuadX} ELSE Open
          /\ QuadY' = QuadY \/ Open' = {}
      BY <1>1, <2>2, OpenAfterReplay
    <3>2. phase' = "visit"
      BY <1>1, <2>2 DEF Advance
    <3>3. DOMAIN cache' = {Key(c) : c \in Open'}
      BY <1>3, <1>4, <1>5, <1>6, <1>7, <3>1
    <3>4. \A c \in Open' : cache'[Key(c)] = cache[Key(c)] /\ c \in Open
      BY <1>3, <1>4, <1>5, <1>6, <1>7, <3>1
    <3>5. QuadsAcross' = QuadsAcross
      BY <1>1 DEF QuadsAcross
    <3>6. CASE Open' = {}
      BY <1>1, <2>2, <3>2, <3>3, <3>6 DEF CacheIsOpen
    <3>7. CASE QuadY' = QuadY
      <4>1. (\A c : Key(c)' = Key(c)) /\ (\A c, l : Place(c, l)' = Place(c, l))
        BY <3>5, <3>7 DEF Key, Place
      <4> QED
        BY <1>1, <1>3, <2>2, <3>2, <3>3, <3>4, <4>1 DEF CacheIsOpen
    <3> QED
      BY <3>1, <3>6, <3>7
  <2> QED
    BY <2>1, <2>2
<1>9. ReplaysOwnCorners'
  <2>1. \A l \in 0 .. 3 : cache[CacheIndex][l] = <<2 * QuadX + (l % 2), 2 * QuadY + (l \div 2)>>
    BY <1>2, <1>3, <1>4 DEF Place
  <2> DEFINE p == PixelY
             d == Differences(cache[CacheIndex])
  <2>2. d.left = <<x - (x % 2), p>> /\ d.right = <<x - (x % 2) + 1, p>>
    <3>1. 2 * (p % 2) \in 0 .. 3 /\ 2 * (p % 2) + 1 \in 0 .. 3
      BY <1>2
    <3>2. d.left = <<2 * QuadX, 2 * QuadY + (p % 2)>>
      BY <2>1, <3>1, <1>2 DEF Differences
    <3>3. d.right = <<2 * QuadX + 1, 2 * QuadY + (p % 2)>>
      BY <2>1, <3>1, <1>2 DEF Differences
    <3>4. 2 * QuadX = x - (x % 2) /\ 2 * QuadY + (p % 2) = p
      BY <1>2
    <3> QED
      BY <3>2, <3>3, <3>4
  <2>3. d.bottom = <<x, p - (p % 2)>> /\ d.top = <<x, p - (p % 2) + 1>>
    <3>1. x % 2 \in 0 .. 3 /\ (x % 2) + 2 \in 0 .. 3
      BY <1>2
    <3>2. d.bottom = <<2 * QuadX + (x % 2), 2 * QuadY>>
      BY <2>1, <3>1, <1>2 DEF Differences
    <3>3. d.top = <<2 * QuadX + (x % 2), 2 * QuadY + 1>>
      BY <2>1, <3>1, <1>2 DEF Differences
    <3>4. 2 * QuadX + (x % 2) = x /\ 2 * QuadY = p - (p % 2)
      BY <1>2
    <3> QED
      BY <3>2, <3>3, <3>4
  <2>4. stored' = [i \in DOMAIN stored \cup {<<x, y>>} |->
                     IF i = <<x, y>> THEN [at |-> <<x, p>>, corners |-> d] ELSE stored[i]]
    BY DEF Replay, StorePixel
  <2> HIDE DEF d
  <2>5. ASSUME NEW i \in DOMAIN stored'
        PROVE  LET at == stored'[i].at
                   c  == stored'[i].corners
                   even(n) == n - (n % 2)
               IN  /\ c.left   = <<even(at[1]), at[2]>> /\ c.right = <<even(at[1]) + 1, at[2]>>
                   /\ c.bottom = <<at[1], even(at[2])>> /\ c.top   = <<at[1], even(at[2]) + 1>>
    <3>1. CASE i = <<x, y>>
      BY <3>1, <2>2, <2>3, <2>4
    <3>2. CASE i # <<x, y>>
      <4>1. i \in DOMAIN stored /\ stored'[i] = stored[i]
        BY <3>2, <2>4
      <4> QED
        BY <4>1, <1>1 DEF ReplaysOwnCorners
    <3> QED
      BY <3>1, <3>2
  <2> QED
    BY <2>5 DEF ReplaysOwnCorners
<1> QED
  BY <1>8, <1>9

LEMMA Inductive == IInv /\ [Next]_vars => IInv'
<1> SUFFICES ASSUME IInv, [Next]_vars PROVE IInv'
  OBVIOUS
<1> USE DEF IInv
<1>0. Cursor'
  BY CursorNext
<1>1. CASE RunPixel
  BY <1>0, <1>1 DEF RunPixel, CacheIsOpen, ReplaysOwnCorners
<1>2. CASE VisitPixel
  BY <1>0, <1>2, CacheVisits
<1>3. CASE Probe
  BY <1>0, <1>3, CacheProbes
<1>4. CASE Replay
  BY <1>0, <1>4, CacheReplays
<1>5. CASE UNCHANGED vars
  BY <1>0, <1>5 DEF vars, CacheIsOpen, ReplaysOwnCorners, Key, Open, Begun, Ended, Place,
     QuadX, QuadY, QuadsAcross, PixelY
<1> QED
  BY <1>1, <1>2, <1>3, <1>4, <1>5 DEF Next, Returned

THEOREM Invariance == Spec => []IInv
<1>1. Init => IInv
  BY CursorInit, CacheInit DEF IInv
<1> QED
  BY <1>1, Inductive, PTL DEF Spec

\* Every pixel is computed once, at its own fragment coordinates.
THEOREM EveryPixelIsStored == Spec => []StoresEveryPixel
<1>1. IInv => StoresEveryPixel
  BY DEF IInv, Cursor
<1> QED
  BY <1>1, Invariance, PTL

\* The derivatives of a pixel come from the corners of its own quad.
THEOREM DerivativesAreLocal == Spec => []ReplaysOwnCorners
<1>1. IInv => ReplaysOwnCorners
  BY DEF IInv
<1> QED
  BY <1>1, Invariance, PTL

-----------------------------------------------------------------------------
\* What the invariant says of the quads of the image.

LEMMA FinishedPixels ==
  ASSUME Cursor, NEW p \in Columns \X Rows
  PROVE  Finished(p) <=> p[2] > PixelY \/ (p[2] = PixelY /\ p[1] < x)
<1>1. width \in Nat \ {0} /\ height \in Nat \ {0} /\ y \in Nat /\ x \in Nat
  BY ExtentsAssumption DEF Cursor, TypeOK, Columns
<1>2. DOMAIN stored = {i \in Columns \X Rows : i[2] < y \/ (i[2] = y /\ i[1] < x)}
  BY DEF Cursor, StoresEveryPixel
<1>3. <<p[1], height - 1 - p[2]>> \in Columns \X Rows
  BY <1>1 DEF Columns, Rows
<1>4. p[1] \in 0 .. width - 1 /\ p[2] \in 0 .. height - 1
  BY DEF Columns, Rows
<1> QED
  BY <1>1, <1>2, <1>3, <1>4 DEF Finished, PixelY

LEMMA OpenQuads ==
  ASSUME Cursor, phase # "done", NEW q \in Quads
  PROVE  (\E p \in Members(q) : Started(p)) /\ (\E p \in Members(q) : ~Finished(p))
           <=> q[2] = QuadY /\ q[1] \in Open
<1>1. /\ width \in Nat \ {0} /\ height \in Nat \ {0}
      /\ x \in 0 .. width - 1 /\ PixelY \in 0 .. height - 1
      /\ QuadX = x \div 2 /\ QuadY = PixelY \div 2 /\ PixelY = height - 1 - y
  BY Bounds DEF PixelY
<1>2. q[1] \in 0 .. (width - 1) \div 2 /\ q[2] \in 0 .. (height - 1) \div 2
  BY DEF Quads
<1>3. \A p \in Members(q) : /\ p \in Columns \X Rows /\ p = <<p[1], p[2]>>
                            /\ p[1] \in 0 .. width - 1 /\ p[2] \in 0 .. height - 1
                            /\ p[1] \div 2 = q[1] /\ p[2] \div 2 = q[2]
  BY DEF Members, Columns, Rows
<1>4. \A a \in 0 .. width - 1, b \in 0 .. height - 1 :
        a \div 2 = q[1] /\ b \div 2 = q[2] => <<a, b>> \in Members(q)
  BY DEF Members, Columns, Rows
<1>5. \A p \in Members(q) : Finished(p) <=> p[2] > PixelY \/ (p[2] = PixelY /\ p[1] < x)
  BY <1>3, FinishedPixels
<1>6. \A p \in Members(q) :
        Started(p) <=> Finished(p) \/ (phase \in {"probe", "replay"} /\ p[1] = x /\ p[2] = PixelY)
  BY <1>1, <1>3 DEF Started
<1>7. QuadsAcross - 1 = (width - 1) \div 2
  BY <1>1 DEF QuadsAcross
<1>8. ASSUME q[2] # QuadY
      PROVE  ~((\E p \in Members(q) : Started(p)) /\ (\E p \in Members(q) : ~Finished(p)))
  <2>1. CASE q[2] > QuadY
    <3>1. \A p \in Members(q) : p[2] > PixelY
      BY <1>1, <1>2, <1>3, <2>1
    <3> QED
      BY <3>1, <1>5
  <2>2. CASE q[2] < QuadY
    <3>1. \A p \in Members(q) : p[2] < PixelY
      BY <1>1, <1>2, <1>3, <2>2
    <3>2. \A p \in Members(q) : ~Started(p)
      BY <1>1, <1>3, <1>5, <1>6, <3>1
    <3> QED
      BY <3>2
  <2> QED
    BY <1>1, <1>2, <1>8, <2>1, <2>2
<1>9. ASSUME q[2] = QuadY PROVE (\E p \in Members(q) : Started(p)) <=> Begun(q[1])
  <2>1. CASE PixelY % 2 = 1 \/ PixelY = height - 1
    <3>1. \A p \in Members(q) : p[2] <= PixelY
      BY <1>1, <1>3, <1>9, <2>1
    <3>2. ASSUME NEW p \in Members(q), Started(p) PROVE Begun(q[1])
      <4>1. p[2] = PixelY
        BY <1>1, <1>3, <1>5, <1>6, <3>1, <3>2
      <4> QED
        BY <1>1, <1>2, <1>3, <1>5, <1>6, <3>2, <4>1 DEF Begun
    <3>3. ASSUME Begun(q[1]) PROVE \E p \in Members(q) : Started(p)
      <4>1. CASE 2 * q[1] < x
        <5>1. <<2 * q[1], PixelY>> \in Members(q)
          BY <1>1, <1>2, <1>4, <1>9, <4>1
        <5> QED
          BY <5>1, <1>5, <1>6, <4>1
      <4>2. CASE phase \in {"probe", "replay"} /\ q[1] = QuadX
        <5>1. <<x, PixelY>> \in Members(q)
          BY <1>1, <1>2, <1>4, <1>9, <4>2
        <5> QED
          BY <5>1, <1>6, <4>2
      <4> QED
        BY <3>3, <2>1, <4>1, <4>2 DEF Begun
    <3> QED
      BY <3>2, <3>3
  <2>2. CASE ~(PixelY % 2 = 1 \/ PixelY = height - 1)
    <3>1. <<2 * q[1], PixelY + 1>> \in Members(q)
      BY <1>1, <1>2, <1>4, <1>9, <2>2
    <3>2. Finished(<<2 * q[1], PixelY + 1>>)
      BY <3>1, <1>1, <1>5
    <3> QED
      BY <3>1, <3>2, <1>6, <2>2 DEF Begun
  <2> QED
    BY <2>1, <2>2
<1>10. ASSUME q[2] = QuadY PROVE (\E p \in Members(q) : ~Finished(p)) <=> ~Ended(q[1])
  <2>1. CASE PixelY % 2 = 1
    <3>1. <<2 * q[1], PixelY - 1>> \in Members(q)
      BY <1>1, <1>2, <1>4, <1>10, <2>1
    <3>2. ~Finished(<<2 * q[1], PixelY - 1>>)
      BY <3>1, <1>1, <1>5
    <3> QED
      BY <3>1, <3>2, <2>1 DEF Ended
  <2>2. CASE PixelY % 2 = 0
    <3>1. ASSUME 2 * q[1] + 1 < x PROVE \A p \in Members(q) : Finished(p)
      <4>1. \A p \in Members(q) : p[2] >= PixelY /\ p[1] < x
        BY <1>1, <1>2, <1>3, <1>10, <2>2, <3>1
      <4> QED
        BY <4>1, <1>1, <1>3, <1>5
    <3>2. ASSUME ~(2 * q[1] + 1 < x) PROVE \E p \in Members(q) : ~Finished(p)
      <4>1. CASE 2 * q[1] + 1 < width
        <5>0. /\ 2 * q[1] + 1 \in 0 .. width - 1 /\ (2 * q[1] + 1) \div 2 = q[1]
              /\ PixelY \div 2 = q[2]
          BY <1>1, <1>2, <1>10, <4>1
        <5>1. <<2 * q[1] + 1, PixelY>> \in Members(q)
          BY <1>1, <1>4, <5>0
        <5> QED
          BY <5>1, <1>1, <1>2, <1>5, <3>2
      <4>2. CASE ~(2 * q[1] + 1 < width)
        <5>0. /\ 2 * q[1] = width - 1 /\ 2 * q[1] \in 0 .. width - 1
              /\ (2 * q[1]) \div 2 = q[1] /\ PixelY \div 2 = q[2]
          BY <1>1, <1>2, <1>10, <4>2
        <5>1. 2 * q[1] = width - 1 /\ <<2 * q[1], PixelY>> \in Members(q)
          BY <1>1, <1>4, <5>0
        <5> QED
          BY <5>1, <1>1, <1>2, <1>5
      <4> QED
        BY <4>1, <4>2
    <3> QED
      BY <3>1, <3>2, <2>2 DEF Ended
  <2> QED
    BY <1>1, <2>1, <2>2
<1> QED
  BY <1>2, <1>7, <1>8, <1>9, <1>10 DEF Open

LEMMA CacheHoldsOpen == IInv => CacheHoldsOpenQuads
<1> SUFFICES ASSUME IInv PROVE CacheHoldsOpenQuads
  OBVIOUS
<1> USE DEF IInv
<1> DEFINE open == {r \in Quads : derivatives /\ (\E p \in Members(r) : Started(p))
                                              /\ (\E p \in Members(r) : ~Finished(p))}
<1>1. width \in Nat \ {0} /\ height \in Nat \ {0} /\ QuadsAcross \in Nat
  BY ExtentsAssumption DEF Cursor, TypeOK, QuadsAcross
<1>2. CASE ~derivatives
  <2>1. DOMAIN cache = {} /\ open = {}
    BY <1>2 DEF CacheIsOpen
  <2>2. Cardinality(DOMAIN cache) = 0
    BY <2>1, FS_EmptySet
  <2> QED
    BY <2>1, <2>2, <1>1 DEF CacheHoldsOpenQuads
<1>3. CASE phase = "done"
  <2>1. y = height
    BY <1>3 DEF Cursor, TypeOK
  <2>2. \A p \in Columns \X Rows : p[2] > PixelY
    BY <1>1, <2>1 DEF PixelY, Columns, Rows
  <2>3. \A p \in Columns \X Rows : Finished(p)
    BY <2>2, FinishedPixels
  <2>4. DOMAIN cache = {} /\ open = {}
    BY <1>3, <2>3 DEF CacheIsOpen, Members
  <2>5. Cardinality(DOMAIN cache) = 0
    BY <2>4, FS_EmptySet
  <2> QED
    BY <2>4, <2>5, <1>1 DEF CacheHoldsOpenQuads
<1>4. CASE derivatives /\ phase # "done"
  <2>1. DOMAIN cache = {Key(c) : c \in Open}
    BY <1>4 DEF CacheIsOpen
  <2>2. \A q \in Quads : q \in open <=> q[2] = QuadY /\ q[1] \in Open
    BY <1>4, OpenQuads
  <2>3. \A c \in Open : <<c, QuadY>> \in Quads
    <3>1. QuadY \in 0 .. (height - 1) \div 2 /\ QuadsAcross - 1 = (width - 1) \div 2
      BY <1>1, <1>4, Bounds DEF QuadsAcross
    <3> QED
      BY <3>1 DEF Open, Quads
  <2>4. {Key(c) : c \in Open} = {q[2] * QuadsAcross + q[1] : q \in open}
    <3>1. \A c \in Open : <<c, QuadY>> \in open
      BY <2>2, <2>3
    <3>2. \A q \in open : q[2] = QuadY /\ q[1] \in Open
      BY <2>2
    <3> HIDE DEF open
    <3>3. \A c \in Open : Key(c) = <<c, QuadY>>[2] * QuadsAcross + <<c, QuadY>>[1]
      BY DEF Key
    <3>4. \A q \in open : q[2] * QuadsAcross + q[1] = Key(q[1])
      BY <3>2 DEF Key
    <3> DEFINE index(q) == q[2] * QuadsAcross + q[1]
               opened == {Key(c) : c \in Open}
               indices == {index(q) : q \in open}
    <3>5. ASSUME NEW k \in opened PROVE k \in indices
      <4>1. PICK c \in Open : k = Key(c)
        OBVIOUS
      <4>2. k = index(<<c, QuadY>>)
        BY <4>1, <3>3
      <4> QED
        BY <4>1, <4>2, <3>1
    <3>6. ASSUME NEW k \in indices PROVE k \in opened
      <4>1. PICK q \in open : k = index(q)
        OBVIOUS
      <4> QED
        BY <4>1, <3>2, <3>4
    <3> QED
      BY <3>5, <3>6
  <2>5. Cardinality(DOMAIN cache) <= QuadsAcross
    <3> DEFINE base == QuadY * QuadsAcross
               row == base .. base + QuadsAcross - 1
    <3>1. base \in Int
      BY <1>4, Bounds
    <3>2. Open \subseteq 0 .. QuadsAcross - 1
      BY DEF Open
    <3>3. DOMAIN cache \subseteq row
      <4> HIDE DEF base
      <4>1. \A c \in Open : base + c \in row
        BY <1>1, <3>1, <3>2
      <4> QED
        BY <2>1, <4>1 DEF Key, base
    <3>4. IsFiniteSet(row) /\ Cardinality(row) = QuadsAcross
      <4> HIDE DEF base
      <4>1. base + QuadsAcross - 1 \in Int
        BY <1>1, <3>1
      <4> QED
        BY <1>1, <3>1, <4>1, FS_Interval
    <3> QED
      BY <3>3, <3>4, FS_Subset
  <2> QED
    BY <2>1, <2>4, <2>5 DEF CacheHoldsOpenQuads, QuadsAcross
<1> QED
  BY <1>2, <1>3, <1>4

\* The cache holds the records of the open quads and of no other, at most one
\* row of quads.
THEOREM CacheIsBounded == Spec => []CacheHoldsOpenQuads
  BY CacheHoldsOpen, Invariance, PTL

-----------------------------------------------------------------------------
\* The order of the invocations.

QuadOf(call) == <<call.at[1] \div 2, call.at[2] \div 2>>

\* The corner of its quad that an invocation is at.
LaneOf(call) == (call.at[1] % 2) + 2 * (call.at[2] % 2)

IsRecord(call, q, l) ==
    call.mode = "record" /\ QuadOf(call) = q /\ LaneOf(call) = l

Current == <<QuadX, QuadY>>

\* The loops have come to the quad.
Reached(q) == q[2] > QuadY \/ (q[2] = QuadY /\ Begun(q[1]))

\* The corners of a quad are recorded one after the other, once, and a replay
\* of the quad follows the last one.
InOrder ==
    /\ calls \in Seq([mode : {"record", "replay"}, at : Nat \X Nat])
    /\ \A k \in 1 .. Len(calls) :
          calls[k].mode = "record" /\ LaneOf(calls[k]) # 0 =>
            k > 1 /\ IsRecord(calls[k - 1], QuadOf(calls[k]), LaneOf(calls[k]) - 1)
    /\ \A k \in 1 .. Len(calls) - 1 :
          calls[k].mode = "record" /\ LaneOf(calls[k]) = 3 =>
            calls[k + 1].mode = "replay" /\ QuadOf(calls[k + 1]) = QuadOf(calls[k])
    /\ \A j, k \in 1 .. Len(calls) :
          /\ calls[j].mode = "record" /\ calls[k].mode = "record"
          /\ QuadOf(calls[j]) = QuadOf(calls[k]) /\ LaneOf(calls[j]) = LaneOf(calls[k])
          => j = k
    /\ \A r \in 1 .. Len(calls) :
          calls[r].mode = "replay" => \E k \in 1 .. r - 1 : IsRecord(calls[k], QuadOf(calls[r]), 3)

\* What is recorded is what the loops have come to; what is open is recorded.
RecordsFollowCursor ==
    /\ \A c \in Open : phase # "done" /\ ~(phase = "probe" /\ c = QuadX) =>
          \E k \in 1 .. Len(calls) : IsRecord(calls[k], <<c, QuadY>>, 3)
    /\ \A k \in 1 .. Len(calls) : calls[k].mode = "record" =>
          /\ Reached(QuadOf(calls[k]))
          /\ phase = "probe" /\ QuadOf(calls[k]) = Current => LaneOf(calls[k]) < lane
    /\ phase = "visit" \/ (phase = "probe" /\ lane = 0) =>
          calls = <<>> \/ calls[Len(calls)].mode = "replay"
    /\ phase = "probe" /\ lane > 0 => calls # <<>> /\ IsRecord(calls[Len(calls)], Current, lane - 1)
    /\ phase = "replay" /\ calls # <<>> /\ calls[Len(calls)].mode = "record" =>
          QuadOf(calls[Len(calls)]) = Current

OrderInv == derivatives => InOrder /\ RecordsFollowCursor

LEMMA CallTypes ==
  ASSUME InOrder, NEW k \in 1 .. Len(calls)
  PROVE  /\ calls[k].mode \in {"record", "replay"} /\ calls[k].at \in Nat \X Nat
         /\ QuadOf(calls[k]) \in Nat \X Nat /\ LaneOf(calls[k]) \in 0 .. 3
         /\ Len(calls) \in Nat
<1>1. calls \in Seq([mode : {"record", "replay"}, at : Nat \X Nat]) /\ Len(calls) \in Nat
  BY LenProperties DEF InOrder
<1>2. calls[k] \in [mode : {"record", "replay"}, at : Nat \X Nat]
  BY <1>1, ElementOfSeq
<1>3. calls[k].at \in Nat \X Nat /\ calls[k].mode \in {"record", "replay"}
  BY <1>2
<1>4. calls[k].at[1] \in Nat /\ calls[k].at[2] \in Nat
  BY <1>3
<1>5. \A m \in Nat : m \div 2 \in Nat /\ m % 2 \in 0 .. 1
  OBVIOUS
<1>6. QuadOf(calls[k]) \in Nat \X Nat
  BY <1>4, <1>5 DEF QuadOf
<1>7. LaneOf(calls[k]) \in 0 .. 3
  <2>1. calls[k].at[1] % 2 \in 0 .. 1 /\ calls[k].at[2] % 2 \in 0 .. 1
    BY <1>4, <1>5
  <2>2. \A a, b \in 0 .. 1 : a + 2 * b \in 0 .. 3
    OBVIOUS
  <2> QED BY <2>1, <2>2 DEF LaneOf
<1> QED BY <1>1, <1>3, <1>6, <1>7

\* Appending an invocation leaves the earlier ones as they were.
LEMMA CallAppended ==
  ASSUME InOrder, NEW c \in [mode : {"record", "replay"}, at : Nat \X Nat], calls' = Append(calls, c)
  PROVE  /\ calls' \in Seq([mode : {"record", "replay"}, at : Nat \X Nat])
         /\ Len(calls) \in Nat /\ Len(calls') = Len(calls) + 1
         /\ calls'[Len(calls) + 1] = c
         /\ \A k \in 1 .. Len(calls) : calls'[k] = calls[k]
<1>1. calls \in Seq([mode : {"record", "replay"}, at : Nat \X Nat])
  BY DEF InOrder
<1> QED BY <1>1, AppendProperties

\* The corner that lane l stands for.
LEMMA CornerOfQuad ==
  ASSUME Cursor, phase # "done", NEW l \in 0 .. 3
  PROVE  LET c == Call("record", Corner(l))
         IN  /\ c \in [mode : {"record", "replay"}, at : Nat \X Nat]
             /\ c.mode = "record" /\ QuadOf(c) = Current /\ LaneOf(c) = l
<1>1. QuadX \in Nat /\ QuadY \in Nat
  BY Bounds
<1>2. /\ (2 * QuadX + (l % 2)) \div 2 = QuadX /\ (2 * QuadX + (l % 2)) % 2 = l % 2
      /\ (2 * QuadY + (l \div 2)) \div 2 = QuadY /\ (2 * QuadY + (l \div 2)) % 2 = l \div 2
      /\ 2 * QuadX + (l % 2) \in Nat /\ 2 * QuadY + (l \div 2) \in Nat
      /\ (l % 2) + 2 * (l \div 2) = l
  <2>1. \A m \in Nat : /\ (2 * m) \div 2 = m /\ (2 * m) % 2 = 0
                       /\ (2 * m + 1) \div 2 = m /\ (2 * m + 1) % 2 = 1
    OBVIOUS
  <2>2. l % 2 \in {0, 1} /\ l \div 2 \in {0, 1} /\ (l % 2) + 2 * (l \div 2) = l
    OBVIOUS
  <2> HIDE DEF QuadX, QuadY
  <2> QED BY <1>1, <2>1, <2>2
<1> QED BY <1>2 DEF Call, Corner, QuadOf, LaneOf, Current

\* Positions in a sequence that has one element more.
LEMMA EarlierCalls ==
  ASSUME NEW n \in Nat
  PROVE  /\ \A k \in 1 .. n + 1 : k # n + 1 => k \in 1 .. n
         /\ \A k \in 1 .. n : k > 1 => k - 1 \in 1 .. n
         /\ \A k \in 1 .. n : k # n => k \in 1 .. n - 1 /\ k + 1 \in 1 .. n
  OBVIOUS

\* What an invocation has to be to come next.
LEMMA NextInOrder ==
  ASSUME InOrder, NEW c \in [mode : {"record", "replay"}, at : Nat \X Nat],
         calls' = Append(calls, c), NEW n, n = Len(calls),
         c.mode = "record" /\ LaneOf(c) # 0 =>
           n > 0 /\ IsRecord(calls[n], QuadOf(c), LaneOf(c) - 1),
         n > 0 /\ calls[n].mode = "record" /\ LaneOf(calls[n]) = 3 =>
           c.mode = "replay" /\ QuadOf(c) = QuadOf(calls[n]),
         c.mode = "record" =>
           \A k \in 1 .. n : ~IsRecord(calls[k], QuadOf(c), LaneOf(c)),
         c.mode = "replay" => \E k \in 1 .. n : IsRecord(calls[k], QuadOf(c), 3)
  PROVE  InOrder'
<1>1. /\ calls' \in Seq([mode : {"record", "replay"}, at : Nat \X Nat])
      /\ n \in Nat /\ Len(calls') = n + 1 /\ calls'[n + 1] = c
      /\ \A k \in 1 .. n : calls'[k] = calls[k]
  BY CallAppended
<1>7. /\ \A k \in 1 .. n + 1 : k # n + 1 => k \in 1 .. n /\ calls'[k] = calls[k]
      /\ \A k \in 1 .. n : k > 1 => calls'[k - 1] = calls[k - 1]
      /\ \A k \in 1 .. n : k # n => k \in 1 .. n - 1 /\ calls'[k + 1] = calls[k + 1]
  <2>1. \A k \in 1 .. n + 1 : k # n + 1 => k \in 1 .. n
    BY <1>1, EarlierCalls
  <2>2. /\ \A k \in 1 .. n : k > 1 => k - 1 \in 1 .. n
        /\ \A k \in 1 .. n : k # n => k \in 1 .. n - 1 /\ k + 1 \in 1 .. n
    BY <1>1, EarlierCalls
  <2> QED BY <1>1, <2>1, <2>2, Zenon
<1>2. ASSUME NEW k \in 1 .. n + 1, calls'[k].mode = "record", LaneOf(calls'[k]) # 0
      PROVE  k > 1 /\ IsRecord(calls'[k - 1], QuadOf(calls'[k]), LaneOf(calls'[k]) - 1)
  <2>1. CASE k = n + 1
    <3>1. n > 0 /\ IsRecord(calls[n], QuadOf(c), LaneOf(c) - 1)
      BY <1>1, <1>2, <2>1
    <3>2. calls'[k - 1] = calls[n] /\ k > 1
      BY <1>1, <2>1, <3>1
    <3> QED BY <1>1, <2>1, <3>1, <3>2
  <2>2. CASE k # n + 1
    <3>1. k \in 1 .. n /\ calls'[k] = calls[k]
      BY <1>7, <2>2, Zenon
    <3>2. k > 1 /\ IsRecord(calls[k - 1], QuadOf(calls[k]), LaneOf(calls[k]) - 1)
      BY <1>2, <3>1 DEF InOrder
    <3>3. calls'[k - 1] = calls[k - 1]
      BY <1>7, <3>1, <3>2, Zenon
    <3> QED BY <3>1, <3>2, <3>3
  <2> QED BY <2>1, <2>2
<1>3. ASSUME NEW k \in 1 .. n, calls'[k].mode = "record", LaneOf(calls'[k]) = 3
      PROVE  calls'[k + 1].mode = "replay" /\ QuadOf(calls'[k + 1]) = QuadOf(calls'[k])
  <2>1. calls'[k] = calls[k]
    BY <1>1
  <2>2. CASE k = n
    BY <1>1, <1>3, <2>1, <2>2
  <2>3. CASE k # n
    <3>1. k \in 1 .. n - 1 /\ calls'[k + 1] = calls[k + 1]
      BY <1>7, <2>3, Zenon
    <3> QED BY <1>3, <2>1, <3>1 DEF InOrder
  <2> QED BY <2>2, <2>3
<1>4. ASSUME NEW j \in 1 .. n + 1, NEW k \in 1 .. n + 1,
             calls'[j].mode = "record", calls'[k].mode = "record",
             QuadOf(calls'[j]) = QuadOf(calls'[k]), LaneOf(calls'[j]) = LaneOf(calls'[k])
      PROVE  j = k
  <2>1. CASE j = n + 1 /\ k # n + 1
    <3>1. k \in 1 .. n /\ calls'[k] = calls[k] /\ calls'[j] = c
      BY <1>1, <1>7, <2>1, Zenon
    <3>2. IsRecord(calls[k], QuadOf(c), LaneOf(c)) /\ c.mode = "record"
      BY <1>4, <3>1 DEF IsRecord
    <3> QED BY <3>1, <3>2
  <2>2. CASE j # n + 1 /\ k = n + 1
    <3>1. j \in 1 .. n /\ calls'[j] = calls[j] /\ calls'[k] = c
      BY <1>1, <1>7, <2>2, Zenon
    <3>2. IsRecord(calls[j], QuadOf(c), LaneOf(c)) /\ c.mode = "record"
      BY <1>4, <3>1 DEF IsRecord
    <3> QED BY <3>1, <3>2
  <2>3. CASE j # n + 1 /\ k # n + 1
    <3>1. j \in 1 .. n /\ calls'[j] = calls[j] /\ k \in 1 .. n /\ calls'[k] = calls[k]
      BY <1>7, <2>3, Zenon
    <3>2. /\ calls[j].mode = "record" /\ calls[k].mode = "record"
          /\ QuadOf(calls[j]) = QuadOf(calls[k]) /\ LaneOf(calls[j]) = LaneOf(calls[k])
      BY <1>4, <3>1
    <3>3. \A i, m \in 1 .. n :
            /\ calls[i].mode = "record" /\ calls[m].mode = "record"
            /\ QuadOf(calls[i]) = QuadOf(calls[m]) /\ LaneOf(calls[i]) = LaneOf(calls[m])
            => i = m
      BY <1>1 DEF InOrder
    <3> QED BY <3>1, <3>2, <3>3
  <2> QED BY <2>1, <2>2, <2>3
<1>5. ASSUME NEW r \in 1 .. n + 1, calls'[r].mode = "replay"
      PROVE  \E k \in 1 .. r - 1 : IsRecord(calls'[k], QuadOf(calls'[r]), 3)
  <2>1. CASE r = n + 1
    <3>1. PICK k \in 1 .. n : IsRecord(calls[k], QuadOf(c), 3)
      BY <1>1, <1>5, <2>1
    <3>2. k \in 1 .. r - 1 /\ calls'[k] = calls[k] /\ calls'[r] = c
      BY <1>1, <2>1
    <3> QED BY <3>1, <3>2
  <2>2. CASE r # n + 1
    <3>1. r \in 1 .. n /\ calls'[r] = calls[r]
      BY <1>7, <2>2, Zenon
    <3>2. PICK k \in 1 .. r - 1 : IsRecord(calls[k], QuadOf(calls[r]), 3)
      BY <1>5, <3>1 DEF InOrder
    <3>3. calls'[k] = calls[k]
      BY <1>1, <3>1
    <3> QED BY <3>1, <3>2, <3>3
  <2> QED BY <2>1, <2>2
<1>8. \A k \in 1 .. Len(calls') :
        calls'[k].mode = "record" /\ LaneOf(calls'[k]) # 0 =>
          k > 1 /\ IsRecord(calls'[k - 1], QuadOf(calls'[k]), LaneOf(calls'[k]) - 1)
  BY <1>1, <1>2, Zenon
<1>9. \A k \in 1 .. Len(calls') - 1 :
        calls'[k].mode = "record" /\ LaneOf(calls'[k]) = 3 =>
          calls'[k + 1].mode = "replay" /\ QuadOf(calls'[k + 1]) = QuadOf(calls'[k])
  <2>1. 1 .. Len(calls') - 1 = 1 .. n
    BY <1>1
  <2> QED BY <2>1, <1>3
<1>10. \A j, k \in 1 .. Len(calls') :
         /\ calls'[j].mode = "record" /\ calls'[k].mode = "record"
         /\ QuadOf(calls'[j]) = QuadOf(calls'[k]) /\ LaneOf(calls'[j]) = LaneOf(calls'[k])
         => j = k
  <2>1. 1 .. Len(calls') = 1 .. n + 1
    BY <1>1
  <2> QED BY <2>1, <1>4
<1>11. \A r \in 1 .. Len(calls') :
         calls'[r].mode = "replay" =>
           \E k \in 1 .. r - 1 : IsRecord(calls'[k], QuadOf(calls'[r]), 3)
  BY <1>1, <1>5, Zenon
<1> QED BY <1>1, <1>8, <1>9, <1>10, <1>11, Zenon DEF InOrder

LEMMA OrderVisits ==
  ASSUME IInv, OrderInv, VisitPixel
  PROVE  OrderInv'
<1> USE DEF IInv
<1>1. phase = "visit" /\ derivatives /\ phase' \in {"probe", "replay"} /\ calls' = calls
  BY DEF VisitPixel
<1>2. InOrder /\ RecordsFollowCursor
  BY <1>1 DEF OrderInv
<1>3. PixelY' = PixelY /\ QuadX' = QuadX /\ QuadY' = QuadY /\ QuadsAcross' = QuadsAcross
      /\ x' = x /\ height' = height /\ Current' = Current /\ lane' = 0
  BY <1>1 DEF VisitPixel, PixelY, QuadX, QuadY, QuadsAcross, Current
<1>4. /\ width \in Nat \ {0} /\ x \in 0 .. width - 1 /\ QuadX \in 0 .. QuadsAcross - 1
      /\ QuadX = x \div 2 /\ PixelY \in 0 .. height - 1 /\ CacheIndex = Key(QuadX)
      /\ QuadsAcross \in Int
  BY <1>1, Bounds
<1>5. Open' = Open \cup {QuadX}
  BY <1>1, <1>3, <1>4 DEF Open, Begun, Ended
<1>6. \A q \in Nat \X Nat : Reached(q) => Reached(q)'
  BY <1>1, <1>3 DEF Reached, Begun
<1>7. DOMAIN cache = {Key(c) : c \in Open}
  BY <1>1 DEF CacheIsOpen
<1>8. QuadX \in Open <=> phase' = "replay"
  <2>1. \A c, d \in Int : Key(c) = Key(d) => c = d
    BY <1>1, KeyInjective
  <2>2. Open \subseteq Int /\ QuadX \in Int
    BY <1>4 DEF Open
  <2>3. CacheIndex \in DOMAIN cache <=> QuadX \in Open
    BY <1>4, <1>7, <2>1, <2>2
  <2> QED BY <2>3 DEF VisitPixel
<1>9. InOrder'
  BY <1>1, <1>2 DEF InOrder, IsRecord
<1>10. ASSUME phase' = "probe", NEW k \in 1 .. Len(calls), calls[k].mode = "record"
       PROVE  QuadOf(calls[k]) # Current
  <2>1. ~Reached(Current)
    <3>1. ~Begun(QuadX)
      BY <1>4, <1>8, <1>10 DEF Open, Ended
    <3>2. QuadY \in Int
      BY <1>1, Bounds
    <3> QED BY <3>1, <3>2 DEF Reached, Current
  <2> QED BY <1>2, <1>10, <2>1 DEF RecordsFollowCursor
<1>11. RecordsFollowCursor'
  <2>1. \A c \in Open' : ~(phase' = "probe" /\ c = QuadX) =>
          \E k \in 1 .. Len(calls) : IsRecord(calls[k], <<c, QuadY>>, 3)
    BY <1>1, <1>2, <1>5, <1>8 DEF RecordsFollowCursor
  <2>2. ASSUME NEW k \in 1 .. Len(calls), calls[k].mode = "record"
        PROVE  /\ Reached(QuadOf(calls[k]))'
               /\ phase' = "probe" => QuadOf(calls[k]) # Current
    <3>1. PICK q \in Nat \X Nat : q = QuadOf(calls[k])
      BY <1>2, CallTypes
    <3>2. Reached(q)
      BY <1>2, <2>2, <3>1 DEF RecordsFollowCursor
    <3>3. Reached(q)'
      BY <1>6, <3>2
    <3> QED BY <1>1, <1>10, <2>2, <3>1, <3>3 DEF Reached, Begun
  <2>3. calls = <<>> \/ calls[Len(calls)].mode = "replay"
    BY <1>1, <1>2 DEF RecordsFollowCursor
  <2>4. phase' # "visit" /\ lane' = 0
    BY <1>1, <1>3
  <2> QED BY <1>1, <1>3, <2>1, <2>2, <2>3, <2>4 DEF RecordsFollowCursor, Reached, Begun
<1> QED BY <1>9, <1>11 DEF OrderInv

LEMMA OrderProbes ==
  ASSUME IInv, OrderInv, Probe
  PROVE  OrderInv'
<1> USE DEF IInv
<1>1. phase = "probe" /\ derivatives /\ phase' \in {"probe", "replay"} /\ lane \in 0 .. 3
  BY DEF Probe, Cursor, TypeOK
<1>2. InOrder /\ RecordsFollowCursor
  BY <1>1 DEF OrderInv
<1>3. PixelY' = PixelY /\ QuadX' = QuadX /\ QuadY' = QuadY /\ QuadsAcross' = QuadsAcross
      /\ x' = x /\ height' = height /\ Current' = Current /\ lane' = lane + 1
  BY <1>1 DEF Probe, PixelY, QuadX, QuadY, QuadsAcross, Current
<1>4. /\ QuadX \in 0 .. QuadsAcross - 1 /\ QuadX = x \div 2 /\ x \in 0 .. width - 1
      /\ QuadY \in Int
  BY <1>1, Bounds
<1>5. Open' = Open /\ \A q : Reached(q)' <=> Reached(q)
  BY <1>1, <1>3 DEF Open, Begun, Ended, Reached
<1>6. PICK n : n = Len(calls)
  OBVIOUS
<1>7. PICK c : c = Call("record", Corner(lane))
  OBVIOUS
<1>8. /\ c \in [mode : {"record", "replay"}, at : Nat \X Nat]
      /\ c.mode = "record" /\ QuadOf(c) = Current /\ LaneOf(c) = lane
  BY <1>1, <1>7, CornerOfQuad
<1>9. calls' = Append(calls, c)
  BY <1>7 DEF Probe
<1>10. /\ n \in Nat /\ Len(calls') = n + 1 /\ calls'[n + 1] = c
       /\ \A k \in 1 .. n : calls'[k] = calls[k]
  BY <1>2, <1>6, <1>8, <1>9, CallAppended
<1>11. \A k \in 1 .. n : calls[k].mode = "record" =>
         Reached(QuadOf(calls[k])) /\ (QuadOf(calls[k]) = Current => LaneOf(calls[k]) < lane)
  BY <1>1, <1>2, <1>6 DEF RecordsFollowCursor
<1>12. /\ lane = 0 => n = 0 \/ calls[n].mode = "replay"
       /\ lane > 0 => n > 0 /\ IsRecord(calls[n], Current, lane - 1)
  <2>1. calls = <<>> <=> n = 0
    BY <1>2, <1>6, EmptySeq DEF InOrder
  <2> QED BY <1>1, <1>2, <1>6, <1>10, <2>1 DEF RecordsFollowCursor
<1>13. \A k \in 1 .. n : LaneOf(calls[k]) \in 0 .. 3
  BY <1>2, <1>6, CallTypes
<1>14. InOrder'
  <2>1. LaneOf(c) # 0 => n > 0 /\ IsRecord(calls[n], QuadOf(c), LaneOf(c) - 1)
    BY <1>1, <1>8, <1>12
  <2>2. ~(n > 0 /\ calls[n].mode = "record" /\ LaneOf(calls[n]) = 3)
    BY <1>1, <1>12 DEF IsRecord
  <2>3. \A k \in 1 .. n : ~IsRecord(calls[k], QuadOf(c), LaneOf(c))
    BY <1>1, <1>8, <1>11, <1>13 DEF IsRecord
  <2> QED BY <1>2, <1>6, <1>8, <1>9, <2>1, <2>2, <2>3, NextInOrder
<1>15. RecordsFollowCursor'
  <2>1. ASSUME NEW d \in Open, ~(phase' = "probe" /\ d = QuadX)
        PROVE  \E k \in 1 .. n + 1 : IsRecord(calls'[k], <<d, QuadY>>, 3)
    <3>1. CASE d = QuadX
      <4>1. lane = 3
        BY <2>1, <3>1, <1>1 DEF Probe
      <4>2. IsRecord(calls'[n + 1], <<d, QuadY>>, 3)
        BY <1>8, <1>10, <3>1, <4>1 DEF IsRecord, Current
      <4> QED BY <4>2, <1>10
    <3>2. CASE d # QuadX
      <4>1. PICK k \in 1 .. n : IsRecord(calls[k], <<d, QuadY>>, 3)
        BY <1>1, <1>2, <1>6, <2>1, <3>2 DEF RecordsFollowCursor
      <4>2. k \in 1 .. n + 1
        BY <1>10
      <4> QED BY <1>10, <4>1, <4>2
    <3> QED BY <3>1, <3>2
  <2>2. ASSUME NEW k \in 1 .. n + 1, calls'[k].mode = "record"
        PROVE  /\ Reached(QuadOf(calls'[k]))
               /\ QuadOf(calls'[k]) = Current => LaneOf(calls'[k]) < lane + 1
    <3>1. CASE k = n + 1
      <4>1. calls'[k] = c
        BY <1>10, <3>1
      <4>2. Reached(Current)
        BY <1>1, <1>4 DEF Begun, Reached, Current
      <4> QED BY <1>1, <1>8, <4>1, <4>2
    <3>2. CASE k # n + 1
      <4>1. k \in 1 .. n /\ calls'[k] = calls[k]
        BY <1>10, <3>2
      <4> QED BY <1>1, <1>11, <1>13, <2>2, <4>1
    <3> QED BY <3>1, <3>2
  <2>3. calls' # <<>>
    BY <1>10
  <2>4. calls'[n + 1].mode = "record" /\ QuadOf(calls'[n + 1]) = Current /\ IsRecord(calls'[n + 1], Current, lane' - 1)
    BY <1>1, <1>3, <1>8, <1>10 DEF IsRecord
  <2>5. ~(phase' = "visit" \/ (phase' = "probe" /\ lane' = 0))
    BY <1>1, <1>3
  <2>6. \A k \in 1 .. n + 1 : calls'[k].mode = "record" => Reached(QuadOf(calls[k]))'
    <3> SUFFICES ASSUME NEW k \in 1 .. n + 1, calls'[k].mode = "record" PROVE Reached(QuadOf(calls[k]))'
      OBVIOUS
    <3>1. PICK q : q = QuadOf(calls'[k])
      OBVIOUS
    <3>2. Reached(q)'
      BY <1>5, <2>2, <3>1
    <3> QED BY <3>1, <3>2 DEF Reached, Begun
  <2> QED BY <1>3, <1>5, <1>10, <2>1, <2>2, <2>3, <2>4, <2>5, <2>6 DEF RecordsFollowCursor
<1> QED BY <1>14, <1>15 DEF OrderInv

LEMMA OrderReplays ==
  ASSUME IInv, OrderInv, Replay
  PROVE  OrderInv'
<1> USE DEF IInv
<1>1. phase = "replay" /\ derivatives /\ derivatives' /\ width' = width /\ height' = height
      /\ Advance
  BY DEF Replay, Cursor, TypeOK
<1>2. InOrder /\ RecordsFollowCursor
  BY <1>1 DEF OrderInv
<1>3. /\ QuadX \in 0 .. QuadsAcross - 1 /\ QuadX \in Nat /\ QuadX = x \div 2
      /\ width \in Nat \ {0} /\ height \in Nat \ {0}
      /\ x \in 0 .. width - 1 /\ y \in 0 .. height - 1
      /\ PixelY \in 0 .. height - 1 /\ QuadY = PixelY \div 2 /\ QuadY \in Nat
  BY <1>1, Bounds
<1>4. PICK n : n = Len(calls)
  OBVIOUS
<1>5. PICK c : c = Call("replay", <<x, PixelY>>)
  OBVIOUS
<1>6. /\ c \in [mode : {"record", "replay"}, at : Nat \X Nat]
      /\ c.mode = "replay" /\ QuadOf(c) = Current
  BY <1>3, <1>5 DEF Call, QuadOf, Current
<1>7. calls' = Append(calls, c)
  BY <1>5 DEF Replay
<1>8. /\ n \in Nat /\ Len(calls') = n + 1 /\ calls'[n + 1] = c
      /\ \A k \in 1 .. n : calls'[k] = calls[k]
  BY <1>2, <1>4, <1>6, <1>7, CallAppended
<1>9. QuadX \in Open
  BY <1>1, <1>3 DEF Open, Begun, Ended
<1>10. InOrder'
  <2>1. n > 0 /\ calls[n].mode = "record" => QuadOf(calls[n]) = Current
    <3>1. n > 0 => calls # <<>>
      BY <1>4
    <3> QED BY <1>1, <1>2, <1>4, <3>1 DEF RecordsFollowCursor
  <2>2. \E k \in 1 .. n : IsRecord(calls[k], QuadOf(c), 3)
    BY <1>1, <1>2, <1>4, <1>6, <1>9 DEF RecordsFollowCursor, Current
  <2> QED BY <1>2, <1>4, <1>6, <1>7, <2>1, <2>2, NextInOrder
<1>11. \A q \in Nat \X Nat : Reached(q) => Reached(q)'
  <2> SUFFICES ASSUME NEW q \in Nat \X Nat, Reached(q) PROVE Reached(q)'
    OBVIOUS
  <2>1. PixelY' = height - 1 - y' /\ PixelY = height - 1 - y
    BY <1>1 DEF PixelY
  <2>2. QuadY' = PixelY' \div 2 /\ QuadX' = x' \div 2
    BY DEF QuadY, QuadX
  <2>3. q[1] \in Nat /\ q[2] \in Nat
    OBVIOUS
  <2>4. CASE x + 1 < width
    <3>1. x' = x + 1 /\ PixelY' = PixelY /\ QuadY' = QuadY
      BY <1>1, <1>3, <2>1, <2>2, <2>4 DEF Advance, QuadY
    <3>2. Begun(q[1]) => Begun(q[1])'
      BY <1>1, <1>3, <2>3, <3>1 DEF Begun
    <3> QED BY <3>1, <3>2 DEF Reached
  <2>5. CASE ~(x + 1 < width) /\ PixelY % 2 = 1
    <3>1. PixelY' = PixelY - 1 /\ QuadY' = QuadY
      BY <1>1, <1>3, <2>1, <2>2, <2>5 DEF Advance
    <3>2. Begun(q[1])'
      BY <1>1, <1>3, <2>5, <3>1 DEF Begun
    <3> QED BY <3>1, <3>2 DEF Reached
  <2>6. CASE ~(x + 1 < width) /\ PixelY % 2 = 0
    <3>1. PixelY' = PixelY - 1
      BY <1>1, <1>3, <2>1, <2>6 DEF Advance
    <3>2. QuadY' < QuadY
      BY <1>3, <2>2, <2>6, <3>1
    <3>3. QuadY' \in Int
      BY <1>3, <2>2, <3>1
    <3> QED BY <1>3, <2>3, <3>2, <3>3 DEF Reached
  <2> QED BY <1>3, <2>4, <2>5, <2>6
<1>12. RecordsFollowCursor'
  <2>1. phase' \in {"visit", "done"}
    BY <1>1 DEF Advance
  <2>2. ASSUME phase' # "done", NEW d \in Open'
        PROVE  \E k \in 1 .. n + 1 : IsRecord(calls'[k], <<d, QuadY'>>, 3)
    <3>1. d \in Open /\ QuadY' = QuadY
      BY <1>1, <2>2, OpenAfterReplay
    <3>2. PICK k \in 1 .. n : IsRecord(calls[k], <<d, QuadY>>, 3)
      BY <1>1, <1>2, <1>4, <3>1 DEF RecordsFollowCursor
    <3>3. k \in 1 .. n + 1
      BY <1>8
    <3> QED BY <1>8, <3>1, <3>2, <3>3
  <2>3. ASSUME NEW k \in 1 .. n + 1, calls'[k].mode = "record"
        PROVE  Reached(QuadOf(calls[k]))'
    <3>1. k \in 1 .. n /\ calls'[k] = calls[k]
      BY <1>6, <1>8, <2>3
    <3>2. PICK q \in Nat \X Nat : q = QuadOf(calls[k])
      BY <1>2, <1>4, <3>1, CallTypes
    <3>3. Reached(q)'
      BY <1>2, <1>4, <1>11, <2>3, <3>1, <3>2 DEF RecordsFollowCursor
    <3> QED BY <3>1, <3>2, <3>3 DEF Reached, Begun
  <2> QED BY <1>6, <1>8, <2>1, <2>2, <2>3 DEF RecordsFollowCursor
<1> QED BY <1>10, <1>12 DEF OrderInv

LEMMA OrderNext == IInv /\ OrderInv /\ [Next]_vars => OrderInv'
<1> SUFFICES ASSUME IInv, OrderInv, [Next]_vars PROVE OrderInv'
  OBVIOUS
<1>1. CASE RunPixel
  BY <1>1 DEF RunPixel, OrderInv
<1>2. CASE VisitPixel
  BY <1>2, OrderVisits
<1>3. CASE Probe
  BY <1>3, OrderProbes
<1>4. CASE Replay
  BY <1>4, OrderReplays
<1>5. CASE UNCHANGED vars
  BY <1>5 DEF vars, OrderInv, InOrder, RecordsFollowCursor, Current, Reached, Open, Begun, Ended,
     QuadX, QuadY, QuadsAcross, PixelY
<1> QED
  BY <1>1, <1>2, <1>3, <1>4, <1>5 DEF Next, Returned

LEMMA OrderInit == Init => OrderInv
<1> SUFFICES ASSUME Init PROVE OrderInv
  OBVIOUS
<1>1. calls = <<>> /\ Len(calls) = 0 /\ phase = "visit"
  BY DEF Init
<1>2. Open = {}
  <2>1. width \in Nat \ {0} /\ height \in Nat \ {0}
    BY ExtentsAssumption DEF Init
  <2>2. PixelY = height - 1 /\ x = 0
    BY <2>1 DEF Init, PixelY
  <2> QED BY <1>1, <2>1, <2>2 DEF Open, Begun, QuadsAcross
<1>3. InOrder
  BY <1>1 DEF InOrder
<1> QED BY <1>1, <1>2, <1>3 DEF OrderInv, RecordsFollowCursor

\* A quad that has been replayed was recorded in four invocations in a row,
\* and the next one replayed it.
LEMMA FourRecords ==
  ASSUME InOrder, NEW n, n = Len(calls), NEW r \in 1 .. n, calls[r].mode = "replay"
  PROVE  \E b \in 1 .. n :
            /\ b + 4 \in 1 .. n
            /\ calls[b + 4].mode = "replay" /\ QuadOf(calls[b + 4]) = QuadOf(calls[r])
            /\ \A k \in 1 .. n :
                  calls[k].mode = "record" /\ QuadOf(calls[k]) = QuadOf(calls[r])
                    <=> k \in b .. b + 3
            /\ b + 3 < r
<1>1. PICK q : q = QuadOf(calls[r])
  OBVIOUS
<1>2. n \in Nat
  BY CallTypes
<1>3. PICK k3 \in 1 .. r - 1 : IsRecord(calls[k3], q, 3)
  BY <1>1 DEF InOrder
<1>4. k3 \in 1 .. n /\ k3 < n /\ k3 < r
  BY <1>2
<1>5. \A k \in 1 .. n, l \in 1 .. 3 :
        IsRecord(calls[k], q, l) => k > 1 /\ IsRecord(calls[k - 1], q, l - 1)
  <2> SUFFICES ASSUME NEW k \in 1 .. n, NEW l \in 1 .. 3, IsRecord(calls[k], q, l)
               PROVE  k > 1 /\ IsRecord(calls[k - 1], q, l - 1)
    OBVIOUS
  <2>1. calls[k].mode = "record" /\ QuadOf(calls[k]) = q /\ LaneOf(calls[k]) = l /\ l # 0
    BY DEF IsRecord
  <2>2. k > 1 /\ IsRecord(calls[k - 1], QuadOf(calls[k]), LaneOf(calls[k]) - 1)
    BY <2>1 DEF InOrder
  <2> QED BY <2>1, <2>2
<1>6. k3 > 1 /\ IsRecord(calls[k3 - 1], q, 2)
  BY <1>3, <1>4, <1>5
<1>7. k3 - 1 > 1 /\ IsRecord(calls[k3 - 2], q, 1)
  <2>1. k3 - 1 \in 1 .. n /\ (k3 - 1) - 1 = k3 - 2
    BY <1>2, <1>4, <1>6
  <2> QED BY <1>6, <2>1, <1>5
<1>8. k3 - 2 > 1 /\ IsRecord(calls[k3 - 3], q, 0)
  <2>1. k3 - 2 \in 1 .. n /\ (k3 - 2) - 1 = k3 - 3
    BY <1>2, <1>4, <1>7
  <2> QED BY <1>7, <2>1, <1>5
<1>9. PICK b \in 1 .. n : b = k3 - 3
  BY <1>2, <1>4, <1>8
<1>10. IsRecord(calls[b], q, 0) /\ IsRecord(calls[b + 1], q, 1)
       /\ IsRecord(calls[b + 2], q, 2) /\ IsRecord(calls[b + 3], q, 3)
  <2>1. b + 1 = k3 - 2 /\ b + 2 = k3 - 1 /\ b + 3 = k3
    BY <1>9
  <2> QED BY <1>3, <1>6, <1>7, <1>8, <1>9, <2>1
<1>11. \A j, k \in 1 .. n, l \in 0 .. 3 : IsRecord(calls[j], q, l) /\ IsRecord(calls[k], q, l) => j = k
  BY DEF InOrder, IsRecord
<1>12. /\ b + 1 \in 1 .. n /\ b + 2 \in 1 .. n /\ b + 3 \in 1 .. n /\ b + 4 \in 1 .. n
       /\ b + 3 = k3 /\ b + 4 = k3 + 1
  BY <1>2, <1>4, <1>9
<1>13. ASSUME NEW k \in 1 .. n
       PROVE  calls[k].mode = "record" /\ QuadOf(calls[k]) = q <=> k \in b .. b + 3
  <2>1. ASSUME calls[k].mode = "record", QuadOf(calls[k]) = q PROVE k \in b .. b + 3
    <3>1. PICK l \in 0 .. 3 : l = LaneOf(calls[k])
      BY CallTypes
    <3>2. IsRecord(calls[k], q, l)
      BY <2>1, <3>1 DEF IsRecord
    <3>3. l \in {0, 1, 2, 3}
      OBVIOUS
    <3>4. k = b \/ k = b + 1 \/ k = b + 2 \/ k = b + 3
      BY <1>10, <1>11, <1>12, <3>2, <3>3
    <3> QED BY <1>2, <3>4
  <2>2. ASSUME k \in b .. b + 3 PROVE calls[k].mode = "record" /\ QuadOf(calls[k]) = q
    <3>1. k = b \/ k = b + 1 \/ k = b + 2 \/ k = b + 3
      BY <1>2, <2>2
    <3> QED BY <1>10, <3>1 DEF IsRecord
  <2> QED BY <2>1, <2>2
<1>14. calls[b + 4].mode = "replay" /\ QuadOf(calls[b + 4]) = q
  <2>1. k3 \in 1 .. Len(calls) - 1
    BY <1>2, <1>4
  <2> QED BY <2>1, <1>3, <1>12 DEF InOrder, IsRecord
<1>15. b + 3 < r
  BY <1>4, <1>12
<1> QED BY <1>1, <1>12, <1>13, <1>14, <1>15

LEMMA OrderHolds == OrderInv => InvocationOrder
<1> SUFFICES ASSUME InOrder, calls # <<>> PROVE
      LET n    == Len(calls)
          quad(c) == <<c.at[1] \div 2, c.at[2] \div 2>>
          ofQuad  == {k \in 1 .. n : quad(calls[k]) = quad(calls[n])}
          records == {k \in ofQuad : calls[k].mode = "record"}
          replays == ofQuad \ records
      IN  /\ \A j, k \in records : calls[j].at = calls[k].at => j = k
          /\ replays # {} =>
               /\ Cardinality(records) = 4
               /\ \A k \in records : /\ \A r \in replays : k < r
                                  /\ \E r \in replays : r - k <= 4
  BY DEF OrderInv, InvocationOrder
<1>1. PICK n : n = Len(calls)
  OBVIOUS
<1>2. PICK q : q = QuadOf(calls[n])
  OBVIOUS
<1> DEFINE ofQuad  == {k \in 1 .. n : QuadOf(calls[k]) = q}
           records == {k \in ofQuad : calls[k].mode = "record"}
           replays == ofQuad \ records
<1>3. \A j, k \in records : calls[j].at = calls[k].at => j = k
  BY <1>1 DEF InOrder, QuadOf, LaneOf
<1>4. ASSUME replays # {}
      PROVE  /\ Cardinality(records) = 4
             /\ \A k \in records : /\ \A r \in replays : k < r
                                /\ \E r \in replays : r - k <= 4
  <2>1. \A r \in replays : r \in 1 .. n /\ calls[r].mode = "replay" /\ QuadOf(calls[r]) = q
    BY <1>1, CallTypes
  <2>2. PICK r0 \in replays : TRUE
    BY <1>4
  <2>3. PICK b \in 1 .. n :
            /\ b + 4 \in 1 .. n
            /\ calls[b + 4].mode = "replay" /\ QuadOf(calls[b + 4]) = QuadOf(calls[r0])
            /\ \A k \in 1 .. n :
                  calls[k].mode = "record" /\ QuadOf(calls[k]) = QuadOf(calls[r0])
                    <=> k \in b .. b + 3
            /\ b + 3 < r0
    <3>1. r0 \in 1 .. n /\ calls[r0].mode = "replay" /\ QuadOf(calls[r0]) = q
      BY <2>1
    <3> HIDE DEF replays, records
    <3> QED BY <1>1, <3>1, FourRecords
  <2>4. records = b .. b + 3
    <3> QuadOf(calls[r0]) = q
      OBVIOUS
    <3>1. \A k \in b .. b + 3 : k \in 1 .. n
      BY <2>3, <1>1
    <3> QED BY <2>3, <3>1
  <2>5. Cardinality(b .. b + 3) = 4
    BY FS_Interval
  <2>6. b + 4 \in replays
    BY <2>3
  <2>7. \A r \in replays : b + 3 < r
    <3> SUFFICES ASSUME NEW r \in replays PROVE b + 3 < r
      OBVIOUS
    <3>1. PICK d \in 1 .. n :
            /\ d + 4 \in 1 .. n
            /\ calls[d + 4].mode = "replay" /\ QuadOf(calls[d + 4]) = QuadOf(calls[r])
            /\ \A k \in 1 .. n :
                  calls[k].mode = "record" /\ QuadOf(calls[k]) = QuadOf(calls[r])
                    <=> k \in d .. d + 3
            /\ d + 3 < r
      <4>1. r \in 1 .. n /\ calls[r].mode = "replay" /\ QuadOf(calls[r]) = q
        BY <2>1
      <4> HIDE DEF replays, records
      <4> QED BY <1>1, <4>1, FourRecords
    <3>2. b + 3 \in d .. d + 3
      BY <2>3, <3>1
    <3> QED BY <3>1, <3>2, <2>1
  <2> HIDE DEF replays, records
  <2> QED BY <2>4, <2>5, <2>6, <2>7, <2>1
<1> QED BY <1>1, <1>2, <1>3, <1>4 DEF QuadOf

\* A quad is probed once, in four invocations in a row, immediately before the
\* first of its pixels is computed.
THEOREM InvocationsInOrder == Spec => []InvocationOrder
  BY OrderInit, OrderNext, OrderHolds, Invariance, PTL DEF Spec
=============================================================================
