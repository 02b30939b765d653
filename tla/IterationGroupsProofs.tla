----------------------- MODULE IterationGroupsProofs -----------------------
(***************************************************************************)
(* Proofs about IterationGroups, for every set of steps and every length   *)
(* of chain: the types, that the groups partition the chain, that no group *)
(* makes the executor drop a step, what the scan throws for, that particle *)
(* state has one owner in its group, and that the scan finds the grouping  *)
(* that the whole chain calls for.                                         *)
(***************************************************************************)
EXTENDS IterationGroups, NaturalsInduction, WellFoundedInduction,
        SequenceTheorems, TLAPS

-----------------------------------------------------------------------------
\* Runs of consecutive indices.

\* A run has a first and a last index, and all between.
LEMMA RunBounds ==
    ASSUME NEW g \in GroupType, IsRun(g)
    PROVE  /\ g.steps \in Seq(Nat) /\ Len(g.steps) \in Nat \ {0}
           /\ First(g) \in Nat /\ Last(g) \in Nat
           /\ Last(g) = First(g) + Len(g.steps) - 1
           /\ First(g) <= Last(g)
<1>1. g.steps \in Seq(Nat) /\ Len(g.steps) \in Nat \ {0}
  BY DEF IsRun, GroupType
<1>2. First(g) \in Nat /\ Last(g) \in Nat
  BY <1>1 DEF First, Last
<1>3. Last(g) = First(g) + Len(g.steps) - 1
  BY <1>1 DEF IsRun, Last
<1> QED BY <1>1, <1>2, <1>3

\* A run of one and of two indices, and one that grows.
LEMMA RunOfOne ==
    ASSUME NEW g \in GroupType, NEW m \in Nat, g.steps = <<m>>
    PROVE  IsRun(g) /\ First(g) = m /\ Last(g) = m
BY DEF IsRun, First, Last, GroupType

LEMMA RunOfTwo ==
    ASSUME NEW g \in GroupType, NEW m \in Nat, g.steps = <<m, m + 1>>
    PROVE  IsRun(g) /\ First(g) = m /\ Last(g) = m + 1
BY DEF IsRun, First, Last, GroupType

LEMMA RunGrows ==
    ASSUME NEW g \in GroupType, IsRun(g)
    PROVE  /\ Joined(g, Last(g) + 1) \in GroupType
           /\ IsRun(Joined(g, Last(g) + 1))
           /\ First(Joined(g, Last(g) + 1)) = First(g)
           /\ Last(Joined(g, Last(g) + 1)) = Last(g) + 1
<1> DEFINE h == Joined(g, Last(g) + 1)
<1>1. /\ g.steps \in Seq(Nat) /\ Len(g.steps) \in Nat \ {0}
      /\ First(g) \in Nat /\ Last(g) \in Nat
      /\ Last(g) = First(g) + Len(g.steps) - 1
  BY RunBounds
<1>2. h \in GroupType /\ h.steps = Append(g.steps, Last(g) + 1)
  <2>1. Append(g.steps, Last(g) + 1) \in Seq(Nat)
    BY <1>1
  <2>2. h.steps = Append(g.steps, Last(g) + 1)
    BY DEF Joined, GroupType
  <2>3. h \in GroupType
    BY <2>1 DEF Joined, GroupType
  <2> QED BY <2>2, <2>3
<1> HIDE DEF h
<1>3. Len(h.steps) = Len(g.steps) + 1 /\ h.steps[Len(g.steps) + 1] = Last(g) + 1
  BY <1>1, <1>2
<1>4. ASSUME NEW i \in 1 .. Len(g.steps) PROVE h.steps[i] = g.steps[i]
  BY <1>1, <1>2
<1>5. First(h) = First(g) /\ Last(h) = Last(g) + 1
  BY <1>1, <1>3, <1>4 DEF First, Last
<1>6. ASSUME NEW i \in 1 .. Len(h.steps) PROVE h.steps[i] = First(h) + i - 1
  <2>1. CASE i \in 1 .. Len(g.steps)
    BY <2>1, <1>4, <1>5 DEF IsRun
  <2>2. CASE i = Len(g.steps) + 1
    BY <2>2, <1>1, <1>3, <1>5
  <2> QED BY <2>1, <2>2, <1>1, <1>3
<1>7. h.steps # <<>>
  BY <1>1, <1>3
<1>8. IsRun(h)
  BY <1>6, <1>7 DEF IsRun
<1> QED BY <1>2, <1>5, <1>8 DEF h

-----------------------------------------------------------------------------
\* What the edits of the scan do to a list of groups that cuts 1 .. n.

\* No group reaches beyond n.
LEMMA CutsBounds ==
    ASSUME NEW gs \in Seq(GroupType), NEW n \in Nat, Cuts(gs, n), NEW k \in 1 .. Len(gs)
    PROVE  /\ gs[k] \in GroupType /\ IsRun(gs[k])
           /\ First(gs[k]) \in 1 .. n /\ Last(gs[k]) \in 1 .. n
<1>1. Len(gs) \in Nat \ {0} /\ gs # <<>> /\ gs[k] \in GroupType /\ IsRun(gs[k])
  BY DEF Cuts
<1>2. First(gs[k]) \in Nat /\ Last(gs[k]) \in Nat /\ First(gs[k]) <= Last(gs[k])
  BY <1>1, RunBounds
<1>3. First(gs[k]) >= 1
  <2>1. CASE k = 1
    BY <2>1, <1>1 DEF Cuts
  <2>2. CASE k # 1
    <3>1. k - 1 \in 1 .. Len(gs) /\ gs[k - 1] \in GroupType /\ IsRun(gs[k - 1])
      BY <2>2, <1>1 DEF Cuts
    <3>2. Last(gs[k - 1]) \in Nat
      BY <3>1, RunBounds
    <3> QED BY <2>2, <3>2 DEF Cuts
  <2> QED BY <2>1, <2>2
<1>4. Last(gs[k]) <= n
  <2>1. n = Last(gs[Len(gs)])
    BY <1>1 DEF Cuts
  <2>2. CASE k = Len(gs)
    BY <2>1, <2>2, <1>2
  <2>3. CASE k # Len(gs)
    <3>1. k \in 1 .. Len(gs) - 1 /\ Len(gs) \in 1 .. Len(gs)
      BY <2>3, <1>1
    <3>2. Last(gs[k]) < First(gs[Len(gs)])
      BY <3>1 DEF Cuts
    <3>3. gs[Len(gs)] \in GroupType /\ IsRun(gs[Len(gs)])
      BY <3>1 DEF Cuts
    <3>4. First(gs[Len(gs)]) \in Nat /\ First(gs[Len(gs)]) <= Last(gs[Len(gs)])
      BY <3>3, RunBounds
    <3> QED BY <2>1, <3>2, <3>4, <1>2
  <2> QED BY <2>2, <2>3
<1> QED BY <1>1, <1>2, <1>3, <1>4

\* A run that starts where the cut ends continues it.
LEMMA CutsAppend ==
    ASSUME NEW gs \in Seq(GroupType), NEW n \in Nat, Cuts(gs, n),
           NEW g \in GroupType, IsRun(g), First(g) = n + 1
    PROVE  Cuts(Append(gs, g), Last(g))
<1> DEFINE hs == Append(gs, g)
<1>1. /\ hs \in Seq(GroupType) /\ Len(gs) \in Nat /\ Len(hs) = Len(gs) + 1
      /\ hs[Len(gs) + 1] = g
      /\ \A k \in 1 .. Len(gs) : hs[k] = gs[k]
  OBVIOUS
<1> HIDE DEF hs
<1>2. ASSUME NEW k \in 1 .. Len(hs)
      PROVE  /\ IsRun(hs[k])
             /\ First(hs[k]) = IF k = 1 THEN 1 ELSE Last(hs[k - 1]) + 1
             /\ \A j \in 1 .. k - 1 : Last(hs[j]) < First(hs[k])
  <2>1. CASE k \in 1 .. Len(gs)
    <3>1. k # 1 => k - 1 \in 1 .. Len(gs)
      BY <2>1, <1>1
    <3>2. \A j \in 1 .. k - 1 : j \in 1 .. Len(gs)
      BY <2>1, <1>1
    <3> QED BY <2>1, <3>1, <3>2, <1>1 DEF Cuts
  <2>2. CASE k = Len(gs) + 1
    <3>1. hs[k] = g /\ k - 1 = Len(gs)
      BY <2>2, <1>1
    <3>2. ASSUME NEW j \in 1 .. k - 1 PROVE Last(hs[j]) < First(hs[k])
      <4>1. j \in 1 .. Len(gs) /\ hs[j] = gs[j]
        BY <3>1, <1>1
      <4>2. Last(gs[j]) \in 1 .. n
        BY <4>1, CutsBounds
      <4> QED BY <4>1, <4>2, <3>1
    <3>3. First(hs[k]) = IF k = 1 THEN 1 ELSE Last(hs[k - 1]) + 1
      <4>1. CASE gs = <<>>
        BY <4>1, <2>2, <3>1 DEF Cuts
      <4>2. CASE gs # <<>>
        <5>1. k # 1 /\ k - 1 \in 1 .. Len(gs) /\ n = Last(gs[Len(gs)])
          BY <4>2, <2>2, <1>1 DEF Cuts
        <5> QED BY <5>1, <3>1, <1>1
      <4> QED BY <4>1, <4>2
    <3> QED BY <3>1, <3>2, <3>3
  <2> QED BY <2>1, <2>2, <1>1
<1>3. hs # <<>> /\ Last(hs[Len(hs)]) = Last(g)
  BY <1>1
<1>4. Cuts(hs, Last(g))
  BY <1>2, <1>3 DEF Cuts
<1> QED BY <1>4 DEF hs

\* All groups but the last cut what is before the last.
LEMMA CutsFront ==
    ASSUME NEW gs \in Seq(GroupType), NEW n \in Nat, Cuts(gs, n), gs # <<>>
    PROVE  /\ AllButLast(gs) \in Seq(GroupType)
           /\ First(gs[Len(gs)]) \in Nat \ {0}
           /\ Cuts(AllButLast(gs), First(gs[Len(gs)]) - 1)
           /\ n = Last(gs[Len(gs)])
           /\ Len(AllButLast(gs)) = Len(gs) - 1
           /\ \A k \in 1 .. Len(AllButLast(gs)) : AllButLast(gs)[k] = gs[k]
<1> DEFINE hs == AllButLast(gs)
           f  == First(gs[Len(gs)])
<1>1. /\ Len(gs) \in Nat \ {0} /\ hs \in Seq(GroupType) /\ Len(hs) = Len(gs) - 1
      /\ \A k \in 1 .. Len(hs) : hs[k] = gs[k]
  <2>1. Len(gs) \in Nat \ {0}
    BY EmptySeq, LenProperties
  <2>2. PICK m \in Nat : Len(gs) = m + 1
    BY <2>1
  <2>3. hs = SubSeq(gs, 1, m)
    BY <2>2 DEF AllButLast
  <2>4. SubSeq(gs, 1, m) \in Seq(GroupType) /\ Len(SubSeq(gs, 1, m)) = m
        /\ \A k \in 1 .. m : SubSeq(gs, 1, m)[k] = gs[k]
    BY <2>2
  <2> HIDE DEF hs
  <2> QED BY <2>1, <2>2, <2>3, <2>4
<1> HIDE DEF hs
<1>2. f \in Nat \ {0}
  <2>1. Len(gs) \in 1 .. Len(gs)
    BY <1>1
  <2>2. f \in 1 .. n
    BY <2>1, CutsBounds
  <2> QED BY <2>2
<1>3. ASSUME NEW k \in 1 .. Len(hs)
      PROVE  /\ IsRun(hs[k])
             /\ First(hs[k]) = IF k = 1 THEN 1 ELSE Last(hs[k - 1]) + 1
             /\ \A j \in 1 .. k - 1 : Last(hs[j]) < First(hs[k])
  <2>1. k \in 1 .. Len(gs) /\ hs[k] = gs[k]
    BY <1>1
  <2>2. k # 1 => k - 1 \in 1 .. Len(hs)
    BY <1>1
  <2>3. \A j \in 1 .. k - 1 : j \in 1 .. Len(hs)
    BY <1>1
  <2> QED BY <2>1, <2>2, <2>3, <1>1 DEF Cuts
<1>4. f - 1 = IF hs = <<>> THEN 0 ELSE Last(hs[Len(hs)])
  <2>1. CASE Len(gs) = 1
    <3>1. hs = <<>> /\ f = 1
      BY <2>1, <1>1 DEF Cuts
    <3> QED BY <3>1
  <2>2. CASE Len(gs) # 1
    <3>1. Len(hs) \in 1 .. Len(gs) /\ hs # <<>> /\ hs[Len(hs)] = gs[Len(gs) - 1]
      BY <2>2, <1>1
    <3>2. f = Last(gs[Len(gs) - 1]) + 1
      BY <2>2, <1>1 DEF Cuts
    <3>3. Last(gs[Len(gs) - 1]) \in 1 .. n
      <4>1. Len(gs) - 1 \in 1 .. Len(gs)
        BY <2>2, <1>1
      <4> QED BY <4>1, CutsBounds
    <3> QED BY <3>1, <3>2, <3>3
  <2> QED BY <2>1, <2>2
<1>5. Cuts(hs, f - 1)
  BY <1>3, <1>4 DEF Cuts
<1>6. n = Last(gs[Len(gs)])
  BY DEF Cuts
<1> QED BY <1>1, <1>2, <1>5, <1>6 DEF hs

\* The steps of a list that cuts 1 .. n are among 1 .. n.
LEMMA CutsMembers ==
    ASSUME NEW gs \in Seq(GroupType), NEW n \in Nat, Cuts(gs, n),
           NEW k \in 1 .. Len(gs), NEW i \in 1 .. Len(gs[k].steps)
    PROVE  gs[k].steps[i] \in 1 .. n
<1>1. /\ gs[k] \in GroupType /\ IsRun(gs[k])
      /\ First(gs[k]) \in 1 .. n /\ Last(gs[k]) \in 1 .. n
  BY CutsBounds
<1>2. gs[k].steps[i] = First(gs[k]) + i - 1
  BY <1>1 DEF IsRun
<1>3. Last(gs[k]) = First(gs[k]) + Len(gs[k].steps) - 1 /\ Len(gs[k].steps) \in Nat \ {0}
  BY <1>1, RunBounds
<1>4. \A f \in 1 .. n : \A m \in Nat \ {0} :
         f + m - 1 \in 1 .. n => \A j \in 1 .. m : f + j - 1 \in 1 .. n
  OBVIOUS
<1>5. \A j \in 1 .. Len(gs[k].steps) : First(gs[k]) + j - 1 \in 1 .. n
  BY <1>1, <1>3, <1>4
<1> QED BY <1>2, <1>5

\* A longer chain changes nothing for the groups of a shorter one.
LEMMA TicksLonger ==
    ASSUME NEW gs \in Seq(GroupType), NEW c \in Seq(Steps), NEW s \in Steps,
           Cuts(gs, Len(c)), TicksWhereNeeded(gs, c)
    PROVE  TicksWhereNeeded(gs, Append(c, s))
<1>1. \A k \in 1 .. Len(gs) : \A i \in 1 .. Len(gs[k].steps) :
         Append(c, s)[gs[k].steps[i]] = c[gs[k].steps[i]]
  <2> SUFFICES ASSUME NEW k \in 1 .. Len(gs), NEW i \in 1 .. Len(gs[k].steps)
               PROVE  Append(c, s)[gs[k].steps[i]] = c[gs[k].steps[i]]
    OBVIOUS
  <2>1. gs[k].steps[i] \in 1 .. Len(c)
    BY CutsMembers
  <2> QED BY <2>1
<1> QED BY <1>1 DEF TicksWhereNeeded

\* One more group that needs nothing, or has what it needs.
LEMMA TicksAppend ==
    ASSUME NEW gs \in Seq(GroupType), NEW c, TicksWhereNeeded(gs, c),
           NEW g \in GroupType,
           Len(g.steps) > 1 => g.iterated,
           g.iterated /\ ~g.loop => \E i \in 1 .. Len(g.steps) : c[g.steps[i]].iterated
    PROVE  TicksWhereNeeded(Append(gs, g), c)
<1>1. /\ Len(Append(gs, g)) = Len(gs) + 1 /\ Append(gs, g)[Len(gs) + 1] = g
      /\ \A k \in 1 .. Len(gs) : Append(gs, g)[k] = gs[k]
  OBVIOUS
<1>2. ASSUME NEW k \in 1 .. Len(Append(gs, g))
      PROVE  k \in 1 .. Len(gs) \/ k = Len(gs) + 1
  BY <1>1
<1> QED BY <1>1, <1>2 DEF TicksWhereNeeded

-----------------------------------------------------------------------------
\* The three ways in which a turn of the loop changes the list of all groups.

\* The list is sound for a chain.
Sound(gs, c) ==
    gs \in Seq(GroupType) /\ Cuts(gs, Len(c)) /\ TicksWhereNeeded(gs, c)

\* The step is a group of its own.
LEMMA SoundSingle ==
    ASSUME NEW gs, NEW c \in Seq(Steps), NEW s \in Steps, Sound(gs, c),
           NEW iterated \in BOOLEAN, NEW loop \in BOOLEAN,
           iterated /\ ~loop => s.iterated
    PROVE  /\ Group(<<Len(c) + 1>>, iterated, loop) \in GroupType
           /\ Sound(Append(gs, Group(<<Len(c) + 1>>, iterated, loop)), Append(c, s))
<1> DEFINE g == Group(<<Len(c) + 1>>, iterated, loop)
<1>1. /\ g \in GroupType /\ g.steps = <<Len(c) + 1>>
      /\ g.iterated = iterated /\ g.loop = loop
  BY DEF Group, GroupType
<1>2. Len(Append(c, s)) = Len(c) + 1 /\ Append(c, s)[Len(c) + 1] = s /\ Len(c) \in Nat
  OBVIOUS
<1> HIDE DEF g
<1>3. IsRun(g) /\ First(g) = Len(c) + 1 /\ Last(g) = Len(c) + 1
  BY <1>1, <1>2, RunOfOne
<1>4. Cuts(Append(gs, g), Len(c) + 1)
  BY <1>1, <1>2, <1>3, CutsAppend DEF Sound
<1>5. TicksWhereNeeded(gs, Append(c, s))
  BY TicksLonger DEF Sound
<1>6. TicksWhereNeeded(Append(gs, g), Append(c, s))
  <2>1. Len(g.steps) = 1 /\ 1 \in 1 .. Len(g.steps) /\ g.steps[1] = Len(c) + 1
    BY <1>1
  <2>2. Len(g.steps) > 1 => g.iterated
    BY <2>1
  <2>3. g.iterated /\ ~g.loop =>
          \E i \in 1 .. Len(g.steps) : Append(c, s)[g.steps[i]].iterated
    BY <2>1, <1>1, <1>2
  <2>4. gs \in Seq(GroupType)
    BY DEF Sound
  <2> HIDE DEF g
  <2> QED BY <2>2, <2>3, <2>4, <1>1, <1>5, TicksAppend
<1> QED BY <1>1, <1>2, <1>4, <1>6 DEF Sound, g

\* What remains without the last group is sound but for its length.
LEMMA SoundFront ==
    ASSUME NEW gs, NEW c \in Seq(Steps), Sound(gs, c), gs # <<>>
    PROVE  /\ AllButLast(gs) \in Seq(GroupType)
           /\ gs[Len(gs)] \in GroupType /\ IsRun(gs[Len(gs)])
           /\ First(gs[Len(gs)]) \in 1 .. Len(c) /\ Last(gs[Len(gs)]) = Len(c)
           /\ Cuts(AllButLast(gs), First(gs[Len(gs)]) - 1)
           /\ TicksWhereNeeded(AllButLast(gs), c)
           /\ \A k \in 1 .. Len(AllButLast(gs)) : \A i \in 1 .. Len(AllButLast(gs)[k].steps) :
                 AllButLast(gs)[k].steps[i] \in 1 .. Len(c)
<1>1. /\ gs \in Seq(GroupType) /\ Len(gs) \in Nat \ {0} /\ Len(gs) \in 1 .. Len(gs)
      /\ Len(c) \in Nat
  BY DEF Sound
<1>2. /\ AllButLast(gs) \in Seq(GroupType)
      /\ Cuts(AllButLast(gs), First(gs[Len(gs)]) - 1)
      /\ Last(gs[Len(gs)]) = Len(c)
  BY <1>1, CutsFront DEF Sound
<1>3. /\ gs[Len(gs)] \in GroupType /\ IsRun(gs[Len(gs)])
      /\ First(gs[Len(gs)]) \in 1 .. Len(c)
  BY <1>1, CutsBounds DEF Sound
<1>4. /\ Len(AllButLast(gs)) = Len(gs) - 1
      /\ \A k \in 1 .. Len(AllButLast(gs)) : AllButLast(gs)[k] = gs[k] /\ k \in 1 .. Len(gs)
  <2>1. Len(AllButLast(gs)) = Len(gs) - 1
    BY <1>1, CutsFront DEF Sound
  <2>2. \A k \in 1 .. Len(AllButLast(gs)) : AllButLast(gs)[k] = gs[k]
    BY <1>1, CutsFront DEF Sound
  <2>3. \A k \in 1 .. Len(AllButLast(gs)) : k \in 1 .. Len(gs)
    BY <2>1, <1>1
  <2> QED BY <2>1, <2>2, <2>3
<1>5. TicksWhereNeeded(AllButLast(gs), c)
  BY <1>4 DEF Sound, TicksWhereNeeded
<1>6. \A k \in 1 .. Len(AllButLast(gs)) : \A i \in 1 .. Len(AllButLast(gs)[k].steps) :
         AllButLast(gs)[k].steps[i] \in 1 .. Len(c)
  BY <1>1, <1>4, CutsMembers DEF Sound
<1> QED BY <1>2, <1>3, <1>5, <1>6

\* The step joins the step before it, which was a group of its own.
LEMMA SoundPair ==
    ASSUME NEW gs, NEW c \in Seq(Steps), NEW s \in Steps, Sound(gs, c),
           EndsWithOne(gs), s.iterated
    PROVE  /\ Group(<<gs[Len(gs)].steps[1], Len(c) + 1>>, TRUE, FALSE) \in GroupType
           /\ Sound(Append(AllButLast(gs),
                           Group(<<gs[Len(gs)].steps[1], Len(c) + 1>>, TRUE, FALSE)),
                    Append(c, s))
<1> DEFINE l  == gs[Len(gs)]
           hs == AllButLast(gs)
           g  == Group(<<l.steps[1], Len(c) + 1>>, TRUE, FALSE)
<1>1. /\ hs \in Seq(GroupType) /\ l \in GroupType /\ IsRun(l)
      /\ First(l) \in 1 .. Len(c) /\ Last(l) = Len(c)
      /\ Cuts(hs, First(l) - 1) /\ TicksWhereNeeded(hs, c)
      /\ \A k \in 1 .. Len(hs) : \A i \in 1 .. Len(hs[k].steps) : hs[k].steps[i] \in 1 .. Len(c)
  BY SoundFront DEF EndsWithOne
<1>2. Len(Append(c, s)) = Len(c) + 1 /\ Append(c, s)[Len(c) + 1] = s /\ Len(c) \in Nat
  OBVIOUS
<1>3. First(l) = Len(c) /\ l.steps[1] = Len(c)
  <2>1. Len(l.steps) = 1
    BY DEF EndsWithOne
  <2>2. First(l) = l.steps[1] /\ Last(l) = l.steps[1]
    BY <2>1 DEF First, Last
  <2> QED BY <2>2, <1>1
<1>4. /\ g \in GroupType /\ g.steps = <<Len(c), Len(c) + 1>>
      /\ g.iterated = TRUE /\ g.loop = FALSE
  BY <1>2, <1>3 DEF Group, GroupType
<1> HIDE DEF g, hs, l
<1>5. IsRun(g) /\ First(g) = Len(c) /\ Last(g) = Len(c) + 1
  BY <1>2, <1>4, RunOfTwo
<1>6. Cuts(Append(hs, g), Len(c) + 1)
  <2>1. Len(c) - 1 \in Nat /\ Cuts(hs, Len(c) - 1) /\ First(g) = Len(c) - 1 + 1
    BY <1>1, <1>2, <1>3, <1>5
  <2> QED BY <2>1, <1>1, <1>4, <1>5, CutsAppend
<1>7. TicksWhereNeeded(hs, Append(c, s))
  <2>1. \A k \in 1 .. Len(hs) : \A i \in 1 .. Len(hs[k].steps) :
           Append(c, s)[hs[k].steps[i]] = c[hs[k].steps[i]]
    BY <1>1
  <2> QED BY <2>1, <1>1 DEF TicksWhereNeeded
<1>8. TicksWhereNeeded(Append(hs, g), Append(c, s))
  <2>1. 2 \in 1 .. Len(g.steps) /\ g.steps[2] = Len(c) + 1
    BY <1>4
  <2>2. \E i \in 1 .. Len(g.steps) : Append(c, s)[g.steps[i]].iterated
    BY <2>1, <1>2
  <2> QED BY <2>2, <1>1, <1>4, <1>7, TicksAppend
<1>9. Append(hs, g) \in Seq(GroupType)
  BY <1>1, <1>4
<1> QED BY <1>2, <1>4, <1>6, <1>8, <1>9 DEF Sound, g, hs, l

\* The step joins the last group, which is iterated.
LEMMA SoundGrow ==
    ASSUME NEW gs \in Seq(GroupType), NEW g \in GroupType,
           NEW c \in Seq(Steps), NEW s \in Steps,
           Sound(Append(gs, g), c), g.iterated
    PROVE  /\ Joined(g, Len(c) + 1) \in GroupType
           /\ Sound(Append(gs, Joined(g, Len(c) + 1)), Append(c, s))
<1> DEFINE as == Append(gs, g)
           h  == Joined(g, Len(c) + 1)
<1>1. /\ as # <<>> /\ Len(as) = Len(gs) + 1 /\ as[Len(as)] = g /\ Len(gs) \in Nat
      /\ \A k \in 1 .. Len(gs) : as[k] = gs[k]
  OBVIOUS
<1>2. AllButLast(as) = gs
  <2>1. Len(AllButLast(as)) = Len(gs)
    BY <1>1 DEF AllButLast
  <2>2. \A k \in 1 .. Len(gs) : AllButLast(as)[k] = gs[k]
    BY <1>1 DEF AllButLast
  <2>3. AllButLast(as) \in Seq(GroupType)
    BY <1>1, SoundFront
  <2> QED BY <2>1, <2>2, <2>3
<1>3. /\ IsRun(g) /\ First(g) \in 1 .. Len(c) /\ Last(g) = Len(c)
      /\ Cuts(gs, First(g) - 1) /\ TicksWhereNeeded(gs, c)
      /\ \A k \in 1 .. Len(gs) : \A i \in 1 .. Len(gs[k].steps) : gs[k].steps[i] \in 1 .. Len(c)
  <2> HIDE DEF as
  <2> QED BY <1>1, <1>2, SoundFront DEF as
<1>4. Len(Append(c, s)) = Len(c) + 1 /\ Len(c) \in Nat
  OBVIOUS
<1>5. h \in GroupType /\ IsRun(h) /\ First(h) = First(g) /\ Last(h) = Len(c) + 1
  BY <1>3, RunGrows
<1>6. Cuts(Append(gs, h), Len(c) + 1)
  <2>1. First(g) - 1 \in Nat /\ First(h) = First(g) - 1 + 1
    BY <1>3, <1>5
  <2> HIDE DEF h
  <2> QED BY <2>1, <1>3, <1>5, CutsAppend
<1>7. TicksWhereNeeded(gs, Append(c, s))
  <2>1. \A k \in 1 .. Len(gs) : \A i \in 1 .. Len(gs[k].steps) :
           Append(c, s)[gs[k].steps[i]] = c[gs[k].steps[i]]
    BY <1>3
  <2> QED BY <2>1, <1>3 DEF TicksWhereNeeded
<1>8. /\ h.iterated = g.iterated /\ h.loop = g.loop
      /\ h.steps = Append(g.steps, Len(c) + 1)
  BY DEF Joined, GroupType
<1>9. TicksWhereNeeded(Append(gs, h), Append(c, s))
  <2>1. Len(h.steps) > 1 => h.iterated
    BY <1>8
  <2>2. ASSUME ~h.loop
        PROVE  \E i \in 1 .. Len(h.steps) : Append(c, s)[h.steps[i]].iterated
    <3>1. Len(as) \in 1 .. Len(as)
      BY <1>1
    <3>2. PICK i \in 1 .. Len(g.steps) : c[g.steps[i]].iterated
      BY <3>1, <1>1, <1>8, <2>2 DEF Sound, TicksWhereNeeded
    <3> HIDE DEF as, h
    <3>3. g.steps[i] \in 1 .. Len(c)
      <4>1. as \in Seq(GroupType) /\ Cuts(as, Len(c))
        BY DEF as, Sound
      <4> QED BY <4>1, <3>1, <1>1, <1>4, CutsMembers
    <3>4. g.steps \in Seq(Nat) /\ Len(g.steps) \in Nat
      BY DEF GroupType
    <3>5. i \in 1 .. Len(h.steps) /\ h.steps[i] = g.steps[i]
      BY <1>8, <3>4
    <3> QED BY <3>2, <3>3, <3>5
  <2> HIDE DEF h
  <2> QED BY <2>1, <2>2, <1>5, <1>7, TicksAppend
<1>10. Append(gs, h) \in Seq(GroupType)
  BY <1>5
<1> QED BY <1>4, <1>5, <1>6, <1>9, <1>10 DEF Sound

-----------------------------------------------------------------------------
\* The invariant.

\* The list with the open group in its place is sound for what was scanned,
\* and what is open is iterated: a step may join it.
OpenIsIterated ==
    /\ openGroup # NoGroup => openGroup.iterated /\ ~openGroup.loop
    /\ openLoop # NoGroup => openLoop.iterated /\ openLoop.loop

IInv ==
    /\ TypeOK
    /\ outcome # "thrown" => Sound(AllGroups, chain) /\ OpenIsIterated

\* A group with a step is not std::nullopt.
LEMMA GroupIsEngaged ==
    ASSUME NEW g \in GroupType, IsRun(g)
    PROVE  g # NoGroup
<1>1. NoGroup.steps = <<>>
  BY DEF NoGroup, Group
<1>2. g.steps # <<>>
  BY DEF IsRun
<1> QED BY <1>1, <1>2

LEMMA NoGroupType == NoGroup \in GroupType
BY DEF NoGroup, Group, GroupType

\* The list of all groups, as it is while the scan has not thrown.
LEMMA AllGroupsCases ==
    /\ InLoop => AllGroups = Append(groups, openLoop)
    /\ ~InLoop => AllGroups = Closed
    /\ openGroup = NoGroup => Closed = groups
    /\ openGroup # NoGroup => Closed = Append(groups, openGroup)
BY DEF AllGroups, Closed

\* The list after a turn.
After(gs, group, loop) ==
    IF loop # NoGroup THEN Append(gs, loop)
    ELSE IF group = NoGroup THEN gs ELSE Append(gs, group)

LEMMA AllGroupsAfter ==
    ASSUME NEW gs, NEW group, NEW loop, Continue(gs, group, loop)
    PROVE  AllGroups' = After(gs, group, loop)
BY DEF Continue, AllGroups, InLoop, Closed, After, NoGroup

\* A turn preserves the invariant if it makes a sound list of well typed parts.
LEMMA TurnPreserves ==
    ASSUME IInv, NEW s \in Steps, Scan(s),
           NEW gs \in Seq(GroupType), NEW group \in GroupType, NEW loop \in GroupType,
           Continue(gs, group, loop),
           group = NoGroup \/ loop = NoGroup,
           group # NoGroup => group.iterated /\ ~group.loop,
           loop # NoGroup => loop.iterated /\ loop.loop,
           Sound(After(gs, group, loop), Append(chain, s))
    PROVE  IInv'
<1>1. /\ chain' = Append(chain, s) /\ groups' = gs /\ openGroup' = group
      /\ openLoop' = loop /\ outcome' = outcome
  BY DEF Scan, Continue
<1>2. TypeOK'
  <2>1. Append(chain, s) \in Seq(Steps)
    BY DEF IInv, TypeOK
  <2> QED BY <2>1, <1>1 DEF IInv, TypeOK, NoGroup
<1>3. Sound(AllGroups, chain)'
  <2>1. AllGroups' = After(gs, group, loop)
    BY AllGroupsAfter
  <2> QED BY <2>1, <1>1 DEF Sound
<1>4. OpenIsIterated'
  BY <1>1 DEF OpenIsIterated, NoGroup
<1> QED BY <1>2, <1>3, <1>4 DEF IInv

\* So does one that throws: nothing is asked of the groups then.
LEMMA ThrowPreserves ==
    ASSUME IInv, Throw, chain' = chain \/ \E s \in Steps : chain' = Append(chain, s)
    PROVE  IInv'
<1>1. outcome' = "thrown" /\ groups' = groups /\ openGroup' = openGroup /\ openLoop' = openLoop
  BY DEF Throw
<1>2. chain' \in Seq(Steps)
  BY DEF IInv, TypeOK
<1> QED BY <1>1, <1>2 DEF IInv, TypeOK, NoGroup

\* The initial state: no group, no step.
LEMMA InitInvariant == Init => IInv
<1> SUFFICES ASSUME Init PROVE IInv
  OBVIOUS
<1>1. TypeOK
  BY NoGroupType DEF Init, TypeOK
<1>2. AllGroups = <<>>
  BY AllGroupsCases DEF Init, InLoop
<1>3. Sound(<<>>, chain)
  BY DEF Init, Sound, Cuts, TicksWhereNeeded
<1>4. OpenIsIterated
  BY DEF Init, OpenIsIterated
<1> QED BY <1>1, <1>2, <1>3, <1>4 DEF IInv

-----------------------------------------------------------------------------
\* One lemma for each way in which an action changes the list.

\* What the invariant says outside a loop region.
LEMMA OutsideLoop ==
    ASSUME IInv, outcome = "scanning", ~InLoop
    PROVE  /\ chain \in Seq(Steps) /\ Index = Len(chain) + 1
           /\ groups \in Seq(GroupType) /\ openGroup \in GroupType
           /\ Closed \in Seq(GroupType)
           /\ Sound(Closed, chain)
           /\ openLoop = NoGroup
           /\ openGroup = NoGroup => Closed = groups
           /\ openGroup # NoGroup =>
                /\ openGroup.iterated /\ ~openGroup.loop
                /\ Closed = Append(groups, openGroup)
<1>1. Sound(AllGroups, chain) /\ OpenIsIterated /\ AllGroups = Closed
  BY AllGroupsCases DEF IInv
<1> QED BY <1>1, AllGroupsCases DEF IInv, TypeOK, Sound, OpenIsIterated, Index, InLoop

\* The step starts a group, which is open, a loop region or closed.
LEMMA StartsGroup ==
    ASSUME IInv, NEW s \in Steps, Scan(s), ~InLoop,
           NEW iterated \in BOOLEAN, NEW loop \in BOOLEAN,
           iterated /\ ~loop => s.iterated,
           LET g == Group(<<Index>>, iterated, loop)
           IN  \/ Continue(Append(Closed, g), NoGroup, NoGroup)
               \/ Continue(Closed, g, NoGroup) /\ iterated /\ ~loop
               \/ Continue(Closed, NoGroup, g) /\ iterated /\ loop
    PROVE  IInv'
<1> DEFINE g == Group(<<Index>>, iterated, loop)
<1>1. /\ chain \in Seq(Steps) /\ Index = Len(chain) + 1 /\ Len(chain) \in Nat
      /\ Closed \in Seq(GroupType) /\ Sound(Closed, chain)
  BY OutsideLoop DEF Scan
<1>2. g \in GroupType /\ Sound(Append(Closed, g), Append(chain, s))
  BY <1>1, SoundSingle
<1>3. g.iterated = iterated /\ g.loop = loop /\ g.steps = <<Index>>
  BY DEF Group
<1>4. g # NoGroup
  BY <1>1, <1>2, <1>3, RunOfOne, GroupIsEngaged
<1>5. Append(Closed, g) \in Seq(GroupType)
  BY <1>1, <1>2
<1>6. CASE Continue(Append(Closed, g), NoGroup, NoGroup)
  <2>1. After(Append(Closed, g), NoGroup, NoGroup) = Append(Closed, g)
    BY DEF After
  <2> HIDE DEF g
  <2> QED BY <2>1, <1>2, <1>5, <1>6, NoGroupType, TurnPreserves
<1>7. CASE Continue(Closed, g, NoGroup) /\ iterated /\ ~loop
  <2>1. After(Closed, g, NoGroup) = Append(Closed, g)
    BY <1>4 DEF After
  <2> HIDE DEF g
  <2> QED BY <2>1, <1>1, <1>2, <1>3, <1>7, NoGroupType, TurnPreserves
<1>8. CASE Continue(Closed, NoGroup, g) /\ iterated /\ loop
  <2>1. After(Closed, NoGroup, g) = Append(Closed, g)
    BY <1>4 DEF After
  <2> HIDE DEF g
  <2> QED BY <2>1, <1>1, <1>2, <1>3, <1>8, NoGroupType, TurnPreserves
<1> QED BY <1>6, <1>7, <1>8

\* The step rejoins the last group, a group of one step: the pair is open or
\* closed.
LEMMA RejoinsLast ==
    ASSUME IInv, NEW s \in Steps, Scan(s), ~InLoop, s.iterated, EndsWithOne(Closed),
           LET g == Group(<<Closed[Len(Closed)].steps[1], Index>>, TRUE, FALSE)
           IN  \/ Continue(Append(AllButLast(Closed), g), NoGroup, NoGroup)
               \/ Continue(AllButLast(Closed), g, NoGroup)
    PROVE  IInv'
<1> DEFINE g  == Group(<<Closed[Len(Closed)].steps[1], Index>>, TRUE, FALSE)
           hs == AllButLast(Closed)
<1>1. /\ chain \in Seq(Steps) /\ Index = Len(chain) + 1 /\ Len(chain) \in Nat
      /\ Sound(Closed, chain)
  BY OutsideLoop DEF Scan
<1>2. g \in GroupType /\ Sound(Append(hs, g), Append(chain, s))
  BY <1>1, SoundPair
<1>3. hs \in Seq(GroupType)
  BY <1>1, SoundFront DEF EndsWithOne
<1>4. g.iterated /\ ~g.loop /\ g # NoGroup
  BY DEF Group, NoGroup
<1>5. Append(hs, g) \in Seq(GroupType)
  <2> HIDE DEF g, hs
  <2> QED BY <1>2, <1>3
<1>6. CASE Continue(Append(hs, g), NoGroup, NoGroup)
  <2>1. After(Append(hs, g), NoGroup, NoGroup) = Append(hs, g)
    BY DEF After
  <2> HIDE DEF g, hs
  <2> QED BY <2>1, <1>2, <1>5, <1>6, NoGroupType, TurnPreserves
<1>7. CASE Continue(hs, g, NoGroup)
  <2>1. After(hs, g, NoGroup) = Append(hs, g)
    BY <1>4 DEF After
  <2> HIDE DEF g, hs
  <2> QED BY <2>1, <1>2, <1>3, <1>4, <1>7, NoGroupType, TurnPreserves
<1> QED BY <1>6, <1>7

\* The step joins the open particle group.
LEMMA JoinsOpenGroup ==
    ASSUME IInv, NEW s \in Steps, Scan(s), ~InLoop, openGroup # NoGroup,
           Continue(groups, Joined(openGroup, Index), NoGroup)
    PROVE  IInv'
<1> DEFINE g == Joined(openGroup, Index)
<1>1. /\ chain \in Seq(Steps) /\ Index = Len(chain) + 1
      /\ groups \in Seq(GroupType) /\ openGroup \in GroupType
      /\ Sound(Append(groups, openGroup), chain)
      /\ openGroup.iterated /\ ~openGroup.loop
  BY OutsideLoop DEF Scan
<1>2. g \in GroupType /\ Sound(Append(groups, g), Append(chain, s))
  BY <1>1, SoundGrow
<1>3. g.iterated /\ ~g.loop /\ g.steps = Append(openGroup.steps, Index)
  BY <1>1 DEF Joined, GroupType
<1>4. openGroup.steps \in Seq(Nat)
  BY <1>1 DEF GroupType
<1>5. g # NoGroup
  BY <1>3, <1>4 DEF NoGroup, Group
<1>6. After(groups, g, NoGroup) = Append(groups, g)
  BY <1>5 DEF After
<1> HIDE DEF g
<1> QED BY <1>1, <1>2, <1>3, <1>6, NoGroupType, TurnPreserves DEF g

\* The step joins the open loop region, which goes on or is closed.
LEMMA JoinsLoop ==
    ASSUME IInv, NEW s \in Steps, Scan(s), InLoop,
           \/ Continue(Append(groups, Joined(openLoop, Index)), openGroup, NoGroup)
           \/ Continue(groups, openGroup, Joined(openLoop, Index))
    PROVE  IInv'
<1> DEFINE g == Joined(openLoop, Index)
<1>1. /\ chain \in Seq(Steps) /\ Index = Len(chain) + 1
      /\ groups \in Seq(GroupType) /\ openLoop \in GroupType
      /\ openGroup = NoGroup
      /\ Sound(Append(groups, openLoop), chain)
      /\ openLoop.iterated /\ openLoop.loop
  BY AllGroupsCases DEF IInv, TypeOK, OpenIsIterated, InLoop, Scan, Index
<1>2. g \in GroupType /\ Sound(Append(groups, g), Append(chain, s))
  BY <1>1, SoundGrow
<1>3. g.iterated /\ g.loop /\ g # NoGroup
  BY <1>1 DEF Joined, GroupType, NoGroup, Group
<1>4. Append(groups, g) \in Seq(GroupType)
  BY <1>1, <1>2
<1>5. CASE Continue(Append(groups, g), openGroup, NoGroup)
  <2>1. After(Append(groups, g), NoGroup, NoGroup) = Append(groups, g)
    BY DEF After
  <2> HIDE DEF g
  <2> QED BY <2>1, <1>1, <1>2, <1>4, <1>5, NoGroupType, TurnPreserves
<1>6. CASE Continue(groups, openGroup, g)
  <2>1. After(groups, NoGroup, g) = Append(groups, g)
    BY <1>3 DEF After
  <2> HIDE DEF g
  <2> QED BY <2>1, <1>1, <1>2, <1>3, <1>6, NoGroupType, TurnPreserves
<1> QED BY <1>5, <1>6

-----------------------------------------------------------------------------
\* Every action preserves the invariant.

LEMMA StepInvariant == IInv /\ [Next]_vars => IInv'
<1> SUFFICES ASSUME IInv, [Next]_vars PROVE IInv'
  OBVIOUS
<1> USE StepsAssumption
<1>1. ASSUME NEW s \in Steps, LoopStep(s) PROVE IInv'
  <2>1. Scan(s) /\ InLoop
    BY <1>1 DEF LoopStep
  <2>2. CASE Throw
    BY <2>1, <2>2, ThrowPreserves DEF Scan
  <2>3. CASE Continue(Append(groups, Joined(openLoop, Index)), openGroup, NoGroup)
    BY <2>1, <2>3, JoinsLoop
  <2>4. CASE Continue(groups, openGroup, Joined(openLoop, Index))
    BY <2>1, <2>4, JoinsLoop
  <2> QED BY <1>1, <2>2, <2>3, <2>4 DEF LoopStep
<1>2. ASSUME NEW s \in Steps, BoundaryStep(s) PROVE IInv'
  BY <1>2, StartsGroup DEF BoundaryStep
<1>3. ASSUME NEW s \in Steps, UnmatchedEnd(s) PROVE IInv'
  BY <1>3, ThrowPreserves DEF UnmatchedEnd, EffectOutsideLoop, Scan
<1>4. ASSUME NEW s \in Steps, LoopBegins(s) PROVE IInv'
  BY <1>4, StartsGroup DEF LoopBegins, EffectOutsideLoop
<1>5. ASSUME NEW s \in Steps, OpensParticles(s) PROVE IInv'
  <2>1. Scan(s) /\ ~InLoop /\ s.iterated = TRUE
    BY <1>5 DEF OpensParticles, EffectOutsideLoop, StepType
  <2>2. CASE RejoinsImage(s)
    <3>1. EndsWithOne(Closed)
      BY <2>2 DEF RejoinsImage
    <3>2. GroupWithImage(s) = Group(<<Closed[Len(Closed)].steps[1], Index>>, TRUE, FALSE)
      BY <2>1 DEF GroupWithImage
    <3>3. Continue(AllButLast(Closed), GroupWithImage(s), NoGroup)
      BY <1>5, <2>2 DEF OpensParticles
    <3> QED BY <2>1, <3>1, <3>2, <3>3, RejoinsLast
  <2>3. CASE ~RejoinsImage(s)
    <3>1. Continue(Closed, Group(<<Index>>, TRUE, FALSE), NoGroup)
      BY <1>5, <2>1, <2>3 DEF OpensParticles
    <3> QED BY <2>1, <3>1, StartsGroup
  <2> QED BY <2>2, <2>3
<1>6. ASSUME NEW s \in Steps, JoinStep(s) PROVE IInv'
  BY <1>6, JoinsOpenGroup DEF JoinStep, JoinsParticles, EffectOutsideLoop
<1>7. ASSUME NEW s \in Steps, FlowStep(s) PROVE IInv'
  <2>1. /\ Scan(s) /\ ~InLoop /\ s.iterated
        /\ openGroup = NoGroup /\ EndsWithOne(groups)
        /\ Continue(Append(AllButLast(groups),
                           Group(<<groups[Len(groups)].steps[1], Index>>, TRUE, FALSE)),
                    NoGroup, NoGroup)
    BY <1>7 DEF FlowStep, EffectOutsideLoop, RejoinsNoise
  <2>2. Closed = groups
    BY <2>1, AllGroupsCases
  <2> QED BY <2>1, <2>2, RejoinsLast
<1>8. ASSUME NEW s \in Steps, SingleStep(s) PROVE IInv'
  <2>1. /\ Scan(s) /\ ~InLoop /\ s.iterated \in BOOLEAN
        /\ Continue(Append(Closed, Group(<<Index>>, s.iterated, FALSE)), NoGroup, NoGroup)
    BY <1>8 DEF SingleStep, EffectOutsideLoop, StepType
  <2> QED BY <2>1, StartsGroup
<1>9. CASE Finish
  <2>1. CASE InLoop
    BY <1>9, <2>1, ThrowPreserves DEF Finish
  <2>2. CASE ~InLoop
    <3>1. /\ outcome = "scanning" /\ outcome' = "done" /\ chain' = chain
          /\ groups' = Closed /\ openGroup' = NoGroup /\ openLoop' = NoGroup
      BY <1>9, <2>2 DEF Finish
    <3>2. Closed \in Seq(GroupType) /\ Sound(Closed, chain)
      BY <2>2, <3>1, OutsideLoop
    <3>3. AllGroups' = Closed
      BY <3>1 DEF AllGroups, InLoop, Closed, NoGroup
    <3>4. TypeOK'
      BY <3>1, <3>2, NoGroupType DEF IInv, TypeOK, NoGroup
    <3>5. Sound(AllGroups, chain)'
      BY <3>1, <3>2, <3>3 DEF Sound
    <3>6. OpenIsIterated'
      BY <3>1 DEF OpenIsIterated, NoGroup
    <3> QED BY <3>4, <3>5, <3>6 DEF IInv
  <2> QED BY <2>1, <2>2
<1>10. CASE UNCHANGED vars
  BY <1>10 DEF vars, IInv, TypeOK, AllGroups, InLoop, Closed, OpenIsIterated, NoGroup
<1> QED
  BY <1>1, <1>2, <1>3, <1>4, <1>5, <1>6, <1>7, <1>8, <1>9, <1>10 DEF Next, Ended

-----------------------------------------------------------------------------
\* The theorems.

THEOREM Invariance == Spec => []IInv
BY InitInvariant, StepInvariant, PTL DEF Spec

\* The groups and the two open groups keep their types, and std::optional
\* open_group and open_loop are never engaged together.
THEOREM TypeCorrectness == Spec => []TypeOK
<1>1. IInv => TypeOK
  BY DEF IInv
<1> QED BY <1>1, Invariance, PTL

\* compute_iteration_groups partitions every chain, in order.
THEOREM ChainIsPartitioned == Spec => []Partition
<1>1. IInv => Partition
  BY DEF IInv, Partition, Sound
<1> QED BY <1>1, Invariance, PTL

\* No step is dropped by the executor's front step of a group that is not
\* iterated, and no iterated group is without a tick count.
THEOREM EveryStepRuns == Spec => []RunsEveryStep
<1>1. IInv => RunsEveryStep
  BY DEF IInv, RunsEveryStep, Sound
<1> QED BY <1>1, Invariance, PTL
-----------------------------------------------------------------------------
\* The scan throws for unbalanced loop regions and for nothing else: open_loop
\* remembers of the chain what balance depends on.

\* LoopBefore and Balanced, of any chain.
Before(c, i) ==
    \E b \in 1 .. i - 1 :
        /\ c[b].role = "begin"
        /\ \A k \in b + 1 .. i - 1 : c[k].role # "end"

MayFollow(s, inLoop) ==
    IF inLoop THEN ~s.boundary /\ s.role # "begin" ELSE s.role # "end"

Fits(c) == \A i \in 1 .. Len(c) : MayFollow(c[i], Before(c, i))

LEMMA BalancedFits == Balanced <=> Fits(chain) /\ ~Before(chain, Len(chain) + 1)
BY DEF Balanced, Fits, MayFollow, Before, LoopBefore

-----------------------------------------------------------------------------
\* What one more step does to the regions.

LEMMA BeforeOfPrefix ==
    ASSUME NEW c \in Seq(Steps), NEW s \in Steps, NEW i \in 1 .. Len(c) + 1
    PROVE  Before(Append(c, s), i) <=> Before(c, i)
<1>1. \A b \in 1 .. i - 1 : Append(c, s)[b] = c[b]
  OBVIOUS
<1>2. \A b \in 1 .. i - 1 : \A k \in b + 1 .. i - 1 : k \in 1 .. i - 1
  OBVIOUS
<1> DEFINE d == Append(c, s)
<1> HIDE DEF d
<1> QED BY <1>1, <1>2 DEF Before, d

LEMMA BeforeNext ==
    ASSUME NEW c \in Seq(Steps), NEW s \in Steps
    PROVE  Before(Append(c, s), Len(c) + 2) <=>
             s.role = "begin" \/ (Before(c, Len(c) + 1) /\ s.role # "end")
<1> DEFINE d == Append(c, s)
           n == Len(c)
<1>1. n \in Nat /\ d[n + 1] = s /\ \A b \in 1 .. n : d[b] = c[b]
  OBVIOUS
<1> HIDE DEF d, n
<1>2. ASSUME Before(d, n + 2), s.role # "begin"
      PROVE  Before(c, n + 1) /\ s.role # "end"
  <2>1. PICK b \in 1 .. n + 1 : d[b].role = "begin" /\ \A k \in b + 1 .. n + 1 : d[k].role # "end"
    BY <1>1, <1>2 DEF Before
  <2>2. b \in 1 .. n /\ n + 1 \in b + 1 .. n + 1
    BY <1>1, <1>2, <2>1
  <2>3. \A k \in b + 1 .. n : c[k].role # "end"
    BY <1>1, <2>1, <2>2
  <2>4. c[b].role = "begin" /\ s.role # "end"
    BY <1>1, <2>1, <2>2
  <2> QED BY <1>1, <2>2, <2>3, <2>4 DEF Before
<1>3. ASSUME s.role = "begin" PROVE Before(d, n + 2)
  <2>1. n + 1 \in 1 .. n + 1 /\ \A k \in n + 2 .. n + 1 : FALSE
    BY <1>1
  <2> QED BY <1>1, <1>3, <2>1 DEF Before
<1>4. ASSUME Before(c, n + 1), s.role # "end" PROVE Before(d, n + 2)
  <2>1. PICK b \in 1 .. n : c[b].role = "begin" /\ \A k \in b + 1 .. n : c[k].role # "end"
    BY <1>1, <1>4 DEF Before
  <2>2. ASSUME NEW k \in b + 1 .. n + 1 PROVE d[k].role # "end"
    <3>1. CASE k = n + 1
      BY <1>1, <1>4, <3>1
    <3>2. CASE k \in b + 1 .. n
      BY <1>1, <2>1, <3>2
    <3> QED BY <1>1, <3>1, <3>2
  <2>3. b \in 1 .. n + 1 /\ d[b].role = "begin"
    BY <1>1, <2>1
  <2> QED BY <1>1, <2>2, <2>3 DEF Before
<1> QED BY <1>2, <1>3, <1>4 DEF d, n

LEMMA FitsNext ==
    ASSUME NEW c \in Seq(Steps), NEW s \in Steps
    PROVE  Fits(Append(c, s)) <=> Fits(c) /\ MayFollow(s, Before(c, Len(c) + 1))
<1> DEFINE d == Append(c, s)
           n == Len(c)
<1>1. /\ n \in Nat /\ Len(d) = n + 1 /\ d[n + 1] = s
      /\ \A b \in 1 .. n : d[b] = c[b]
  OBVIOUS
<1>2. \A i \in 1 .. n + 1 : Before(d, i) <=> Before(c, i)
  BY BeforeOfPrefix
<1> HIDE DEF d
<1>3. \A i \in 1 .. n + 1 : MayFollow(d[i], Before(d, i)) <=> MayFollow(d[i], Before(c, i))
  BY <1>2 DEF MayFollow
<1> QED BY <1>1, <1>3 DEF Fits, d

-----------------------------------------------------------------------------
\* The invariant.

LoopInv ==
    /\ outcome = "scanning" => Fits(chain) /\ (InLoop <=> Before(chain, Len(chain) + 1))
    /\ outcome = "done" => Balanced
    /\ outcome = "thrown" => ~Balanced

\* A turn that does not throw: the step may follow, and the region is open
\* after it exactly if it was and does not end, or begins.
LEMMA TurnKeepsLoops ==
    ASSUME TypeOK, LoopInv, NEW s \in Steps, Scan(s), MayFollow(s, InLoop),
           outcome' = "scanning",
           InLoop' <=> s.role = "begin" \/ (InLoop /\ s.role # "end")
    PROVE  LoopInv'
<1>1. /\ chain \in Seq(Steps) /\ chain' = Append(chain, s)
      /\ Fits(chain) /\ (InLoop <=> Before(chain, Len(chain) + 1))
  BY DEF TypeOK, LoopInv, Scan
<1>2. Fits(chain')
  BY <1>1, FitsNext DEF MayFollow
<1>3. Len(chain') + 1 = Len(chain) + 2
  BY <1>1
<1>4. InLoop' <=> Before(chain', Len(chain') + 1)
  BY <1>1, <1>3, BeforeNext
<1> QED BY <1>2, <1>4 DEF LoopInv

\* A turn that throws: the step may not follow.
LEMMA ThrowKeepsLoops ==
    ASSUME TypeOK, LoopInv, NEW s \in Steps, Scan(s), ~MayFollow(s, InLoop), Throw
    PROVE  LoopInv'
<1>1. /\ chain \in Seq(Steps) /\ chain' = Append(chain, s) /\ outcome' = "thrown"
      /\ (InLoop <=> Before(chain, Len(chain) + 1))
  BY DEF TypeOK, LoopInv, Scan, Throw
<1>2. ~Fits(chain')
  BY <1>1, FitsNext DEF MayFollow
<1>3. ~Balanced'
  BY <1>2 DEF Balanced, Fits, MayFollow, Before, LoopBefore
<1> QED BY <1>1, <1>3 DEF LoopInv

LEMMA LoopsInit == Init => LoopInv
<1> SUFFICES ASSUME Init PROVE LoopInv
  OBVIOUS
<1>1. chain = <<>> /\ Len(chain) = 0 /\ outcome = "scanning" /\ ~InLoop
  BY DEF Init, InLoop
<1>2. Fits(chain) /\ ~Before(chain, Len(chain) + 1)
  BY <1>1 DEF Fits, Before
<1> QED BY <1>1, <1>2 DEF LoopInv

LEMMA LoopsNext == IInv /\ LoopInv /\ [Next]_vars => LoopInv'
<1> SUFFICES ASSUME IInv, LoopInv, [Next]_vars PROVE LoopInv'
  OBVIOUS
<1> USE StepsAssumption
<1>0. TypeOK
  BY DEF IInv
<1>1. ASSUME NEW s \in Steps, LoopStep(s) PROVE LoopInv'
  <2>1. Scan(s) /\ InLoop /\ outcome = "scanning"
    BY <1>1 DEF LoopStep, Scan
  <2>2. CASE s.boundary \/ s.role = "begin"
    <3>1. Throw /\ ~MayFollow(s, InLoop)
      BY <1>1, <2>1, <2>2 DEF LoopStep, MayFollow
    <3> QED BY <1>0, <2>1, <3>1, ThrowKeepsLoops
  <2>3. CASE ~s.boundary /\ s.role = "end"
    <3>1. openLoop' = NoGroup /\ outcome' = outcome
      BY <1>1, <2>3 DEF LoopStep, Continue
    <3>2. MayFollow(s, InLoop) /\ ~InLoop'
      BY <2>1, <2>3, <3>1 DEF MayFollow, InLoop, NoGroup
    <3> QED BY <1>0, <2>1, <2>3, <3>1, <3>2, TurnKeepsLoops
  <2>4. CASE ~s.boundary /\ s.role \notin {"begin", "end"}
    <3>1. openLoop' = Joined(openLoop, Index) /\ outcome' = outcome
      BY <1>1, <2>4 DEF LoopStep, Continue
    <3>2. openLoop'.steps # <<>>
      <4>1. openLoop.steps \in Seq(Nat)
        BY <1>0 DEF TypeOK, GroupType
      <4>2. openLoop'.steps = Append(openLoop.steps, Index)
        BY <1>0, <3>1 DEF Joined, TypeOK, GroupType
      <4>3. \A i : \A t \in Seq(Nat) : Append(t, i) # <<>>
        OBVIOUS
      <4> QED BY <4>1, <4>2, <4>3
    <3>3. MayFollow(s, InLoop) /\ InLoop'
      BY <2>1, <2>4, <3>2 DEF MayFollow, InLoop, NoGroup, Group
    <3> QED BY <1>0, <2>1, <2>4, <3>1, <3>3, TurnKeepsLoops
  <2> QED BY <2>2, <2>3, <2>4
<1>2. ASSUME NEW s \in Steps, BoundaryStep(s) PROVE LoopInv'
  <2>1. Scan(s) /\ ~InLoop /\ outcome = "scanning" /\ s.role = "none" /\ openLoop' = NoGroup
        /\ outcome' = outcome
    BY <1>2 DEF BoundaryStep, Scan, Continue
  <2>2. MayFollow(s, InLoop) /\ ~InLoop'
    BY <2>1 DEF MayFollow, InLoop, NoGroup
  <2> QED BY <1>0, <2>1, <2>2, TurnKeepsLoops
<1>3. ASSUME NEW s \in Steps, UnmatchedEnd(s) PROVE LoopInv'
  <2>1. Scan(s) /\ ~MayFollow(s, InLoop) /\ Throw
    BY <1>3 DEF UnmatchedEnd, EffectOutsideLoop, MayFollow
  <2> QED BY <1>0, <2>1, ThrowKeepsLoops
<1>4. ASSUME NEW s \in Steps, LoopBegins(s) PROVE LoopInv'
  <2>1. /\ Scan(s) /\ ~InLoop /\ outcome = "scanning" /\ s.role = "begin"
        /\ openLoop' = Group(<<Index>>, TRUE, TRUE) /\ outcome' = outcome
    BY <1>4 DEF LoopBegins, EffectOutsideLoop, Scan, Continue
  <2>2. MayFollow(s, InLoop) /\ InLoop'
    BY <2>1 DEF MayFollow, InLoop, NoGroup, Group
  <2> QED BY <1>0, <2>1, <2>2, TurnKeepsLoops
<1>5. ASSUME NEW s \in Steps,
             OpensParticles(s) \/ JoinStep(s) \/ FlowStep(s) \/ SingleStep(s)
      PROVE  LoopInv'
  <2>1. /\ Scan(s) /\ ~InLoop /\ outcome = "scanning" /\ s.role = "none"
        /\ openLoop' = NoGroup /\ outcome' = outcome
    BY <1>5 DEF OpensParticles, JoinStep, FlowStep, SingleStep, EffectOutsideLoop, Scan, Continue
  <2>2. MayFollow(s, InLoop) /\ ~InLoop'
    BY <2>1 DEF MayFollow, InLoop, NoGroup
  <2> QED BY <1>0, <2>1, <2>2, TurnKeepsLoops
<1>6. CASE Finish
  <2>1. chain' = chain /\ Fits(chain) /\ (InLoop <=> Before(chain, Len(chain) + 1))
    BY <1>6 DEF Finish, LoopInv
  <2>2. Balanced' <=> ~InLoop
    BY <2>1, BalancedFits DEF Balanced, LoopBefore
  <2>3. outcome' = IF InLoop THEN "thrown" ELSE "done"
    BY <1>6 DEF Finish, Throw
  <2> QED BY <2>2, <2>3 DEF LoopInv
<1>7. CASE UNCHANGED vars
  <2>1. chain' = chain /\ outcome' = outcome /\ (InLoop' <=> InLoop)
    BY <1>7 DEF vars, InLoop, NoGroup
  <2>2. Balanced' <=> Balanced
    BY <2>1 DEF Balanced, LoopBefore
  <2> QED BY <2>1, <2>2 DEF LoopInv
<1> QED
  BY <1>1, <1>2, <1>3, <1>4, <1>5, <1>6, <1>7 DEF Next, Ended

\* iteration.hpp: the scan throws for a region that crosses a surface step,
\* for a nested begin, for an unmatched begin or end, and for nothing else.
THEOREM ThrowsForLoops == Spec => []ThrowsExactlyWhenUnbalanced
<1>1. LoopInv => ThrowsExactlyWhenUnbalanced
  BY DEF LoopInv, ThrowsExactlyWhenUnbalanced
<1> QED BY <1>1, LoopsInit, LoopsNext, Invariance, PTL DEF Spec
-----------------------------------------------------------------------------
\* Particle state has one owner in its group.

\* The group g of the chain c has one owner, which comes first but for an
\* animated image.
OwnedOnce(g, c) ==
    \A i \in 1 .. Len(g.steps) :
        ~g.loop /\ c[g.steps[i]].declaresXyz =>
          /\ \A j \in i + 1 .. Len(g.steps) :
                c[g.steps[j]].references /\ ~c[g.steps[j]].declaresXyz
          /\ \A j \in 1 .. i - 1 :
                j = 1 /\ i = 2 /\ IsAnimatedImageGenerator(c[g.steps[j]])

Owned(g, c) == OwnedOnce(g, c) /\ \A i \in 1 .. Len(g.steps) : g.steps[i] \in 1 .. Len(c)

AllOwned(gs, c) == \A k \in 1 .. Len(gs) : Owned(gs[k], c)

-----------------------------------------------------------------------------
\* One more step in the chain, and one more group.

LEMMA OwnedLater ==
    ASSUME NEW g \in GroupType, NEW c \in Seq(Steps), NEW s \in Steps, Owned(g, c)
    PROVE  Owned(g, Append(c, s))
<1> DEFINE d == Append(c, s)
<1>1. Len(d) = Len(c) + 1 /\ Len(c) \in Nat /\ \A i \in 1 .. Len(c) : d[i] = c[i]
  OBVIOUS
<1>2. Len(g.steps) \in Nat
  BY DEF GroupType
<1> HIDE DEF d
<1>3. \A i \in 1 .. Len(g.steps) : g.steps[i] \in 1 .. Len(d) /\ d[g.steps[i]] = c[g.steps[i]]
  BY <1>1 DEF Owned
<1>4. OwnedOnce(g, d)
  <2> SUFFICES ASSUME NEW i \in 1 .. Len(g.steps), ~g.loop, d[g.steps[i]].declaresXyz
               PROVE  /\ \A j \in i + 1 .. Len(g.steps) :
                            d[g.steps[j]].references /\ ~d[g.steps[j]].declaresXyz
                      /\ \A j \in 1 .. i - 1 :
                            j = 1 /\ i = 2 /\ IsAnimatedImageGenerator(d[g.steps[j]])
    BY DEF OwnedOnce
  <2>1. /\ \A j \in i + 1 .. Len(g.steps) :
              c[g.steps[j]].references /\ ~c[g.steps[j]].declaresXyz
        /\ \A j \in 1 .. i - 1 :
              j = 1 /\ i = 2 /\ IsAnimatedImageGenerator(c[g.steps[j]])
    BY <1>3 DEF Owned, OwnedOnce
  <2>2. \A j \in (i + 1 .. Len(g.steps)) \cup (1 .. i - 1) : j \in 1 .. Len(g.steps)
    BY <1>2
  <2>3. \A j \in (i + 1 .. Len(g.steps)) \cup (1 .. i - 1) : d[g.steps[j]] = c[g.steps[j]]
    BY <1>3, <2>2
  <2> QED BY <2>1, <2>3
<1> QED BY <1>3, <1>4 DEF Owned, d

LEMMA AllOwnedLater ==
    ASSUME NEW gs \in Seq(GroupType), NEW c \in Seq(Steps), NEW s \in Steps, AllOwned(gs, c)
    PROVE  AllOwned(gs, Append(c, s))
BY OwnedLater DEF AllOwned

LEMMA AllOwnedAppend ==
    ASSUME NEW gs \in Seq(GroupType), NEW g \in GroupType, NEW c
    PROVE  AllOwned(Append(gs, g), c) <=> AllOwned(gs, c) /\ Owned(g, c)
<1> DEFINE hs == Append(gs, g)
<1>1. /\ Len(hs) = Len(gs) + 1 /\ Len(gs) \in Nat /\ hs[Len(gs) + 1] = g
      /\ \A k \in 1 .. Len(gs) : hs[k] = gs[k]
  OBVIOUS
<1> HIDE DEF hs
<1> QED BY <1>1 DEF AllOwned, hs

LEMMA AllOwnedFront ==
    ASSUME NEW gs \in Seq(GroupType), gs # <<>>, NEW c, AllOwned(gs, c)
    PROVE  AllButLast(gs) \in Seq(GroupType) /\ AllOwned(AllButLast(gs), c)
<1>1. /\ Len(gs) \in Nat \ {0} /\ AllButLast(gs) \in Seq(GroupType)
      /\ Len(AllButLast(gs)) = Len(gs) - 1
      /\ \A k \in 1 .. Len(gs) - 1 : AllButLast(gs)[k] = gs[k]
  <2>1. Len(gs) \in Nat \ {0}
    OBVIOUS
  <2>2. AllButLast(gs) = [k \in 1 .. Len(gs) - 1 |-> gs[k]]
    BY <2>1 DEF AllButLast
  <2> QED BY <2>1, <2>2
<1> QED BY <1>1 DEF AllOwned

-----------------------------------------------------------------------------
\* The groups that the scan makes of the step s.

LEMMA OwnedSingle ==
    ASSUME NEW c \in Seq(Steps), NEW s \in Steps, NEW iterated, NEW loop
    PROVE  Owned(Group(<<Len(c) + 1>>, iterated, loop), Append(c, s))
<1> DEFINE g == Group(<<Len(c) + 1>>, iterated, loop)
<1>1. g.steps = <<Len(c) + 1>>
  BY DEF Group
<1>2. Len(g.steps) = 1 /\ g.steps[1] = Len(c) + 1
  BY <1>1
<1>3. Len(Append(c, s)) = Len(c) + 1 /\ Len(c) \in Nat
  OBVIOUS
<1> HIDE DEF g
<1> QED BY <1>2, <1>3 DEF Owned, OwnedOnce, g

LEMMA OwnedPair ==
    ASSUME NEW c \in Seq(Steps), NEW s \in Steps, NEW m \in 1 .. Len(c), NEW iterated,
           ~c[m].declaresXyz, s.declaresXyz => IsAnimatedImageGenerator(c[m])
    PROVE  Owned(Group(<<m, Len(c) + 1>>, iterated, FALSE), Append(c, s))
<1> DEFINE g == Group(<<m, Len(c) + 1>>, iterated, FALSE)
           d == Append(c, s)
<1>1. g.steps = <<m, Len(c) + 1>>
  BY DEF Group
<1>2. Len(g.steps) = 2 /\ g.steps[1] = m /\ g.steps[2] = Len(c) + 1
  <2> HIDE DEF g
  <2> QED BY <1>1
<1>3. Len(d) = Len(c) + 1 /\ Len(c) \in Nat /\ d[m] = c[m] /\ d[Len(c) + 1] = s
  OBVIOUS
<1>4. g.loop = FALSE
  BY DEF Group
<1> HIDE DEF g, d
<1>5. \A i \in 1 .. Len(g.steps) : g.steps[i] \in 1 .. Len(d)
  BY <1>2, <1>3
<1>6. OwnedOnce(g, d)
  <2> SUFFICES ASSUME NEW i \in 1 .. 2, d[g.steps[i]].declaresXyz
               PROVE  /\ \A j \in i + 1 .. 2 :
                            d[g.steps[j]].references /\ ~d[g.steps[j]].declaresXyz
                      /\ \A j \in 1 .. i - 1 :
                            j = 1 /\ i = 2 /\ IsAnimatedImageGenerator(d[g.steps[j]])
    BY <1>2 DEF OwnedOnce
  <2>1. i = 2
    BY <1>2, <1>3
  <2> QED BY <1>2, <1>3, <2>1
<1> QED BY <1>5, <1>6 DEF Owned, g, d

LEMMA OwnedJoined ==
    ASSUME NEW c \in Seq(Steps), NEW s \in Steps, NEW g \in GroupType, Owned(g, c),
           g.loop \/ (s.references /\ ~s.declaresXyz)
    PROVE  Owned(Joined(g, Len(c) + 1), Append(c, s))
<1> DEFINE h == Joined(g, Len(c) + 1)
           d == Append(c, s)
           n == Len(g.steps)
<1>1. h.steps = Append(g.steps, Len(c) + 1) /\ h.loop = g.loop /\ g.steps \in Seq(Nat)
  BY DEF Joined, GroupType
<1>2. /\ Len(h.steps) = n + 1 /\ h.steps[n + 1] = Len(c) + 1 /\ n \in Nat
      /\ \A i \in 1 .. n : h.steps[i] = g.steps[i]
  <2> HIDE DEF h
  <2> QED BY <1>1, AppendProperties, LenProperties
<1>3. /\ Len(d) = Len(c) + 1 /\ Len(c) \in Nat /\ d[Len(c) + 1] = s
      /\ \A i \in 1 .. Len(c) : d[i] = c[i]
  BY AppendProperties, LenProperties
<1> HIDE DEF h, d, n
<1>4. \A i \in 1 .. n : g.steps[i] \in 1 .. Len(c) /\ d[h.steps[i]] = c[g.steps[i]]
  BY <1>2, <1>3 DEF Owned, n
<1>5. d[h.steps[n + 1]] = s
  BY <1>2, <1>3
<1>6. \A i \in 1 .. Len(h.steps) : h.steps[i] \in 1 .. Len(d)
  <2>1. 1 .. Len(c) \subseteq 1 .. Len(d) /\ Len(c) + 1 \in 1 .. Len(d)
    BY <1>3
  <2>2. \A i \in 1 .. n : h.steps[i] \in 1 .. Len(d)
    BY <1>2, <1>4, <2>1
  <2>3. h.steps[n + 1] \in 1 .. Len(d)
    BY <1>2, <2>1
  <2>4. \A i \in 1 .. n + 1 : i \in 1 .. n \/ i = n + 1
    BY <1>2
  <2> QED BY <1>2, <2>2, <2>3, <2>4
<1>7. OwnedOnce(h, d)
  <2>1. CASE g.loop
    BY <1>1, <2>1 DEF OwnedOnce
  <2>2. CASE ~g.loop /\ s.references /\ ~s.declaresXyz
    <3> SUFFICES ASSUME NEW i \in 1 .. n + 1, d[h.steps[i]].declaresXyz
                 PROVE  /\ \A j \in i + 1 .. n + 1 :
                              d[h.steps[j]].references /\ ~d[h.steps[j]].declaresXyz
                        /\ \A j \in 1 .. i - 1 :
                              j = 1 /\ i = 2 /\ IsAnimatedImageGenerator(d[h.steps[j]])
      BY <1>2 DEF OwnedOnce
    <3>1. i \in 1 .. n /\ c[g.steps[i]].declaresXyz
      BY <1>2, <1>4, <1>5, <2>2
    <3>2. /\ \A j \in i + 1 .. n :
                c[g.steps[j]].references /\ ~c[g.steps[j]].declaresXyz
          /\ \A j \in 1 .. i - 1 :
                j = 1 /\ i = 2 /\ IsAnimatedImageGenerator(c[g.steps[j]])
      BY <2>2, <3>1 DEF Owned, OwnedOnce, n
    <3>3. ASSUME NEW j \in i + 1 .. n + 1
          PROVE  d[h.steps[j]].references /\ ~d[h.steps[j]].declaresXyz
      <4>1. CASE j = n + 1
        BY <1>5, <2>2, <4>1
      <4>2. CASE j \in i + 1 .. n
        <5>1. j \in 1 .. n
          BY <1>2, <3>1, <4>2
        <5> QED BY <1>4, <3>2, <4>2, <5>1
      <4> QED BY <1>2, <4>1, <4>2
    <3>4. ASSUME NEW j \in 1 .. i - 1
          PROVE  j = 1 /\ i = 2 /\ IsAnimatedImageGenerator(d[h.steps[j]])
      <4>1. j \in 1 .. n
        BY <1>2, <3>1
      <4> QED BY <1>4, <3>2, <4>1
    <3> QED BY <3>3, <3>4
  <2> QED BY <2>1, <2>2
<1> QED BY <1>6, <1>7 DEF Owned, h, d

-----------------------------------------------------------------------------
\* The invariant.

OwnerInv == AllOwned(AllGroups, chain)

LEMMA OwnersInit == Init => OwnerInv
<1> SUFFICES ASSUME Init PROVE OwnerInv
  OBVIOUS
<1>1. AllGroups = <<>>
  BY AllGroupsCases DEF Init, InLoop
<1> QED BY <1>1 DEF OwnerInv, AllOwned

LEMMA ThrowKeepsOwners ==
    ASSUME IInv, OwnerInv, NEW s \in Steps, Scan(s), Throw
    PROVE  OwnerInv'
<1>1. chain \in Seq(Steps) /\ AllGroups \in Seq(GroupType)
  BY DEF Scan, IInv, Sound, TypeOK
<1>2. chain' = Append(chain, s) /\ AllGroups' = AllGroups
  BY DEF Scan, Throw, AllGroups, InLoop, Closed, NoGroup
<1> QED BY <1>1, <1>2, AllOwnedLater DEF OwnerInv

\* The step starts a group.
LEMMA StartKeepsOwners ==
    ASSUME IInv, OwnerInv, NEW s \in Steps, Scan(s), ~InLoop,
           NEW iterated \in BOOLEAN, NEW loop \in BOOLEAN,
           LET g == Group(<<Index>>, iterated, loop)
           IN  \/ Continue(Append(Closed, g), NoGroup, NoGroup)
               \/ Continue(Closed, g, NoGroup)
               \/ Continue(Closed, NoGroup, g)
    PROVE  OwnerInv'
<1> DEFINE g == Group(<<Index>>, iterated, loop)
<1>1. /\ chain \in Seq(Steps) /\ Index = Len(chain) + 1 /\ Closed \in Seq(GroupType)
      /\ Len(chain) \in Nat /\ AllGroups = Closed /\ chain' = Append(chain, s)
  BY OutsideLoop, AllGroupsCases DEF Scan
<1>2. g \in GroupType /\ g # NoGroup
  <2>1. <<Index>> \in Seq(Nat) /\ <<Index>> # <<>>
    BY <1>1
  <2>2. g.steps = <<Index>> /\ NoGroup.steps = <<>>
    BY DEF Group, NoGroup
  <2>3. g \in GroupType
    BY <2>1 DEF Group, GroupType
  <2> QED BY <2>1, <2>2, <2>3
<1>3. AllGroups' = Append(Closed, g)
  <2> HIDE DEF g
  <2> QED BY <1>2, AllGroupsAfter DEF After, g
<1>4. Owned(g, Append(chain, s))
  BY <1>1, OwnedSingle
<1>5. AllOwned(Closed, Append(chain, s))
  BY <1>1, AllOwnedLater DEF OwnerInv
<1> HIDE DEF g
<1> QED BY <1>1, <1>2, <1>3, <1>4, <1>5, AllOwnedAppend DEF OwnerInv

\* The step rejoins the last group, whose step declares no particles.
LEMMA RejoinKeepsOwners ==
    ASSUME IInv, OwnerInv, NEW s \in Steps, Scan(s), ~InLoop, EndsWithOne(Closed),
           NEW iterated \in BOOLEAN,
           ~LastStep(Closed).declaresXyz,
           s.declaresXyz => IsAnimatedImageGenerator(LastStep(Closed)),
           LET g == Group(<<Closed[Len(Closed)].steps[1], Index>>, iterated, FALSE)
           IN  \/ Continue(Append(AllButLast(Closed), g), NoGroup, NoGroup)
               \/ Continue(AllButLast(Closed), g, NoGroup)
    PROVE  OwnerInv'
<1> DEFINE m  == Closed[Len(Closed)].steps[1]
           g  == Group(<<m, Index>>, iterated, FALSE)
           hs == AllButLast(Closed)
<1>1. /\ chain \in Seq(Steps) /\ Index = Len(chain) + 1 /\ Closed \in Seq(GroupType)
      /\ Len(chain) \in Nat /\ AllGroups = Closed /\ chain' = Append(chain, s)
  BY OutsideLoop, AllGroupsCases DEF Scan
<1>2. m \in 1 .. Len(chain)
  <2>1. Len(Closed) \in 1 .. Len(Closed) /\ Len(Closed[Len(Closed)].steps) = 1
    BY <1>1 DEF EndsWithOne
  <2> QED BY <1>1, <2>1 DEF OwnerInv, AllOwned, Owned
<1>3. g \in GroupType /\ g # NoGroup
  <2>1. <<m, Index>> \in Seq(Nat) /\ <<m, Index>> # <<>>
    <3> HIDE DEF m
    <3> QED BY <1>1, <1>2
  <2>2. g.steps = <<m, Index>> /\ NoGroup.steps = <<>>
    BY DEF Group, NoGroup
  <2>3. g \in GroupType
    BY <2>1 DEF Group, GroupType
  <2> QED BY <2>1, <2>2, <2>3
<1>4. hs \in Seq(GroupType) /\ AllOwned(hs, chain)
  BY <1>1, AllOwnedFront DEF EndsWithOne, OwnerInv
<1>5. Owned(g, Append(chain, s))
  <2>1. LastStep(Closed) = chain[m]
    BY DEF LastStep
  <2> HIDE DEF m
  <2> QED BY <1>1, <1>2, <2>1, OwnedPair
<1>6. AllGroups' = Append(hs, g)
  <2> HIDE DEF g, hs
  <2> QED BY <1>3, AllGroupsAfter DEF After, g, hs
<1> HIDE DEF g, hs
<1>7. AllOwned(hs, Append(chain, s))
  BY <1>1, <1>4, AllOwnedLater
<1> QED BY <1>1, <1>3, <1>4, <1>5, <1>6, <1>7, AllOwnedAppend DEF OwnerInv

\* The step joins the group that is open.
LEMMA JoinKeepsOwners ==
    ASSUME IInv, OwnerInv, NEW s \in Steps, Scan(s), NEW g \in GroupType,
           AllGroups = Append(groups, g), g.loop \/ (s.references /\ ~s.declaresXyz),
           AllGroups' = Append(groups, Joined(g, Index))
    PROVE  OwnerInv'
<1> DEFINE h == Joined(g, Index)
<1>1. /\ chain \in Seq(Steps) /\ Index = Len(chain) + 1 /\ groups \in Seq(GroupType)
      /\ Len(chain) \in Nat /\ chain' = Append(chain, s)
  BY DEF IInv, TypeOK, Scan, Index
<1>2. AllOwned(groups, chain) /\ Owned(g, chain)
  BY <1>1, AllOwnedAppend DEF OwnerInv
<1>3. Owned(h, Append(chain, s)) /\ AllOwned(groups, Append(chain, s))
  BY <1>1, <1>2, OwnedJoined, AllOwnedLater
<1>4. h \in GroupType
  <2>1. g.steps \in Seq(Nat) /\ Append(g.steps, Index) \in Seq(Nat)
    BY <1>1 DEF GroupType
  <2> QED BY <2>1 DEF Joined, GroupType
<1> HIDE DEF h
<1> QED BY <1>1, <1>3, <1>4, AllOwnedAppend DEF OwnerInv, h

LEMMA OwnersNext == IInv /\ OwnerInv /\ [Next]_vars => OwnerInv'
<1> SUFFICES ASSUME IInv, OwnerInv, [Next]_vars PROVE OwnerInv'
  OBVIOUS
<1> USE StepsAssumption
<1>1. ASSUME NEW s \in Steps, LoopStep(s) PROVE OwnerInv'
  <2>1. Scan(s) /\ InLoop /\ AllGroups = Append(groups, openLoop)
    BY <1>1, AllGroupsCases DEF LoopStep
  <2>2. openLoop \in GroupType /\ openLoop.loop /\ openGroup = NoGroup
    BY <2>1 DEF IInv, TypeOK, OpenIsIterated, InLoop, Scan
  <2>3. CASE Throw
    BY <2>1, <2>3, ThrowKeepsOwners
  <2>4. Joined(openLoop, Index) # NoGroup
    <3>1. Joined(openLoop, Index).loop = openLoop.loop
      BY DEF Joined
    <3>2. NoGroup.loop = FALSE
      BY DEF NoGroup, Group
    <3> QED BY <2>2, <3>1, <3>2
  <2>5. CASE \/ Continue(Append(groups, Joined(openLoop, Index)), openGroup, NoGroup)
             \/ Continue(groups, openGroup, Joined(openLoop, Index))
    <3>1. AllGroups' = Append(groups, Joined(openLoop, Index))
      BY <2>2, <2>4, <2>5, AllGroupsAfter DEF After
    <3> QED BY <2>1, <2>2, <3>1, JoinKeepsOwners
  <2> QED BY <1>1, <2>3, <2>5 DEF LoopStep
<1>2. ASSUME NEW s \in Steps, BoundaryStep(s) PROVE OwnerInv'
  BY <1>2, StartKeepsOwners DEF BoundaryStep
<1>3. ASSUME NEW s \in Steps, UnmatchedEnd(s) PROVE OwnerInv'
  BY <1>3, ThrowKeepsOwners DEF UnmatchedEnd, EffectOutsideLoop
<1>4. ASSUME NEW s \in Steps, LoopBegins(s) PROVE OwnerInv'
  BY <1>4, StartKeepsOwners DEF LoopBegins, EffectOutsideLoop
<1>5. ASSUME NEW s \in Steps, OpensParticles(s) PROVE OwnerInv'
  <2>1. Scan(s) /\ ~InLoop /\ s.iterated \in BOOLEAN
    BY <1>5 DEF OpensParticles, EffectOutsideLoop, StepType
  <2>2. CASE RejoinsImage(s)
    <3>1. EndsWithOne(Closed) /\ IsAnimatedImageGenerator(LastStep(Closed))
      BY <2>2 DEF RejoinsImage
    <3>2. ~LastStep(Closed).declaresXyz
      <4>1. /\ chain \in Seq(Steps) /\ Closed \in Seq(GroupType) /\ AllGroups = Closed
        BY <2>1, OutsideLoop, AllGroupsCases DEF Scan
      <4>2. Len(Closed) \in 1 .. Len(Closed) /\ Len(Closed[Len(Closed)].steps) = 1
        BY <3>1, <4>1 DEF EndsWithOne
      <4>3. Closed[Len(Closed)].steps[1] \in 1 .. Len(chain)
        BY <4>1, <4>2 DEF OwnerInv, AllOwned, Owned
      <4>4. LastStep(Closed) \in Steps
        BY <4>1, <4>3 DEF LastStep
      <4> QED BY <3>1, <4>4 DEF IsAnimatedImageGenerator
    <3>3. Continue(AllButLast(Closed),
                   Group(<<Closed[Len(Closed)].steps[1], Index>>, s.iterated, FALSE), NoGroup)
      BY <1>5, <2>2 DEF OpensParticles, GroupWithImage
    <3> QED BY <2>1, <3>1, <3>2, <3>3, RejoinKeepsOwners
  <2>3. CASE ~RejoinsImage(s)
    <3>1. Continue(Closed, Group(<<Index>>, s.iterated, FALSE), NoGroup)
      BY <1>5, <2>3 DEF OpensParticles
    <3> QED BY <2>1, <3>1, StartKeepsOwners
  <2> QED BY <2>2, <2>3
<1>6. ASSUME NEW s \in Steps, JoinStep(s) PROVE OwnerInv'
  <2>1. /\ Scan(s) /\ ~InLoop /\ openGroup # NoGroup /\ openGroup \in GroupType
        /\ s.references /\ ~s.declaresXyz
        /\ Continue(groups, Joined(openGroup, Index), NoGroup)
    BY <1>6 DEF JoinStep, JoinsParticles, EffectOutsideLoop, IInv, TypeOK
  <2>2. AllGroups = Append(groups, openGroup)
    BY <2>1, AllGroupsCases
  <2>3. Joined(openGroup, Index) # NoGroup
    <3>1. openGroup.iterated = TRUE
      BY <2>1 DEF IInv, OpenIsIterated, Scan, GroupType
    <3>2. Joined(openGroup, Index).iterated = openGroup.iterated
      BY <2>1 DEF Joined, GroupType
    <3>3. NoGroup.iterated = FALSE
      BY DEF NoGroup, Group
    <3> QED BY <3>1, <3>2, <3>3
  <2>4. AllGroups' = Append(groups, Joined(openGroup, Index))
    BY <2>1, <2>3, AllGroupsAfter DEF After
  <2> QED BY <2>1, <2>2, <2>4, JoinKeepsOwners
<1>7. ASSUME NEW s \in Steps, FlowStep(s) PROVE OwnerInv'
  <2>1. /\ Scan(s) /\ ~InLoop /\ ~s.declaresXyz /\ openGroup = NoGroup
        /\ EndsWithOne(groups) /\ LastStep(groups).id = "noise3d"
        /\ Continue(Append(AllButLast(groups),
                           Group(<<groups[Len(groups)].steps[1], Index>>, TRUE, FALSE)),
                    NoGroup, NoGroup)
    BY <1>7 DEF FlowStep, EffectOutsideLoop, RejoinsNoise
  <2>2. Closed = groups
    BY <2>1, AllGroupsCases
  <2>3. ~LastStep(groups).declaresXyz
    <3>1. /\ chain \in Seq(Steps) /\ Closed \in Seq(GroupType) /\ AllGroups = Closed
      BY <2>1, OutsideLoop, AllGroupsCases DEF Scan
    <3>2. Len(groups) \in 1 .. Len(groups) /\ Len(groups[Len(groups)].steps) = 1
      BY <2>1, <2>2, <3>1 DEF EndsWithOne
    <3>3. groups[Len(groups)].steps[1] \in 1 .. Len(chain)
      BY <2>2, <3>1, <3>2 DEF OwnerInv, AllOwned, Owned
    <3>4. LastStep(groups) \in Steps
      BY <3>1, <3>3 DEF LastStep
    <3> QED BY <2>1, <3>4
  <2> QED BY <2>1, <2>2, <2>3, RejoinKeepsOwners
<1>8. ASSUME NEW s \in Steps, SingleStep(s) PROVE OwnerInv'
  <2>1. /\ Scan(s) /\ ~InLoop /\ s.iterated \in BOOLEAN
        /\ Continue(Append(Closed, Group(<<Index>>, s.iterated, FALSE)), NoGroup, NoGroup)
    BY <1>8 DEF SingleStep, EffectOutsideLoop, StepType
  <2> QED BY <2>1, StartKeepsOwners
<1>9. CASE Finish
  <2>1. chain' = chain /\ AllGroups' = AllGroups
    <3>1. CASE InLoop
      BY <1>9, <3>1 DEF Finish, Throw, AllGroups, InLoop, Closed, NoGroup
    <3>2. CASE ~InLoop
      BY <1>9, <3>2 DEF Finish, AllGroups, InLoop, Closed, NoGroup
    <3> QED BY <3>1, <3>2
  <2> QED BY <2>1 DEF OwnerInv
<1>10. CASE UNCHANGED vars
  <2>1. chain' = chain /\ AllGroups' = AllGroups
    BY <1>10 DEF vars, AllGroups, InLoop, Closed, NoGroup
  <2> QED BY <2>1 DEF OwnerInv
<1> QED
  BY <1>1, <1>2, <1>3, <1>4, <1>5, <1>6, <1>7, <1>8, <1>9, <1>10 DEF Next, Ended

\* compute_iteration_groups never puts two owners of particle state in one
\* group, nor anything in front of the owner but an animated image.
THEOREM OneOwner == Spec => []SingleStateOwner
<1>1. OwnerInv => SingleStateOwner
  BY DEF OwnerInv, AllOwned, Owned, OwnedOnce, SingleStateOwner
<1> QED BY <1>1, OwnersInit, OwnersNext, Invariance, PTL DEF Spec

-----------------------------------------------------------------------------
\* The scan finds the grouping that the whole chain calls for.

\* IsOrdinary, ParticlesReach and what RunsWithPrevious says of step i, of any
\* chain; linked: step i - 1 is in the group of the step before it.
Ordinary(c, i) == ~Before(c, i) /\ ~c[i].boundary /\ c[i].role = "none"

Reaches(c, j, i) ==
    /\ Ordinary(c, j) /\ c[j].declaresXyz
    /\ \A k \in j + 1 .. i - 1 : Ordinary(c, k) /\ c[k].references /\ ~c[k].declaresXyz

Reached(c, i) == \E j \in 1 .. i - 1 : Reaches(c, j, i)

RejoinsImageAt(c, i) ==
    /\ Ordinary(c, i) /\ c[i].declaresXyz /\ c[i].ticks
    /\ Ordinary(c, i - 1) /\ IsAnimatedImageGenerator(c[i - 1])

JoinsParticlesAt(c, i) ==
    Ordinary(c, i) /\ ~c[i].declaresXyz /\ Reached(c, i) /\ c[i].references

RejoinsNoiseAt(c, i) ==
    /\ Ordinary(c, i) /\ ~c[i].declaresXyz /\ ~Reached(c, i)
    /\ c[i].id = "flow3d" /\ c[i].ticks
    /\ Ordinary(c, i - 1) /\ c[i - 1].id = "noise3d" /\ c[i - 1].speed # "zero"

CalledFor(c, i, linked) ==
    \/ Before(c, i)
    \/ JoinsParticlesAt(c, i)
    \/ ~linked /\ (RejoinsImageAt(c, i) \/ RejoinsNoiseAt(c, i))

\* Index i is in the group g, or in one of the list, and not its first.
HasLink(g, i) == \E p \in 2 .. Len(g.steps) : g.steps[p] = i

IsLinked(gs, i) == \E k \in 1 .. Len(gs) : HasLink(gs[k], i)

\* What one more step does to what the chain calls for.
LEMMA OrdinaryOfPrefix ==
    ASSUME NEW c \in Seq(Steps), NEW s \in Steps, NEW i \in 1 .. Len(c)
    PROVE  Ordinary(Append(c, s), i) <=> Ordinary(c, i)
<1>1. Append(c, s)[i] = c[i]
  OBVIOUS
<1>2. i \in 1 .. Len(c) + 1
  OBVIOUS
<1> QED BY <1>1, <1>2, BeforeOfPrefix DEF Ordinary

LEMMA ReachesOfPrefix ==
    ASSUME NEW c \in Seq(Steps), NEW s \in Steps, NEW i \in 1 .. Len(c) + 1,
           NEW j \in 1 .. i - 1
    PROVE  Reaches(Append(c, s), j, i) <=> Reaches(c, j, i)
<1> DEFINE d == Append(c, s)
<1>1. \A k \in 1 .. Len(c) : d[k] = c[k] /\ (Ordinary(d, k) <=> Ordinary(c, k))
  BY OrdinaryOfPrefix
<1>2. j \in 1 .. Len(c) /\ \A k \in j + 1 .. i - 1 : k \in 1 .. Len(c)
  OBVIOUS
<1> HIDE DEF d
<1> QED BY <1>1, <1>2 DEF Reaches, d

LEMMA ReachedOfPrefix ==
    ASSUME NEW c \in Seq(Steps), NEW s \in Steps, NEW i \in 1 .. Len(c) + 1
    PROVE  Reached(Append(c, s), i) <=> Reached(c, i)
BY ReachesOfPrefix DEF Reached

LEMMA ReachedNext ==
    ASSUME NEW c \in Seq(Steps), NEW s \in Steps
    PROVE  Reached(Append(c, s), Len(c) + 2) <=>
             /\ Ordinary(Append(c, s), Len(c) + 1)
             /\ s.declaresXyz \/ (Reached(c, Len(c) + 1) /\ s.references)
<1> DEFINE d == Append(c, s)
           n == Len(c)
<1>1. n \in Nat /\ d[n + 1] = s
  OBVIOUS
<1>2. \A j \in 1 .. n : Reaches(d, j, n + 1) <=> Reaches(c, j, n + 1)
  BY ReachesOfPrefix
<1> HIDE DEF d, n
<1>3. \A j \in 1 .. n :
        Reaches(d, j, n + 2) <=>
          Reaches(d, j, n + 1) /\ Ordinary(d, n + 1) /\ s.references /\ ~s.declaresXyz
  <2> SUFFICES ASSUME NEW j \in 1 .. n
               PROVE  Reaches(d, j, n + 2) <=>
                        Reaches(d, j, n + 1) /\ Ordinary(d, n + 1) /\ s.references /\ ~s.declaresXyz
    OBVIOUS
  <2>1. /\ n + 1 \in j + 1 .. n + 1
        /\ \A k \in j + 1 .. n + 1 : k \in j + 1 .. n \/ k = n + 1
        /\ \A k \in j + 1 .. n : k \in j + 1 .. n + 1
        /\ (n + 2) - 1 = n + 1 /\ (n + 1) - 1 = n
    BY <1>1
  <2> QED BY <1>1, <2>1 DEF Reaches
<1>4. Reaches(d, n + 1, n + 2) <=> Ordinary(d, n + 1) /\ s.declaresXyz
  <2>1. (n + 1) + 1 .. (n + 2) - 1 = {}
    BY <1>1
  <2> QED BY <1>1, <2>1 DEF Reaches
<1>5. /\ \A j \in 1 .. n + 1 : j \in 1 .. n \/ j = n + 1
      /\ \A j \in 1 .. n : j \in 1 .. n + 1
      /\ n + 1 \in 1 .. n + 1 /\ (n + 2) - 1 = n + 1 /\ (n + 1) - 1 = n
  BY <1>1
<1>6. Reached(d, n + 2) <=> (\E j \in 1 .. n : Reaches(d, j, n + 2)) \/ Reaches(d, n + 1, n + 2)
  BY <1>5 DEF Reached
<1>7. Reached(c, n + 1) <=> \E j \in 1 .. n : Reaches(d, j, n + 1)
  BY <1>2, <1>5 DEF Reached
<1> QED BY <1>3, <1>4, <1>6, <1>7 DEF d, n

LEMMA CalledForOfPrefix ==
    ASSUME NEW c \in Seq(Steps), NEW s \in Steps, NEW i \in 2 .. Len(c)
    PROVE  \A linked : CalledFor(Append(c, s), i, linked) <=> CalledFor(c, i, linked)
<1> DEFINE d == Append(c, s)
<1>1. i \in 1 .. Len(c) /\ i - 1 \in 1 .. Len(c) /\ i \in 1 .. Len(c) + 1
  OBVIOUS
<1>2. /\ d[i] = c[i] /\ d[i - 1] = c[i - 1]
      /\ Ordinary(d, i) <=> Ordinary(c, i)
      /\ Ordinary(d, i - 1) <=> Ordinary(c, i - 1)
      /\ Before(d, i) <=> Before(c, i)
      /\ Reached(d, i) <=> Reached(c, i)
  BY <1>1, OrdinaryOfPrefix, BeforeOfPrefix, ReachedOfPrefix
<1> HIDE DEF d
<1>3. /\ JoinsParticlesAt(d, i) <=> JoinsParticlesAt(c, i)
      /\ RejoinsNoiseAt(d, i) <=> RejoinsNoiseAt(c, i)
      /\ RejoinsImageAt(d, i) <=> RejoinsImageAt(c, i)
  BY <1>2 DEF JoinsParticlesAt, RejoinsNoiseAt, RejoinsImageAt
<1> QED BY <1>2, <1>3 DEF CalledFor, d

-----------------------------------------------------------------------------
\* What the edits of the scan do to the links.

LEMMA LinkedAppend ==
    ASSUME NEW gs \in Seq(GroupType), NEW g \in GroupType, NEW i
    PROVE  IsLinked(Append(gs, g), i) <=> IsLinked(gs, i) \/ HasLink(g, i)
<1> DEFINE hs == Append(gs, g)
<1>1. /\ Len(gs) \in Nat /\ Len(hs) = Len(gs) + 1 /\ hs[Len(gs) + 1] = g
      /\ \A k \in 1 .. Len(gs) : hs[k] = gs[k]
  OBVIOUS
<1> HIDE DEF hs
<1>2. /\ \A k \in 1 .. Len(hs) : k \in 1 .. Len(gs) \/ k = Len(gs) + 1
      /\ Len(gs) + 1 \in 1 .. Len(hs) /\ \A k \in 1 .. Len(gs) : k \in 1 .. Len(hs)
  BY <1>1
<1> QED BY <1>1, <1>2 DEF IsLinked, hs

LEMMA AllButLastFacts ==
    ASSUME NEW gs \in Seq(GroupType), gs # <<>>
    PROVE  /\ Len(gs) \in Nat \ {0} /\ AllButLast(gs) \in Seq(GroupType)
           /\ Len(AllButLast(gs)) = Len(gs) - 1
           /\ \A k \in 1 .. Len(gs) - 1 : AllButLast(gs)[k] = gs[k]
<1>1. Len(gs) \in Nat \ {0}
  OBVIOUS
<1>2. AllButLast(gs) = [k \in 1 .. Len(gs) - 1 |-> gs[k]]
  BY <1>1 DEF AllButLast
<1> QED BY <1>1, <1>2

LEMMA LinkedFront ==
    ASSUME NEW gs \in Seq(GroupType), gs # <<>>, NEW i
    PROVE  IsLinked(gs, i) <=> IsLinked(AllButLast(gs), i) \/ HasLink(gs[Len(gs)], i)
<1>1. /\ Len(gs) \in Nat \ {0} /\ AllButLast(gs) \in Seq(GroupType)
      /\ Len(AllButLast(gs)) = Len(gs) - 1
      /\ \A k \in 1 .. Len(gs) - 1 : AllButLast(gs)[k] = gs[k]
  BY AllButLastFacts
<1>2. /\ \A k \in 1 .. Len(gs) : k \in 1 .. Len(gs) - 1 \/ k = Len(gs)
      /\ Len(gs) \in 1 .. Len(gs) /\ \A k \in 1 .. Len(gs) - 1 : k \in 1 .. Len(gs)
  BY <1>1
<1> QED BY <1>1, <1>2 DEF IsLinked

LEMMA LinkOfOne ==
    ASSUME NEW g, NEW m, g.steps = <<m>>, NEW i
    PROVE  ~HasLink(g, i)
BY DEF HasLink

LEMMA LinkOfPair ==
    ASSUME NEW g, NEW m, NEW l, g.steps = <<m, l>>, NEW i
    PROVE  HasLink(g, i) <=> i = l
<1>1. Len(g.steps) = 2 /\ g.steps[2] = l
  OBVIOUS
<1>2. \A p \in 2 .. 2 : p = 2
  OBVIOUS
<1> QED BY <1>1, <1>2 DEF HasLink

LEMMA LinkOfJoined ==
    ASSUME NEW g \in GroupType, g.steps # <<>>, NEW m, NEW i
    PROVE  HasLink(Joined(g, m), i) <=> HasLink(g, i) \/ i = m
<1> DEFINE q == g.steps
           r == Append(q, m)
<1>1. Joined(g, m).steps = r
  BY DEF Joined, GroupType
<1>2. q \in Seq(Nat) /\ Len(q) \in Nat \ {0}
  BY DEF GroupType
<1>3. Len(r) = Len(q) + 1 /\ r[Len(q) + 1] = m /\ \A p \in 1 .. Len(q) : r[p] = q[p]
  <2> HIDE DEF q
  <2> QED BY <1>2, AppendProperties
<1> HIDE DEF q, r
<1>4. /\ \A p \in 2 .. Len(r) : p \in 2 .. Len(q) \/ p = Len(q) + 1
      /\ Len(q) + 1 \in 2 .. Len(r)
      /\ \A p \in 2 .. Len(q) : p \in 2 .. Len(r) /\ p \in 1 .. Len(q)
  BY <1>2, <1>3
<1> QED BY <1>1, <1>3, <1>4 DEF HasLink, q

\* What is linked was scanned.
LEMMA LinkedIsScanned ==
    ASSUME NEW gs, NEW c \in Seq(Steps), Sound(gs, c), NEW i, IsLinked(gs, i)
    PROVE  i \in 1 .. Len(c)
<1>1. PICK k \in 1 .. Len(gs) : HasLink(gs[k], i)
  BY DEF IsLinked
<1>2. gs \in Seq(GroupType) /\ Cuts(gs, Len(c)) /\ Len(c) \in Nat
  BY DEF Sound
<1>3. gs[k].steps \in Seq(Nat)
  <2>1. gs[k] \in GroupType
    BY <1>2
  <2> QED BY <2>1 DEF GroupType
<1>4. PICK p \in 2 .. Len(gs[k].steps) : gs[k].steps[p] = i
  BY <1>1 DEF HasLink
<1>5. p \in 1 .. Len(gs[k].steps)
  OBVIOUS
<1> QED BY <1>1, <1>2, <1>4, <1>5, CutsMembers

\* The last step is alone exactly if the last group is a group of one.
LEMMA AloneAtEnd ==
    ASSUME NEW gs, NEW c \in Seq(Steps), Sound(gs, c), Len(c) > 0
    PROVE  /\ gs # <<>> /\ gs[Len(gs)] \in GroupType
           /\ EndsWithOne(gs) <=> ~IsLinked(gs, Len(c))
           /\ EndsWithOne(gs) => First(gs[Len(gs)]) = Len(c) /\ gs[Len(gs)].steps = <<Len(c)>>
<1> DEFINE l == gs[Len(gs)]
           n == Len(c)
<1>1. gs # <<>>
  BY DEF Sound, Cuts
<1>2. /\ l \in GroupType /\ IsRun(l) /\ First(l) \in 1 .. n /\ Last(l) = n
      /\ AllButLast(gs) \in Seq(GroupType) /\ Cuts(AllButLast(gs), First(l) - 1)
      /\ gs \in Seq(GroupType)
  BY <1>1, SoundFront DEF Sound
<1>3. /\ l.steps \in Seq(Nat) /\ Len(l.steps) \in Nat \ {0}
      /\ Last(l) = First(l) + Len(l.steps) - 1 /\ Last(l) = l.steps[Len(l.steps)]
      /\ First(l) = l.steps[1]
  BY <1>2, RunBounds DEF First, Last
<1>4. n \in Nat
  OBVIOUS
<1>5. ~IsLinked(AllButLast(gs), n)
  <2> SUFFICES ASSUME NEW k \in 1 .. Len(AllButLast(gs)), HasLink(AllButLast(gs)[k], n) PROVE FALSE
    BY DEF IsLinked
  <2> DEFINE b == AllButLast(gs)[k]
  <2>1. PICK p \in 2 .. Len(b.steps) : b.steps[p] = n
    BY DEF HasLink
  <2>2. Len(b.steps) \in Nat
    BY <1>2 DEF GroupType
  <2> HIDE DEF b
  <2>3. p \in 1 .. Len(b.steps)
    BY <2>1, <2>2
  <2>4. b.steps[p] \in 1 .. First(l) - 1
    <3>1. First(l) - 1 \in Nat
      BY <1>2
    <3> HIDE DEF l
    <3> QED BY <1>2, <2>3, <3>1, CutsMembers DEF b
  <2> QED BY <1>2, <2>1, <2>4
<1>6. IsLinked(gs, n) <=> HasLink(l, n)
  BY <1>1, <1>2, <1>5, LinkedFront
<1>7. HasLink(l, n) <=> Len(l.steps) # 1
  <2>1. CASE Len(l.steps) = 1
    BY <2>1 DEF HasLink
  <2>2. CASE Len(l.steps) # 1
    <3>1. Len(l.steps) \in 2 .. Len(l.steps)
      <4>1. \A m \in Nat \ {0} : m # 1 => m \in 2 .. m
        OBVIOUS
      <4> QED BY <1>3, <2>2, <4>1
    <3> QED BY <1>2, <1>3, <2>2, <3>1 DEF HasLink
  <2> QED BY <2>1, <2>2
<1>8. Len(l.steps) = 1 => First(l) = n /\ l.steps = <<n>>
  <2> SUFFICES ASSUME Len(l.steps) = 1 PROVE First(l) = n /\ l.steps = <<n>>
    OBVIOUS
  <2>1. l.steps[1] = n
    BY <1>2, <1>3
  <2> HIDE DEF l, n
  <2> QED BY <1>3, <2>1
<1> QED BY <1>1, <1>2, <1>6, <1>7, <1>8 DEF EndsWithOne

-----------------------------------------------------------------------------
\* The invariant.

Flagged(g, c) ==
    /\ g.loop <=> c[First(g)].role = "begin"
    /\ g.iterated <=> \/ Len(g.steps) > 1
                      \/ ~c[First(g)].boundary /\ c[First(g)].iterated
    /\ Len(g.steps) = 1 => c[First(g)].boundary \/ Ordinary(c, First(g))

AllFlagged(gs, c) == \A k \in 1 .. Len(gs) : First(gs[k]) \in 1 .. Len(c) /\ Flagged(gs[k], c)

AsCalledFor(gs, c) ==
    \A i \in 2 .. Len(c) : IsLinked(gs, i) <=> CalledFor(c, i, IsLinked(gs, i - 1))

\* open_group remembers of the chain whether particles reach the next step.
IntentInv ==
    outcome # "thrown" =>
      /\ AsCalledFor(AllGroups, chain)
      /\ AllFlagged(Closed, chain)
      /\ InLoop => /\ First(openLoop) \in 1 .. Len(chain)
                   /\ chain[First(openLoop)].role = "begin"
      /\ outcome = "done" => openGroup = NoGroup /\ ~InLoop
      /\ outcome = "scanning" => (openGroup # NoGroup <=> Reached(chain, Len(chain) + 1))

LEMMA AllFlaggedLater ==
    ASSUME NEW gs, NEW c \in Seq(Steps), NEW s \in Steps, AllFlagged(gs, c)
    PROVE  AllFlagged(gs, Append(c, s))
<1> DEFINE d == Append(c, s)
<1>1. /\ \A i \in 1 .. Len(c) : d[i] = c[i] /\ (Ordinary(d, i) <=> Ordinary(c, i))
      /\ \A i \in 1 .. Len(c) : i \in 1 .. Len(d)
  BY OrdinaryOfPrefix
<1> HIDE DEF d
<1> QED BY <1>1 DEF AllFlagged, Flagged, d

LEMMA AllFlaggedAppend ==
    ASSUME NEW gs \in Seq(GroupType), NEW g \in GroupType, NEW c,
           AllFlagged(gs, c), First(g) \in 1 .. Len(c), Flagged(g, c)
    PROVE  AllFlagged(Append(gs, g), c)
<1> DEFINE hs == Append(gs, g)
<1>1. /\ Len(gs) \in Nat /\ Len(hs) = Len(gs) + 1 /\ hs[Len(gs) + 1] = g
      /\ \A k \in 1 .. Len(gs) : hs[k] = gs[k]
  OBVIOUS
<1> HIDE DEF hs
<1>2. \A k \in 1 .. Len(hs) : k \in 1 .. Len(gs) \/ k = Len(gs) + 1
  BY <1>1
<1> QED BY <1>1, <1>2 DEF AllFlagged, hs

LEMMA AllFlaggedFront ==
    ASSUME NEW gs \in Seq(GroupType), gs # <<>>, NEW c, AllFlagged(gs, c)
    PROVE  AllFlagged(AllButLast(gs), c)
<1>1. /\ Len(gs) \in Nat \ {0}
      /\ Len(AllButLast(gs)) = Len(gs) - 1
      /\ \A k \in 1 .. Len(gs) - 1 : AllButLast(gs)[k] = gs[k]
  BY AllButLastFacts
<1>2. \A k \in 1 .. Len(gs) - 1 : k \in 1 .. Len(gs)
  BY <1>1
<1> QED BY <1>1, <1>2 DEF AllFlagged

\* One more step, linked or not as the chain calls for: L holds its index, or
\* nothing.
LEMMA AsCalledForNext ==
    ASSUME NEW gs, NEW hs, NEW c \in Seq(Steps), NEW s \in Steps, NEW L,
           Sound(gs, c), AsCalledFor(gs, c),
           L \subseteq {Len(c) + 1},
           \A i \in 1 .. Len(c) + 1 : IsLinked(hs, i) <=> IsLinked(gs, i) \/ i \in L,
           Len(c) > 0 =>
             (Len(c) + 1 \in L <=> CalledFor(Append(c, s), Len(c) + 1, IsLinked(gs, Len(c))))
    PROVE  AsCalledFor(hs, Append(c, s))
<1> DEFINE d == Append(c, s)
           n == Len(c)
<1>1. n \in Nat /\ Len(d) = n + 1
  OBVIOUS
<1>2. \A i \in 2 .. n : \A linked : CalledFor(d, i, linked) <=> CalledFor(c, i, linked)
  BY CalledForOfPrefix
<1>3. ~IsLinked(gs, n + 1)
  <2>1. n + 1 \notin 1 .. n
    BY <1>1
  <2> QED BY <2>1, LinkedIsScanned
<1>4. \A i \in 1 .. n : IsLinked(hs, i) <=> IsLinked(gs, i)
  <2> SUFFICES ASSUME NEW i \in 1 .. n PROVE IsLinked(hs, i) <=> IsLinked(gs, i)
    OBVIOUS
  <2>1. i \in 1 .. n + 1 /\ i # n + 1
    BY <1>1
  <2> QED BY <2>1
<1>5. IsLinked(hs, n + 1) <=> n + 1 \in L
  <2>1. n + 1 \in 1 .. n + 1
    BY <1>1
  <2> QED BY <2>1, <1>3
<1> HIDE DEF d, n
<1> SUFFICES ASSUME NEW i \in 2 .. n + 1
             PROVE  IsLinked(hs, i) <=> CalledFor(d, i, IsLinked(hs, i - 1))
  BY <1>1 DEF AsCalledFor, d
<1>6. CASE i \in 2 .. n
  <2>1. i \in 1 .. n /\ i - 1 \in 1 .. n
    BY <1>1, <1>6
  <2>2. IsLinked(gs, i) <=> CalledFor(c, i, IsLinked(gs, i - 1))
    BY <1>6 DEF AsCalledFor, n
  <2>3. CalledFor(d, i, IsLinked(hs, i - 1)) <=> CalledFor(c, i, IsLinked(gs, i - 1))
    BY <1>2, <1>4, <1>6, <2>1 DEF CalledFor
  <2> QED BY <1>4, <2>1, <2>2, <2>3
<1>7. CASE i = n + 1
  <2>1. n \in 1 .. n /\ n > 0 /\ i - 1 = n
    BY <1>1, <1>7
  <2>2. n + 1 \in L <=> CalledFor(d, n + 1, IsLinked(gs, n))
    BY <2>1 DEF d, n
  <2>3. CalledFor(d, n + 1, IsLinked(hs, n)) <=> CalledFor(d, n + 1, IsLinked(gs, n))
    BY <1>4, <2>1 DEF CalledFor
  <2> QED BY <1>5, <1>7, <2>1, <2>2, <2>3
<1> QED BY <1>1, <1>6, <1>7

\* A turn that does not throw.
LEMMA TurnKeepsIntent ==
    ASSUME IInv, IntentInv, NEW s \in Steps, Scan(s), NEW L,
           NEW gs, NEW group, NEW loop, Continue(gs, group, loop),
           L \subseteq {Len(chain) + 1},
           \A i \in 1 .. Len(chain) + 1 :
             IsLinked(After(gs, group, loop), i) <=> IsLinked(AllGroups, i) \/ i \in L,
           Len(chain) > 0 =>
             (Len(chain) + 1 \in L
                <=> CalledFor(Append(chain, s), Len(chain) + 1, IsLinked(AllGroups, Len(chain)))),
           AllFlagged(IF group = NoGroup THEN gs ELSE Append(gs, group), Append(chain, s)),
           loop # NoGroup => /\ First(loop) \in 1 .. Len(chain) + 1
                             /\ Append(chain, s)[First(loop)].role = "begin",
           group # NoGroup <=>
             /\ Ordinary(Append(chain, s), Len(chain) + 1)
             /\ s.declaresXyz \/ (openGroup # NoGroup /\ s.references)
    PROVE  IntentInv'
<1> DEFINE d == Append(chain, s)
<1>1. /\ chain \in Seq(Steps) /\ chain' = d /\ outcome = "scanning" /\ outcome' = "scanning"
      /\ Sound(AllGroups, chain) /\ AsCalledFor(AllGroups, chain)
      /\ openGroup # NoGroup <=> Reached(chain, Len(chain) + 1)
      /\ openGroup' = group /\ openLoop' = loop /\ groups' = gs
  BY DEF IInv, TypeOK, IntentInv, Scan, Continue
<1>2. AllGroups' = After(gs, group, loop)
  BY AllGroupsAfter
<1>3. AsCalledFor(After(gs, group, loop), d)
  BY <1>1, AsCalledForNext
<1>4. Closed' = IF group = NoGroup THEN gs ELSE Append(gs, group)
  BY <1>1 DEF Closed, NoGroup
<1>5. Len(d) = Len(chain) + 1 /\ Len(d) + 1 = Len(chain) + 2
  BY <1>1
<1>6. group # NoGroup <=> Reached(d, Len(d) + 1)
  BY <1>1, <1>5, ReachedNext
<1>7. InLoop' <=> loop # NoGroup
  BY <1>1 DEF InLoop, NoGroup
<1> HIDE DEF d
<1>8. AsCalledFor(AllGroups, chain)'
  BY <1>1, <1>2, <1>3
<1>9. AllFlagged(Closed, chain)'
  BY <1>1, <1>4 DEF d
<1>10. InLoop' => /\ First(openLoop') \in 1 .. Len(chain')
                  /\ chain'[First(openLoop')].role = "begin"
  BY <1>1, <1>5, <1>7 DEF d
<1>11. openGroup' # NoGroup <=> Reached(chain, Len(chain) + 1)'
  BY <1>1, <1>6
<1> QED BY <1>1, <1>8, <1>9, <1>10, <1>11 DEF IntentInv, First, NoGroup

-----------------------------------------------------------------------------
\* The turns of the scan outside loop regions.

\* What is known of the step that is scanned, and of the one before it.
LEMMA StepOutside ==
    ASSUME IInv, LoopInv, IntentInv, NEW s \in Steps, Scan(s), ~InLoop
    PROVE  LET d == Append(chain, s)
               n == Len(chain)
           IN  /\ n \in Nat /\ Index = n + 1 /\ Len(d) = n + 1 /\ d[n + 1] = s
               /\ AllGroups = Closed /\ Sound(Closed, chain) /\ Closed \in Seq(GroupType)
               /\ ~Before(d, n + 1)
               /\ Ordinary(d, n + 1) <=> ~s.boundary /\ s.role = "none"
               /\ openGroup # NoGroup <=> Reached(d, n + 1)
               /\ openGroup # NoGroup => n > 0
               /\ AllFlagged(Closed, d)
               /\ n > 0 => d[n] = chain[n] /\ (Ordinary(d, n) <=> Ordinary(chain, n))
<1> DEFINE d == Append(chain, s)
           n == Len(chain)
<1>1. /\ chain \in Seq(Steps) /\ outcome = "scanning" /\ AllGroups = Closed
      /\ Index = n + 1 /\ Sound(Closed, chain) /\ Closed \in Seq(GroupType)
  BY OutsideLoop, AllGroupsCases DEF Scan
<1>2. n \in Nat /\ Len(d) = n + 1 /\ d[n + 1] = s
  BY <1>1
<1>3. n + 1 \in 1 .. Len(chain) + 1
  BY <1>1
<1>4. ~Before(d, n + 1)
  BY <1>1, <1>3, BeforeOfPrefix DEF LoopInv
<1>5. Reached(chain, n + 1) <=> Reached(d, n + 1)
  BY <1>1, <1>3, ReachedOfPrefix
<1>6. openGroup # NoGroup <=> Reached(chain, n + 1)
  BY <1>1 DEF IntentInv
<1>7. Reached(chain, n + 1) => n > 0
  <2> HIDE DEF n
  <2> QED BY <1>2 DEF Reached
<1>8. AllFlagged(Closed, d)
  BY <1>1, AllFlaggedLater DEF IntentInv
<1>9. n > 0 => d[n] = chain[n] /\ (Ordinary(d, n) <=> Ordinary(chain, n))
  <2> SUFFICES ASSUME n > 0 PROVE d[n] = chain[n] /\ (Ordinary(d, n) <=> Ordinary(chain, n))
    OBVIOUS
  <2>1. n \in 1 .. Len(chain)
    BY <1>2
  <2> QED BY <1>1, <2>1, OrdinaryOfPrefix
<1> HIDE DEF d, n
<1>10. Ordinary(d, n + 1) <=> ~s.boundary /\ s.role = "none"
  BY <1>2, <1>4 DEF Ordinary
<1> QED BY <1>1, <1>2, <1>4, <1>5, <1>6, <1>7, <1>8, <1>9, <1>10 DEF d, n

LEMMA LastAlone ==
    ASSUME IInv, LoopInv, IntentInv, NEW s \in Steps, Scan(s), ~InLoop,
           EndsWithOne(Closed)
    PROVE  /\ Len(chain) > 0 /\ ~IsLinked(Closed, Len(chain))
           /\ Closed # <<>> /\ Closed[Len(Closed)] \in GroupType
           /\ Closed[Len(Closed)].steps = <<Len(chain)>>
           /\ LastStep(Closed) = chain[Len(chain)] /\ chain[Len(chain)] \in Steps
           /\ chain[Len(chain)].boundary \/ Ordinary(chain, Len(chain))
           /\ Closed[Len(Closed)].iterated <=>
                ~chain[Len(chain)].boundary /\ chain[Len(chain)].iterated
<1> DEFINE l == Closed[Len(Closed)]
           n == Len(chain)
<1>1. Sound(Closed, chain) /\ chain \in Seq(Steps) /\ n \in Nat
  BY OutsideLoop DEF Scan
<1>2. Closed # <<>>
  BY DEF EndsWithOne
<1>3. n > 0
  <2>1. First(l) \in 1 .. n
    BY <1>1, <1>2, SoundFront
  <2> QED BY <1>1, <2>1
<1>4. /\ l \in GroupType /\ ~IsLinked(Closed, n)
      /\ First(l) = n /\ l.steps = <<n>>
  BY <1>1, <1>3, AloneAtEnd
<1>5. Len(Closed) \in 1 .. Len(Closed)
  BY <1>1, <1>2 DEF Sound
<1>6. Flagged(l, chain)
  BY <1>5 DEF IntentInv, AllFlagged, Scan
<1> HIDE DEF l, n
<1>7. Len(l.steps) = 1 /\ l.steps[1] = n
  BY <1>4
<1>8. /\ chain[n].boundary \/ Ordinary(chain, n)
      /\ l.iterated <=> ~chain[n].boundary /\ chain[n].iterated
  BY <1>4, <1>6, <1>7 DEF Flagged
<1>9. chain[n] \in Steps
  BY <1>1, <1>3 DEF n
<1> QED BY <1>2, <1>3, <1>4, <1>7, <1>8, <1>9 DEF LastStep, l, n

\* The step starts a group, as the chain does not call for anything else.
LEMMA StartKeepsIntent ==
    ASSUME IInv, LoopInv, IntentInv, NEW s \in Steps, Scan(s), ~InLoop,
           NEW g \in GroupType, g.steps = <<Index>>,
           g.loop <=> s.role = "begin",
           s.role # "begin" => (g.iterated <=> ~s.boundary /\ s.iterated) /\ s.role = "none",
           Len(chain) > 0 =>
             ~CalledFor(Append(chain, s), Len(chain) + 1, IsLinked(Closed, Len(chain))),
           \/ /\ Continue(Append(Closed, g), NoGroup, NoGroup) /\ s.role = "none"
              /\ s.boundary \/ (~s.declaresXyz /\ ~(openGroup # NoGroup /\ s.references))
           \/ Continue(Closed, g, NoGroup) /\ s.role = "none" /\ ~s.boundary /\ s.declaresXyz
           \/ Continue(Closed, NoGroup, g) /\ s.role = "begin"
    PROVE  IntentInv'
<1> DEFINE d == Append(chain, s)
           n == Len(chain)
<1>1. /\ n \in Nat /\ Index = n + 1 /\ Len(d) = n + 1 /\ d[n + 1] = s
      /\ AllGroups = Closed /\ Closed \in Seq(GroupType)
      /\ Ordinary(d, n + 1) <=> ~s.boundary /\ s.role = "none"
      /\ AllFlagged(Closed, d)
  BY StepOutside
<1>2. First(g) = n + 1 /\ Len(g.steps) = 1 /\ g # NoGroup
  <2>1. g.steps[1] = Index /\ Len(g.steps) = 1
    OBVIOUS
  <2>2. g.steps # <<>> /\ NoGroup.steps = <<>>
    BY <2>1 DEF NoGroup, Group
  <2> QED BY <1>1, <2>1, <2>2 DEF First
<1>3. \A i : IsLinked(Append(Closed, g), i) <=> IsLinked(Closed, i)
  BY <1>1, LinkedAppend, LinkOfOne
<1> HIDE DEF d, n
<1>4. s.role = "none" => AllFlagged(Append(Closed, g), d)
  <2> SUFFICES ASSUME s.role = "none" PROVE AllFlagged(Append(Closed, g), d)
    OBVIOUS
  <2>1. First(g) \in 1 .. Len(d)
    BY <1>1, <1>2
  <2>2. Flagged(g, d)
    BY <1>1, <1>2 DEF Flagged
  <2> QED BY <1>1, <2>1, <2>2, AllFlaggedAppend
<1> DEFINE L == {}
<1>5. /\ L \subseteq {n + 1} /\ \A i : i \notin L
      /\ n > 0 => (n + 1 \in L <=> CalledFor(d, n + 1, IsLinked(AllGroups, n)))
  BY <1>1 DEF d, n
<1> HIDE DEF L
<1>6. CASE /\ Continue(Append(Closed, g), NoGroup, NoGroup) /\ s.role = "none"
           /\ s.boundary \/ (~s.declaresXyz /\ ~(openGroup # NoGroup /\ s.references))
  <2>1. After(Append(Closed, g), NoGroup, NoGroup) = Append(Closed, g)
    BY DEF After
  <2>2. \A i \in 1 .. n + 1 : IsLinked(After(Append(Closed, g), NoGroup, NoGroup), i)
                              <=> IsLinked(AllGroups, i) \/ i \in L
    BY <1>1, <1>3, <1>5, <2>1
  <2>3. ~(Ordinary(d, n + 1) /\ (s.declaresXyz \/ (openGroup # NoGroup /\ s.references)))
    BY <1>1, <1>6
  <2> QED BY <1>4, <1>5, <1>6, <2>2, <2>3, TurnKeepsIntent DEF d, n
<1>7. CASE Continue(Closed, g, NoGroup) /\ s.role = "none" /\ ~s.boundary /\ s.declaresXyz
  <2>1. After(Closed, g, NoGroup) = Append(Closed, g)
    BY <1>2 DEF After
  <2>2. \A i \in 1 .. n + 1 : IsLinked(After(Closed, g, NoGroup), i)
                              <=> IsLinked(AllGroups, i) \/ i \in L
    BY <1>1, <1>3, <1>5, <2>1
  <2>3. Ordinary(d, n + 1)
    BY <1>1, <1>7
  <2> QED BY <1>2, <1>4, <1>5, <1>7, <2>2, <2>3, TurnKeepsIntent DEF d, n
<1>8. CASE Continue(Closed, NoGroup, g) /\ s.role = "begin"
  <2>1. After(Closed, NoGroup, g) = Append(Closed, g)
    BY <1>2 DEF After
  <2>2. First(g) \in 1 .. n + 1 /\ d[First(g)].role = "begin" /\ ~Ordinary(d, n + 1)
    BY <1>1, <1>2, <1>8
  <2>3. \A i \in 1 .. n + 1 : IsLinked(After(Closed, NoGroup, g), i)
                              <=> IsLinked(AllGroups, i) \/ i \in L
    BY <1>1, <1>3, <1>5, <2>1
  <2> QED BY <1>1, <1>2, <1>5, <1>8, <2>2, <2>3, TurnKeepsIntent DEF d, n
<1> QED BY <1>6, <1>7, <1>8

\* The step joins the last step, which is alone.
LEMMA RejoinKeepsIntent ==
    ASSUME IInv, LoopInv, IntentInv, NEW s \in Steps, Scan(s), ~InLoop, EndsWithOne(Closed),
           ~s.boundary, s.role = "none",
           NEW g \in GroupType, g.steps = <<Len(chain), Index>>, g.iterated, ~g.loop,
           CalledFor(Append(chain, s), Len(chain) + 1, IsLinked(Closed, Len(chain))),
           \/ /\ Continue(Append(AllButLast(Closed), g), NoGroup, NoGroup)
              /\ ~s.declaresXyz /\ openGroup = NoGroup
           \/ Continue(AllButLast(Closed), g, NoGroup) /\ s.declaresXyz
    PROVE  IntentInv'
<1> DEFINE d  == Append(chain, s)
           n  == Len(chain)
           hs == AllButLast(Closed)
<1>1. /\ n \in Nat /\ Index = n + 1 /\ Len(d) = n + 1 /\ d[n + 1] = s
      /\ AllGroups = Closed /\ Closed \in Seq(GroupType)
      /\ Ordinary(d, n + 1) <=> ~s.boundary /\ s.role = "none"
      /\ AllFlagged(Closed, d)
      /\ n > 0 => d[n] = chain[n]
  BY StepOutside
<1>2. /\ n > 0 /\ Closed # <<>> /\ Closed[Len(Closed)].steps = <<n>>
      /\ chain[n].boundary \/ Ordinary(chain, n)
      /\ chain[n] \in Steps
  BY LastAlone
<1>3. First(g) = n /\ Len(g.steps) = 2 /\ g # NoGroup
  BY <1>1 DEF First, NoGroup, Group
<1>4. hs \in Seq(GroupType)
  BY <1>1, <1>2, AllButLastFacts
<1>5. \A i : IsLinked(Append(hs, g), i) <=> IsLinked(Closed, i) \/ i \in {n + 1}
  <2> SUFFICES ASSUME NEW i
               PROVE  IsLinked(Append(hs, g), i) <=> IsLinked(Closed, i) \/ i = n + 1
    OBVIOUS
  <2>1. IsLinked(Append(hs, g), i) <=> IsLinked(hs, i) \/ HasLink(g, i)
    BY <1>4, LinkedAppend
  <2>2. IsLinked(Closed, i) <=> IsLinked(hs, i)
    BY <1>1, <1>2, LinkedFront, LinkOfOne
  <2>3. HasLink(g, i) <=> i = n + 1
    BY <1>1, LinkOfPair
  <2> QED BY <2>1, <2>2, <2>3
<1>6. AllFlagged(Append(hs, g), d)
  <2>1. AllFlagged(hs, d)
    BY <1>1, <1>2, AllFlaggedFront
  <2>2. chain[n].role = "none"
    BY <1>2, StepsAssumption DEF Ordinary
  <2> HIDE DEF d, n, hs
  <2>3. n \in 1 .. Len(d)
    BY <1>1, <1>2
  <2>4. Flagged(g, d)
    BY <1>1, <1>2, <1>3, <2>2 DEF Flagged
  <2> QED BY <1>3, <1>4, <2>1, <2>3, <2>4, AllFlaggedAppend
<1>9. /\ {n + 1} \subseteq {n + 1}
      /\ n > 0 => (n + 1 \in {n + 1} <=> CalledFor(d, n + 1, IsLinked(AllGroups, n)))
  BY <1>1
<1> HIDE DEF d, n, hs
<1>7. CASE /\ Continue(Append(hs, g), NoGroup, NoGroup)
           /\ ~s.declaresXyz /\ openGroup = NoGroup
  <2>1. After(Append(hs, g), NoGroup, NoGroup) = Append(hs, g)
    BY DEF After
  <2>2. \A i \in 1 .. n + 1 : IsLinked(After(Append(hs, g), NoGroup, NoGroup), i)
                              <=> IsLinked(AllGroups, i) \/ i \in {n + 1}
    BY <1>1, <1>5, <2>1
  <2>3. ~(s.declaresXyz \/ (openGroup # NoGroup /\ s.references))
    BY <1>7
  <2> QED BY <1>6, <1>7, <1>9, <2>2, <2>3, TurnKeepsIntent DEF d, n
<1>8. CASE Continue(hs, g, NoGroup) /\ s.declaresXyz
  <2>1. After(hs, g, NoGroup) = Append(hs, g)
    BY <1>3 DEF After
  <2>2. \A i \in 1 .. n + 1 : IsLinked(After(hs, g, NoGroup), i)
                              <=> IsLinked(AllGroups, i) \/ i \in {n + 1}
    BY <1>1, <1>5, <2>1
  <2>3. Ordinary(d, n + 1)
    BY <1>1
  <2> QED BY <1>3, <1>6, <1>8, <1>9, <2>2, <2>3, TurnKeepsIntent DEF d, n
<1> QED BY <1>7, <1>8 DEF hs

-----------------------------------------------------------------------------
\* The turns that let the step join what is open.

LEMMA JoinedFacts ==
    ASSUME NEW g \in GroupType, IsRun(g), NEW m \in Nat
    PROVE  /\ Joined(g, m) \in GroupType /\ Joined(g, m) # NoGroup
           /\ Len(Joined(g, m).steps) > 1 /\ Len(Joined(g, m).steps) # 1
           /\ First(Joined(g, m)) = First(g)
           /\ Joined(g, m).loop = g.loop /\ Joined(g, m).iterated = g.iterated
<1> DEFINE q == g.steps
           r == Append(q, m)
<1>1. /\ Joined(g, m).steps = r /\ Joined(g, m).loop = g.loop
      /\ Joined(g, m).iterated = g.iterated
  BY DEF Joined, GroupType
<1>2. q \in Seq(Nat) /\ Len(q) \in Nat \ {0}
  BY RunBounds
<1> HIDE DEF q
<1>3. r \in Seq(Nat) /\ Len(r) = Len(q) + 1 /\ r[1] = q[1]
  BY <1>2, AppendProperties
<1>4. Joined(g, m) \in GroupType
  BY <1>3 DEF Joined, GroupType, q
<1>5. NoGroup.steps = <<>>
  BY DEF NoGroup, Group
<1> HIDE DEF r
<1>6. r # <<>> /\ Len(r) > 1 /\ Len(r) # 1
  BY <1>2, <1>3
<1> QED BY <1>1, <1>3, <1>4, <1>5, <1>6 DEF First, q

\* The step joins the open particle group.
LEMMA JoinKeepsIntent ==
    ASSUME IInv, LoopInv, IntentInv, NEW s \in Steps, JoinStep(s)
    PROVE  IntentInv'
<1> DEFINE d == Append(chain, s)
           n == Len(chain)
           h == Joined(openGroup, Index)
<1>1. /\ Scan(s) /\ ~InLoop /\ ~s.boundary /\ s.role = "none"
      /\ ~s.declaresXyz /\ openGroup # NoGroup /\ s.references
      /\ Continue(groups, h, NoGroup)
  BY DEF JoinStep, EffectOutsideLoop, JoinsParticles
<1>2. /\ n \in Nat /\ Index = n + 1 /\ Len(d) = n + 1 /\ d[n + 1] = s
      /\ AllGroups = Closed
      /\ Ordinary(d, n + 1) /\ Reached(d, n + 1) /\ n > 0
      /\ AllFlagged(Closed, d)
  BY <1>1, StepOutside
<1>3. /\ groups \in Seq(GroupType) /\ openGroup \in GroupType
      /\ Closed = Append(groups, openGroup) /\ Closed \in Seq(GroupType)
      /\ openGroup.iterated /\ ~openGroup.loop /\ IsRun(openGroup)
  <2>1. /\ groups \in Seq(GroupType) /\ openGroup \in GroupType
        /\ Closed = Append(groups, openGroup) /\ Closed \in Seq(GroupType)
        /\ Sound(Closed, chain)
    BY <1>1, OutsideLoop DEF Scan
  <2>2. openGroup.iterated /\ ~openGroup.loop
    BY <1>1 DEF IInv, OpenIsIterated, Scan
  <2>3. Len(Closed) = Len(groups) + 1 /\ Closed[Len(groups) + 1] = openGroup
        /\ Len(groups) + 1 \in 1 .. Len(Closed)
    BY <2>1
  <2>4. IsRun(openGroup)
    BY <2>1, <2>3 DEF Sound, Cuts
  <2> QED BY <2>1, <2>2, <2>4
<1>4. /\ h \in GroupType /\ h # NoGroup /\ Len(h.steps) > 1 /\ Len(h.steps) # 1
      /\ First(h) = First(openGroup) /\ ~h.loop /\ h.iterated
  BY <1>2, <1>3, JoinedFacts
<1>5. openGroup.steps # <<>>
  BY <1>3 DEF IsRun
<1>6. \A i : IsLinked(Append(groups, h), i) <=> IsLinked(Closed, i) \/ i \in {n + 1}
  BY <1>2, <1>3, <1>4, <1>5, LinkedAppend, LinkOfJoined
<1> HIDE DEF d, n, h
<1>7. AllFlagged(Append(groups, h), d)
  <2>1. /\ AllFlagged(groups, d)
        /\ First(openGroup) \in 1 .. Len(d) /\ Flagged(openGroup, d)
    <3>1. /\ Len(groups) \in Nat /\ Len(Closed) = Len(groups) + 1
          /\ Closed[Len(groups) + 1] = openGroup
          /\ \A k \in 1 .. Len(groups) : Closed[k] = groups[k]
      BY <1>3
    <3>2. Len(groups) + 1 \in 1 .. Len(Closed)
          /\ \A k \in 1 .. Len(groups) : k \in 1 .. Len(Closed)
      BY <3>1
    <3> QED BY <1>2, <3>1, <3>2 DEF AllFlagged
  <2>2. Flagged(h, d)
    BY <1>3, <1>4, <2>1 DEF Flagged
  <2> QED BY <1>3, <1>4, <2>1, <2>2, AllFlaggedAppend
<1>8. CalledFor(d, n + 1, IsLinked(AllGroups, n))
  BY <1>1, <1>2 DEF CalledFor, JoinsParticlesAt
<1>9. \A i \in 1 .. n + 1 : IsLinked(After(groups, h, NoGroup), i)
                              <=> IsLinked(AllGroups, i) \/ i \in {n + 1}
  BY <1>2, <1>4, <1>6 DEF After
<1>10. {n + 1} \subseteq {n + 1} /\ n + 1 \in {n + 1}
  OBVIOUS
<1> QED BY <1>1, <1>2, <1>4, <1>7, <1>8, <1>9, <1>10, TurnKeepsIntent DEF d, n

\* The step joins the open loop region, which goes on or is closed.
LEMMA LoopKeepsIntent ==
    ASSUME IInv, LoopInv, IntentInv, NEW s \in Steps, Scan(s), InLoop,
           \/ Continue(Append(groups, Joined(openLoop, Index)), openGroup, NoGroup)
           \/ Continue(groups, openGroup, Joined(openLoop, Index))
    PROVE  IntentInv'
<1> DEFINE d == Append(chain, s)
           n == Len(chain)
           h == Joined(openLoop, Index)
<1>1. /\ chain \in Seq(Steps) /\ Index = n + 1 /\ n \in Nat
      /\ outcome = "scanning" /\ Before(chain, n + 1)
      /\ groups \in Seq(GroupType) /\ openLoop \in GroupType
      /\ openGroup = NoGroup /\ AllGroups = Append(groups, openLoop) /\ Closed = groups
      /\ Sound(AllGroups, chain)
      /\ openLoop.iterated /\ openLoop.loop
      /\ AllFlagged(Closed, chain)
      /\ First(openLoop) \in 1 .. n /\ chain[First(openLoop)].role = "begin"
  BY AllGroupsCases
     DEF IInv, TypeOK, OpenIsIterated, InLoop, Scan, Index, LoopInv, IntentInv
<1>2. Len(d) = n + 1 /\ d[First(openLoop)] = chain[First(openLoop)]
  BY <1>1
<1>3. Before(d, n + 1)
  <2>1. n + 1 \in 1 .. Len(chain) + 1
    BY <1>1
  <2> QED BY <1>1, <2>1, BeforeOfPrefix
<1>4. ~Ordinary(d, n + 1) /\ CalledFor(d, n + 1, IsLinked(AllGroups, n))
  BY <1>3 DEF Ordinary, CalledFor
<1>5. IsRun(openLoop)
  <2>1. Len(AllGroups) = Len(groups) + 1 /\ AllGroups[Len(groups) + 1] = openLoop
        /\ Len(groups) + 1 \in 1 .. Len(AllGroups)
    BY <1>1
  <2> QED BY <1>1, <2>1 DEF Sound, Cuts
<1>6. /\ h \in GroupType /\ h # NoGroup /\ Len(h.steps) > 1 /\ Len(h.steps) # 1
      /\ First(h) = First(openLoop) /\ h.loop /\ h.iterated
  BY <1>1, <1>5, JoinedFacts
<1>7. openLoop.steps # <<>>
  BY <1>5 DEF IsRun
<1>8. \A i : IsLinked(Append(groups, h), i) <=> IsLinked(AllGroups, i) \/ i \in {n + 1}
  BY <1>1, <1>6, <1>7, LinkedAppend, LinkOfJoined
<1>9. AllFlagged(groups, d)
  BY <1>1, AllFlaggedLater
<1> HIDE DEF d, n, h
<1>10. First(h) \in 1 .. n + 1 /\ First(h) \in 1 .. Len(d) /\ d[First(h)].role = "begin"
  BY <1>1, <1>2, <1>6
<1>11. AllFlagged(Append(groups, h), d)
  <2>1. Flagged(h, d)
    BY <1>6, <1>10 DEF Flagged
  <2> QED BY <1>1, <1>6, <1>9, <1>10, <2>1, AllFlaggedAppend
<1>12. {n + 1} \subseteq {n + 1} /\ n + 1 \in {n + 1}
  OBVIOUS
<1>13. CASE Continue(Append(groups, h), openGroup, NoGroup)
  <2>1. After(Append(groups, h), NoGroup, NoGroup) = Append(groups, h)
    BY DEF After
  <2>2. \A i \in 1 .. n + 1 : IsLinked(After(Append(groups, h), NoGroup, NoGroup), i)
                              <=> IsLinked(AllGroups, i) \/ i \in {n + 1}
    BY <1>8, <2>1
  <2> QED BY <1>1, <1>4, <1>11, <1>12, <1>13, <2>2, TurnKeepsIntent DEF d, n
<1>14. CASE Continue(groups, openGroup, h)
  <2>1. After(groups, NoGroup, h) = Append(groups, h)
    BY <1>6 DEF After
  <2>2. \A i \in 1 .. n + 1 : IsLinked(After(groups, NoGroup, h), i)
                              <=> IsLinked(AllGroups, i) \/ i \in {n + 1}
    BY <1>8, <2>1
  <2> QED BY <1>1, <1>4, <1>6, <1>9, <1>10, <1>12, <1>14, <2>2, TurnKeepsIntent DEF d, n
<1> QED BY <1>13, <1>14 DEF h

-----------------------------------------------------------------------------
\* Every action keeps the invariant.

LEMMA IntentInit == Init => IntentInv
<1> SUFFICES ASSUME Init PROVE IntentInv
  OBVIOUS
<1>1. /\ chain = <<>> /\ Len(chain) = 0 /\ openGroup = NoGroup /\ ~InLoop
      /\ Closed = <<>> /\ Len(Closed) = 0
  BY DEF Init, InLoop, Closed
<1>2. ~Reached(chain, Len(chain) + 1)
  BY <1>1 DEF Reached
<1>3. AsCalledFor(AllGroups, chain)
  BY <1>1 DEF AsCalledFor
<1> QED BY <1>1, <1>2, <1>3 DEF IntentInv, AllFlagged

LEMMA IndicesType ==
    ASSUME NEW m \in Nat
    PROVE  /\ m + 1 \in Nat /\ <<m + 1>> \in Seq(Nat) /\ <<m, m + 1>> \in Seq(Nat)
<1> DEFINE l == m + 1
<1>1. l \in Nat
  OBVIOUS
<1> HIDE DEF l
<1> QED BY <1>1 DEF l

\* A pair of the last step and an animated image before it.
LEMMA OpensAsCalledFor ==
    ASSUME IInv, LoopInv, IntentInv, NEW s \in Steps, OpensParticles(s)
    PROVE  IntentInv'
<1> DEFINE d == Append(chain, s)
           n == Len(chain)
<1>1. /\ Scan(s) /\ ~InLoop /\ ~s.boundary /\ s.role = "none" /\ s.declaresXyz
      /\ s.iterated = TRUE
  BY StepsAssumption DEF OpensParticles, EffectOutsideLoop, StepType
<1>2. /\ n \in Nat /\ Index = n + 1 /\ d[n + 1] = s /\ (n + 1) - 1 = n
      /\ ~Before(d, n + 1) /\ Ordinary(d, n + 1)
      /\ n > 0 => d[n] = chain[n] /\ (Ordinary(d, n) <=> Ordinary(chain, n))
  BY <1>1, StepOutside
<1>3. CASE RejoinsImage(s)
  <2>1. /\ s.ticks /\ EndsWithOne(Closed) /\ IsAnimatedImageGenerator(LastStep(Closed))
    BY <1>3 DEF RejoinsImage
  <2>2. /\ n > 0 /\ ~IsLinked(Closed, n) /\ Closed[Len(Closed)].steps = <<n>>
        /\ IsAnimatedImageGenerator(chain[n])
        /\ chain[n] \in Steps /\ (chain[n].boundary \/ Ordinary(chain, n))
    BY <1>1, <2>1, LastAlone
  <2>3. Ordinary(chain, n)
    BY <2>2, StepsAssumption DEF IsAnimatedImageGenerator
  <2> DEFINE g == GroupWithImage(s)
  <2>4. g = Group(<<n, Index>>, TRUE, FALSE)
    <3>1. Closed[Len(Closed)].steps[1] = n
      <4> HIDE DEF n
      <4> QED BY <2>2
    <3> HIDE DEF n
    <3> QED BY <1>1, <3>1 DEF GroupWithImage
  <2>5. g.steps = <<n, Index>> /\ g.iterated /\ ~g.loop /\ g \in GroupType
    <3>1. <<n, Index>> \in Seq(Nat)
      BY <1>2, IndicesType
    <3> QED BY <2>4, <3>1 DEF Group, GroupType
  <2>6. Continue(AllButLast(Closed), g, NoGroup)
    BY <1>3 DEF OpensParticles
  <2> HIDE DEF g, d, n
  <2>7. CalledFor(d, n + 1, IsLinked(Closed, n))
    BY <1>1, <1>2, <2>1, <2>2, <2>3 DEF CalledFor, RejoinsImageAt
  <2> QED BY <1>1, <2>1, <2>5, <2>6, <2>7, RejoinKeepsIntent DEF d, n
<1>4. CASE ~RejoinsImage(s)
  <2> DEFINE g == Group(<<Index>>, s.iterated, FALSE)
  <2>1. Continue(Closed, g, NoGroup)
    BY <1>4 DEF OpensParticles
  <2>2. g.steps = <<Index>> /\ g.iterated /\ ~g.loop /\ g \in GroupType
    <3>1. <<Index>> \in Seq(Nat)
      BY <1>2, IndicesType
    <3> QED BY <1>1, <3>1 DEF Group, GroupType
  <2> HIDE DEF g
  <2>3. n > 0 => ~CalledFor(d, n + 1, IsLinked(Closed, n))
    <3> SUFFICES ASSUME n > 0, CalledFor(d, n + 1, IsLinked(Closed, n)) PROVE FALSE
      OBVIOUS
    <3> HIDE DEF d
    <3>1. /\ ~IsLinked(Closed, n) /\ s.ticks
          /\ Ordinary(chain, n) /\ IsAnimatedImageGenerator(chain[n])
      BY <1>1, <1>2 DEF CalledFor, RejoinsImageAt, JoinsParticlesAt, RejoinsNoiseAt
    <3>2. EndsWithOne(Closed)
      BY <1>1, <3>1, OutsideLoop, AloneAtEnd DEF Scan
    <3>3. /\ LastStep(Closed) = chain[n]
          /\ Closed[Len(Closed)].iterated <=> ~chain[n].boundary /\ chain[n].iterated
      BY <1>1, <3>2, LastAlone
    <3> QED BY <1>4, <3>1, <3>2, <3>3 DEF RejoinsImage, IsAnimatedImageGenerator
  <2> QED BY <1>1, <2>1, <2>2, <2>3, StartKeepsIntent DEF d, n
<1> QED BY <1>3, <1>4

\* A pair of flow3d and the animated noise3d before it.
LEMMA FlowsAsCalledFor ==
    ASSUME IInv, LoopInv, IntentInv, NEW s \in Steps, FlowStep(s)
    PROVE  IntentInv'
<1> DEFINE d == Append(chain, s)
           n == Len(chain)
           g == Group(<<groups[Len(groups)].steps[1], Index>>, TRUE, FALSE)
<1>1. /\ Scan(s) /\ ~InLoop /\ ~s.boundary /\ s.role = "none" /\ ~s.declaresXyz
      /\ openGroup = NoGroup /\ s.id = "flow3d" /\ s.ticks
      /\ EndsWithOne(groups) /\ LastStep(groups).id = "noise3d"
      /\ LastStep(groups).speed # "zero"
      /\ Continue(Append(AllButLast(groups), g), NoGroup, NoGroup)
  BY DEF FlowStep, EffectOutsideLoop, RejoinsNoise
<1>2. Closed = groups
  BY <1>1, AllGroupsCases
<1>3. /\ n \in Nat /\ Index = n + 1 /\ d[n + 1] = s /\ (n + 1) - 1 = n
      /\ Ordinary(d, n + 1) /\ ~Reached(d, n + 1)
      /\ n > 0 => d[n] = chain[n] /\ (Ordinary(d, n) <=> Ordinary(chain, n))
  BY <1>1, StepOutside
<1>4. /\ n > 0 /\ ~IsLinked(Closed, n) /\ Closed[Len(Closed)].steps = <<n>>
      /\ LastStep(Closed) = chain[n]
      /\ chain[n] \in Steps /\ (chain[n].boundary \/ Ordinary(chain, n))
  BY <1>1, <1>2, LastAlone
<1>5. Ordinary(chain, n)
  BY <1>1, <1>2, <1>4, StepsAssumption
<1>6. g.steps = <<n, Index>> /\ g.iterated /\ ~g.loop /\ g \in GroupType
  <2>1. <<n, Index>> \in Seq(Nat)
    BY <1>3, IndicesType
  <2>2. g = Group(<<n, Index>>, TRUE, FALSE)
    BY <1>2, <1>4
  <2> HIDE DEF g
  <2> QED BY <2>1, <2>2 DEF Group, GroupType
<1> HIDE DEF d, g, n
<1>7. CalledFor(d, n + 1, IsLinked(Closed, n))
  BY <1>1, <1>2, <1>3, <1>4, <1>5 DEF CalledFor, RejoinsNoiseAt
<1> QED BY <1>1, <1>2, <1>6, <1>7, RejoinKeepsIntent DEF d, n

\* Any other effect is a group of its own.
LEMMA SinglesAsCalledFor ==
    ASSUME IInv, LoopInv, IntentInv, NEW s \in Steps, SingleStep(s)
    PROVE  IntentInv'
<1> DEFINE d == Append(chain, s)
           n == Len(chain)
           g == Group(<<Index>>, s.iterated, FALSE)
<1>1. /\ Scan(s) /\ ~InLoop /\ ~s.boundary /\ s.role = "none" /\ ~s.declaresXyz
      /\ ~(openGroup # NoGroup /\ s.references) /\ ~RejoinsNoise(s)
      /\ s.iterated \in BOOLEAN
      /\ Continue(Append(Closed, g), NoGroup, NoGroup)
  BY StepsAssumption DEF SingleStep, EffectOutsideLoop, JoinsParticles, StepType
<1>2. /\ n \in Nat /\ Index = n + 1 /\ d[n + 1] = s /\ (n + 1) - 1 = n
      /\ ~Before(d, n + 1) /\ (openGroup # NoGroup <=> Reached(d, n + 1))
      /\ n > 0 => d[n] = chain[n] /\ (Ordinary(d, n) <=> Ordinary(chain, n))
  BY <1>1, StepOutside
<1>3. g.steps = <<Index>> /\ (g.iterated <=> s.iterated) /\ ~g.loop /\ g \in GroupType
  <2>1. <<Index>> \in Seq(Nat)
    BY <1>2, IndicesType
  <2> QED BY <1>1, <2>1 DEF Group, GroupType
<1> HIDE DEF g
<1>4. n > 0 => ~CalledFor(d, n + 1, IsLinked(Closed, n))
  <2> SUFFICES ASSUME n > 0, CalledFor(d, n + 1, IsLinked(Closed, n)) PROVE FALSE
    OBVIOUS
  <2> HIDE DEF d
  <2>1. /\ ~IsLinked(Closed, n) /\ openGroup = NoGroup
        /\ s.id = "flow3d" /\ s.ticks
        /\ chain[n].id = "noise3d" /\ chain[n].speed # "zero"
    BY <1>1, <1>2 DEF CalledFor, RejoinsImageAt, JoinsParticlesAt, RejoinsNoiseAt
  <2>2. Closed = groups
    BY <2>1, AllGroupsCases
  <2>3. EndsWithOne(groups)
    BY <1>1, <2>1, <2>2, OutsideLoop, AloneAtEnd DEF Scan
  <2>4. LastStep(groups) = chain[n]
    BY <1>1, <2>2, <2>3, LastAlone
  <2> QED BY <1>1, <2>1, <2>3, <2>4 DEF RejoinsNoise
<1> QED BY <1>1, <1>3, <1>4, StartKeepsIntent DEF d, n

LEMMA IntentNext == IInv /\ LoopInv /\ IntentInv /\ [Next]_vars => IntentInv'
<1> SUFFICES ASSUME IInv, LoopInv, IntentInv, [Next]_vars PROVE IntentInv'
  OBVIOUS
<1>0. ASSUME Throw PROVE IntentInv'
  BY <1>0 DEF Throw, IntentInv
<1>1. ASSUME NEW s \in Steps, LoopStep(s) PROVE IntentInv'
  <2>1. Scan(s) /\ InLoop
    BY <1>1 DEF LoopStep
  <2>2. \/ Throw
        \/ Continue(Append(groups, Joined(openLoop, Index)), openGroup, NoGroup)
        \/ Continue(groups, openGroup, Joined(openLoop, Index))
    BY <1>1 DEF LoopStep
  <2> QED BY <1>0, <2>1, <2>2, LoopKeepsIntent
<1>2. ASSUME NEW s \in Steps, BoundaryStep(s) \/ LoopBegins(s) PROVE IntentInv'
  <2> DEFINE g == Group(<<Index>>, FALSE, FALSE)
             l == Group(<<Index>>, TRUE, TRUE)
  <2>1. /\ Scan(s) /\ ~InLoop
        /\ \/ s.boundary /\ s.role = "none" /\ Continue(Append(Closed, g), NoGroup, NoGroup)
           \/ s.role = "begin" /\ Continue(Closed, NoGroup, l)
    BY <1>2, StepsAssumption DEF BoundaryStep, LoopBegins, EffectOutsideLoop
  <2>2. /\ Len(chain) \in Nat /\ Index = Len(chain) + 1
        /\ ~Before(Append(chain, s), Len(chain) + 1)
        /\ Ordinary(Append(chain, s), Len(chain) + 1) <=> ~s.boundary /\ s.role = "none"
    BY <2>1, StepOutside
  <2>3. /\ g.steps = <<Index>> /\ ~g.iterated /\ ~g.loop /\ g \in GroupType
        /\ l.steps = <<Index>> /\ l.iterated /\ l.loop /\ l \in GroupType
    <3>1. <<Index>> \in Seq(Nat)
      BY <2>2, IndicesType
    <3> QED BY <3>1 DEF Group, GroupType
  <2> HIDE DEF g, l
  <2>4. ~CalledFor(Append(chain, s), Len(chain) + 1, IsLinked(Closed, Len(chain)))
    BY <2>1, <2>2 DEF CalledFor, RejoinsImageAt, JoinsParticlesAt, RejoinsNoiseAt
  <2> QED BY <2>1, <2>3, <2>4, StartKeepsIntent
<1>3. ASSUME NEW s \in Steps, UnmatchedEnd(s) PROVE IntentInv'
  BY <1>0, <1>3 DEF UnmatchedEnd
<1>4. CASE Finish
  <2>1. CASE InLoop
    BY <1>0, <1>4, <2>1 DEF Finish
  <2>2. CASE ~InLoop
    <3>1. /\ outcome = "scanning" /\ outcome' = "done" /\ chain' = chain
          /\ groups' = Closed /\ openGroup' = NoGroup /\ openLoop' = NoGroup
      BY <1>4, <2>2 DEF Finish
    <3>2. AllGroups' = Closed /\ Closed' = Closed /\ ~InLoop'
      BY <3>1 DEF AllGroups, InLoop, Closed, NoGroup
    <3>3. AllGroups = Closed
      BY <2>2, AllGroupsCases
    <3>4. AsCalledFor(Closed, chain) /\ AllFlagged(Closed, chain)
      BY <3>1, <3>3 DEF IntentInv
    <3>5. AsCalledFor(AllGroups, chain)' /\ AllFlagged(Closed, chain)'
      BY <3>1, <3>2, <3>4
    <3> QED BY <3>1, <3>2, <3>5 DEF IntentInv
  <2> QED BY <2>1, <2>2
<1>5. CASE UNCHANGED vars
  <2>1. /\ chain' = chain /\ outcome' = outcome /\ openGroup' = openGroup /\ openLoop' = openLoop
        /\ AllGroups' = AllGroups /\ Closed' = Closed /\ (InLoop' <=> InLoop)
    BY <1>5 DEF vars, AllGroups, InLoop, Closed, NoGroup
  <2>2. outcome # "thrown" => AsCalledFor(AllGroups, chain)' /\ AllFlagged(Closed, chain)'
    BY <2>1 DEF IntentInv
  <2>3. outcome = "scanning" => (openGroup # NoGroup <=> Reached(chain, Len(chain) + 1)')
    BY <2>1 DEF IntentInv
  <2> QED BY <2>1, <2>2, <2>3 DEF IntentInv, First, NoGroup
<1> QED
  BY <1>1, <1>2, <1>3, <1>4, <1>5, OpensAsCalledFor, JoinKeepsIntent, FlowsAsCalledFor,
     SinglesAsCalledFor DEF Next, Ended

-----------------------------------------------------------------------------
\* At the end of the scan the links are RunsWithPrevious.

\* Induction over the naturals, for a set in place of a predicate.
LEMMA SetInduction ==
    ASSUME NEW S, 0 \in S, \A n \in Nat : n \in S => n + 1 \in S
    PROVE  Nat \subseteq S
<1> DEFINE T == Nat \ S
           R == OpToRel(<, Nat)
<1>1. R = {ss \in Nat \X Nat : ss[1] < ss[2]}
  BY DEF OpToRel
<1>2. SUFFICES ASSUME T # {} PROVE FALSE
  OBVIOUS
<1>3. IsWellFoundedOn(R, Nat)
  BY NatLessThanWellFounded
<1>4. T \subseteq Nat
  OBVIOUS
<1> HIDE DEF R, T
<1>5. PICK x \in T : \A y \in T : ~(<<y, x>> \in R)
  BY <1>2, <1>3, <1>4, WFMin
<1> USE DEF T
<1>6. x \in Nat /\ x # 0 /\ x - 1 \in Nat /\ x = (x - 1) + 1
  OBVIOUS
<1>7. x - 1 \in T
  BY <1>6
<1>8. <<x - 1, x>> \in R
  BY <1>1, <1>6
<1> QED BY <1>5, <1>7, <1>8

\* One value of the recursion in RunsWithPrevious.
Value(with, i) == IF i = 1 THEN FALSE ELSE CalledFor(chain, i, with[i - 1])

\* Two functions that satisfy it are equal.
LEMMA OneGrouping ==
    ASSUME chain \in Seq(Steps), NEW f, NEW h,
           \A i \in 1 .. Len(chain) : f[i] = Value(f, i),
           \A i \in 1 .. Len(chain) : h[i] = Value(h, i)
    PROVE  \A i \in 1 .. Len(chain) : f[i] = h[i]
<1> DEFINE S == {k \in Nat : k \in 1 .. Len(chain) => f[k] = h[k]}
<1>1. 0 \in S
  OBVIOUS
<1>2. ASSUME NEW k \in Nat, k \in S PROVE k + 1 \in S
  <2> SUFFICES ASSUME k + 1 \in 1 .. Len(chain) PROVE f[k + 1] = h[k + 1]
    OBVIOUS
  <2>1. f[k + 1] = Value(f, k + 1) /\ h[k + 1] = Value(h, k + 1)
    OBVIOUS
  <2>2. CASE k = 0
    BY <2>1, <2>2 DEF Value
  <2>3. CASE k # 0
    <3>1. k \in 1 .. Len(chain) /\ (k + 1) - 1 = k /\ k + 1 # 1
      BY <2>3
    <3>2. f[k] = h[k]
      BY <1>2, <3>1
    <3> QED BY <2>1, <3>1, <3>2 DEF Value
  <2> QED BY <2>2, <2>3
<1> HIDE DEF S
<1>3. Nat \subseteq S
  BY <1>1, <1>2, SetInduction
<1> QED BY <1>3 DEF S

LEMMA ChainOrdinary == \A i : IsOrdinary(i) <=> Ordinary(chain, i)
BY DEF IsOrdinary, Ordinary, LoopBefore, Before

LEMMA ChainReached == \A i : (\E j \in 1 .. i - 1 : ParticlesReach(j, i)) <=> Reached(chain, i)
BY ChainOrdinary DEF ParticlesReach, Reaches, Reached

\* The first step has no step before it.
LEMMA FirstIsNotLinked ==
    ASSUME NEW gs, NEW c \in Seq(Steps), Sound(gs, c)
    PROVE  ~IsLinked(gs, 1)
<1> SUFFICES ASSUME NEW k \in 1 .. Len(gs), HasLink(gs[k], 1) PROVE FALSE
  BY DEF IsLinked
<1> DEFINE g == gs[k]
<1>1. gs \in Seq(GroupType) /\ Cuts(gs, Len(c)) /\ Len(c) \in Nat
  BY DEF Sound
<1>2. g \in GroupType /\ IsRun(g) /\ First(g) \in 1 .. Len(c)
  BY <1>1, CutsBounds
<1>3. Len(g.steps) \in Nat
  BY <1>2 DEF GroupType
<1> HIDE DEF g
<1>4. PICK p \in 2 .. Len(g.steps) : g.steps[p] = 1
  BY DEF HasLink, g
<1>5. p \in 1 .. Len(g.steps)
  BY <1>3
<1>6. g.steps[p] = First(g) + p - 1
  BY <1>2, <1>5 DEF IsRun
<1> QED BY <1>2, <1>3, <1>4, <1>6

LEMMA LinksAreIntended ==
    ASSUME chain \in Seq(Steps), Sound(groups, chain), AsCalledFor(groups, chain)
    PROVE  \A i \in 2 .. Len(chain) : RunsWithPrevious[i] <=> IsLinked(groups, i)
<1> DEFINE body(with) ==
             [i \in 1 .. Len(chain) |->
                IF i = 1 THEN FALSE
                ELSE LET reached == \E j \in 1 .. i - 1 : ParticlesReach(j, i)
                         alone   == ~with[i - 1]
                     IN  \/ LoopBefore(i)
                         \/ /\ IsOrdinary(i) /\ chain[i].declaresXyz /\ chain[i].ticks
                            /\ IsOrdinary(i - 1) /\ alone
                            /\ IsAnimatedImageGenerator(chain[i - 1])
                         \/ /\ IsOrdinary(i) /\ ~chain[i].declaresXyz
                            /\ reached /\ chain[i].references
                         \/ /\ IsOrdinary(i) /\ ~chain[i].declaresXyz /\ ~reached
                            /\ chain[i].id = "flow3d" /\ chain[i].ticks
                            /\ IsOrdinary(i - 1) /\ alone
                            /\ chain[i - 1].id = "noise3d" /\ chain[i - 1].speed # "zero"]
           links == [i \in 1 .. Len(chain) |-> i # 1 /\ IsLinked(groups, i)]
<1>1. RunsWithPrevious = CHOOSE with : with = body(with)
  BY DEF RunsWithPrevious
<1>2. \A with : \A i \in 1 .. Len(chain) : body(with)[i] = Value(with, i)
  <2> SUFFICES ASSUME NEW with, NEW i \in 1 .. Len(chain) PROVE body(with)[i] = Value(with, i)
    OBVIOUS
  <2> QED BY ChainOrdinary, ChainReached
          DEF Value, CalledFor, RejoinsImageAt, JoinsParticlesAt, RejoinsNoiseAt, LoopBefore, Before
<1>3. \A with : body(with) = [i \in 1 .. Len(chain) |-> body(with)[i]]
  OBVIOUS
<1>4. links = [i \in 1 .. Len(chain) |-> links[i]]
  OBVIOUS
<1>5. \A i \in 1 .. Len(chain) : links[i] = (i # 1 /\ IsLinked(groups, i))
  OBVIOUS
<1> HIDE DEF body, links
<1>6. ~IsLinked(groups, 1)
  BY FirstIsNotLinked
<1>7. \A i \in 1 .. Len(chain) : links[i] = Value(links, i)
  <2> SUFFICES ASSUME NEW i \in 1 .. Len(chain) PROVE links[i] = Value(links, i)
    OBVIOUS
  <2>1. CASE i = 1
    BY <1>5, <2>1 DEF Value
  <2>2. CASE i # 1
    <3>1. i \in 2 .. Len(chain) /\ i - 1 \in 1 .. Len(chain)
      BY <2>2
    <3>2. IsLinked(groups, i) <=> CalledFor(chain, i, IsLinked(groups, i - 1))
      BY <3>1 DEF AsCalledFor
    <3>3. links[i - 1] <=> IsLinked(groups, i - 1)
      BY <1>5, <1>6, <3>1
    <3>4. CalledFor(chain, i, links[i - 1]) <=> CalledFor(chain, i, IsLinked(groups, i - 1))
      BY <3>3 DEF CalledFor
    <3>5. links[i] <=> IsLinked(groups, i)
      BY <1>5, <2>2
    <3>6. Value(links, i) = CalledFor(chain, i, links[i - 1])
      BY <2>2 DEF Value
    <3>7. links[i] \in BOOLEAN
      BY <1>5
    <3>8. CalledFor(chain, i, links[i - 1]) \in BOOLEAN
      BY DEF CalledFor
    <3>9. links[i] <=> CalledFor(chain, i, links[i - 1])
      BY <3>2, <3>4, <3>5
    <3> DEFINE called == CalledFor(chain, i, links[i - 1])
               link   == links[i]
    <3>10. link \in BOOLEAN /\ called \in BOOLEAN /\ (link <=> called)
      BY <3>7, <3>8, <3>9
    <3> HIDE DEF called, link
    <3>11. link = called
      BY <3>10
    <3> QED BY <3>6, <3>11 DEF called, link
  <2> QED BY <2>1, <2>2
<1>8. links = body(links)
  <2>1. [i \in 1 .. Len(chain) |-> links[i]] = [i \in 1 .. Len(chain) |-> body(links)[i]]
    BY <1>2, <1>7
  <2> QED BY <1>3, <1>4, <2>1
<1>9. RunsWithPrevious = body(RunsWithPrevious)
  BY <1>1, <1>8
<1> DEFINE runs == RunsWithPrevious
<1>10. \A i \in 1 .. Len(chain) : runs[i] = Value(runs, i)
  BY <1>2, <1>9
<1> HIDE DEF runs
<1>11. \A i \in 1 .. Len(chain) : runs[i] = links[i]
  BY <1>7, <1>10, OneGrouping
<1> SUFFICES ASSUME NEW i \in 2 .. Len(chain) PROVE runs[i] <=> IsLinked(groups, i)
  BY DEF runs
<1>12. i \in 1 .. Len(chain) /\ i # 1
  OBVIOUS
<1> QED BY <1>5, <1>11, <1>12

\* compute_iteration_groups, which sees one step at a time and looks back at
\* one group, finds the grouping that the whole chain calls for, for every
\* chain.
THEOREM GroupsAsIntended == Spec => []MatchesIntent
<1>1. IInv /\ IntentInv => MatchesIntent
  <2> SUFFICES ASSUME IInv, IntentInv, outcome = "done"
               PROVE  /\ \A i \in 2 .. Len(chain) : RunsWithPrevious[i] <=> IsLinked(groups, i)
                      /\ AllFlagged(groups, chain)
    BY DEF MatchesIntent, IsLinked, HasLink, AllFlagged, Flagged
  <2>1. openGroup = NoGroup /\ ~InLoop
    BY DEF IntentInv
  <2>2. AllGroups = groups /\ Closed = groups
    BY <2>1, AllGroupsCases
  <2>3. chain \in Seq(Steps) /\ Sound(groups, chain)
    BY <2>2 DEF IInv, TypeOK
  <2>4. AsCalledFor(groups, chain) /\ AllFlagged(groups, chain)
    BY <2>2 DEF IntentInv
  <2> QED BY <2>3, <2>4, LinksAreIntended
<1> QED BY <1>1, IntentInit, IntentNext, LoopsInit, LoopsNext, Invariance, PTL DEF Spec

-----------------------------------------------------------------------------
\* What the executor takes for granted of a group that it runs as a unit.

\* A step is run alone if it does not iterate.  An iterated group has effects
\* only, and what starts it says how often it runs: it begins a loop, or
\* iterates, or is the image or the volume of an effect that ticks.
RunsAsUnit(g, c) ==
    /\ ~g.iterated => Len(g.steps) = 1 /\ (c[First(g)].boundary \/ ~c[First(g)].iterated)
    /\ g.iterated =>
         /\ \A p \in 1 .. Len(g.steps) : ~c[g.steps[p]].boundary
         /\ \/ c[First(g)].role = "begin"
            \/ c[First(g)].iterated
            \/ /\ Len(g.steps) > 1
               /\ c[g.steps[2]].iterated /\ c[g.steps[2]].ticks
    /\ g.loop => c[First(g)].role = "begin"

GroupsRunAsUnits ==
    outcome = "done" => \A k \in 1 .. Len(groups) : RunsAsUnit(groups[k], chain)

\* The first step of a group is not linked to the step before it, and the
\* other steps are.
LEMMA LinksOfGroup ==
    ASSUME NEW gs \in Seq(GroupType), NEW n \in Nat, Cuts(gs, n), NEW k \in 1 .. Len(gs)
    PROVE  /\ ~IsLinked(gs, First(gs[k]))
           /\ \A p \in 2 .. Len(gs[k].steps) : IsLinked(gs, gs[k].steps[p])
<1>1. First(gs[k]) \in Nat /\ Last(gs[k]) \in Nat /\ First(gs[k]) <= Last(gs[k]) /\ Len(gs) \in Nat
  BY CutsBounds, RunBounds
<1>2. ASSUME NEW j \in 1 .. Len(gs), HasLink(gs[j], First(gs[k])) PROVE FALSE
  <2>1. gs[j] \in GroupType /\ IsRun(gs[j])
    BY CutsBounds
  <2>2. /\ First(gs[j]) \in Nat /\ Last(gs[j]) \in Nat /\ Len(gs[j].steps) \in Nat
        /\ Last(gs[j]) = First(gs[j]) + Len(gs[j].steps) - 1
    BY <2>1, RunBounds
  <2>3. PICK p \in 2 .. Len(gs[j].steps) : gs[j].steps[p] = First(gs[k])
    BY <1>2 DEF HasLink
  <2>4. p \in 1 .. Len(gs[j].steps) /\ p \in Nat /\ p >= 2 /\ p <= Len(gs[j].steps)
    BY <2>2
  <2>5. First(gs[k]) = First(gs[j]) + p - 1
    BY <2>1, <2>3, <2>4 DEF IsRun
  <2>6. First(gs[j]) < First(gs[k]) /\ First(gs[k]) <= Last(gs[j])
    BY <1>1, <2>2, <2>4, <2>5
  <2>7. CASE j < k
    <3>1. j \in 1 .. k - 1
      BY <2>7
    <3>2. Last(gs[j]) < First(gs[k])
      BY <3>1 DEF Cuts
    <3> QED BY <1>1, <2>2, <2>6, <3>2
  <2>8. CASE k < j
    <3>1. k \in 1 .. j - 1
      BY <2>8
    <3>2. Last(gs[k]) < First(gs[j])
      BY <3>1 DEF Cuts
    <3> QED BY <1>1, <2>2, <2>6, <3>2
  <2>9. CASE j = k
    BY <1>1, <2>6, <2>9
  <2> QED BY <2>7, <2>8, <2>9
<1> QED BY <1>2 DEF IsLinked, HasLink

\* What makes a first step share its group, and what that step then is.
LEMMA SharedFirst ==
    ASSUME NEW c \in Seq(Steps), NEW gs, AsCalledFor(gs, c), Fits(c), ~IsLinked(gs, 1),
           NEW f \in 1 .. Len(c), f + 1 \in 1 .. Len(c),
           ~IsLinked(gs, f), IsLinked(gs, f + 1)
    PROVE  /\ ~c[f].boundary
           /\ \/ c[f].role = "begin"
              \/ c[f].iterated
              \/ c[f + 1].iterated /\ c[f + 1].ticks
<1>1. c[f] \in Steps /\ c[f + 1] \in Steps /\ f + 1 \in 2 .. Len(c) /\ (f + 1) - 1 = f /\ f \in Nat
  OBVIOUS
<1>2. CalledFor(c, f + 1, FALSE)
  <2>1. IsLinked(gs, f + 1) <=> CalledFor(c, f + 1, IsLinked(gs, f))
    BY <1>1 DEF AsCalledFor
  <2> QED BY <2>1 DEF CalledFor
<1>3. ~CalledFor(c, f, TRUE) \/ f = 1
  <2>1. CASE f # 1
    <3>1. f \in 2 .. Len(c)
      BY <2>1
    <3>2. IsLinked(gs, f) <=> CalledFor(c, f, IsLinked(gs, f - 1))
      BY <3>1 DEF AsCalledFor
    <3> QED BY <3>2 DEF CalledFor
  <2> QED BY <2>1
<1>4. CASE Before(c, f + 1)
  <2>1. PICK b \in 1 .. (f + 1) - 1 :
          c[b].role = "begin" /\ \A k \in b + 1 .. (f + 1) - 1 : c[k].role # "end"
    BY <1>4 DEF Before
  <2>2. CASE b = f
    BY <1>1, <2>1, <2>2, StepsAssumption
  <2>3. CASE b # f
    <3>1. b \in 1 .. f - 1 /\ f # 1 /\ \A k \in b + 1 .. f - 1 : k \in b + 1 .. (f + 1) - 1
      BY <1>1, <2>3
    <3>2. Before(c, f)
      BY <2>1, <3>1 DEF Before
    <3> QED BY <1>3, <3>1, <3>2 DEF CalledFor
  <2> QED BY <2>2, <2>3
<1>5. CASE JoinsParticlesAt(c, f + 1)
  <2>1. PICK j \in 1 .. f : Reaches(c, j, f + 1)
    BY <1>1, <1>5 DEF JoinsParticlesAt, Reached
  <2>2. CASE j = f
    BY <1>1, <2>1, <2>2, StepsAssumption DEF Reaches, Ordinary
  <2>3. CASE j # f
    <3>1. j \in 1 .. f - 1 /\ f # 1 /\ f \in j + 1 .. (f + 1) - 1
          /\ \A k \in j + 1 .. f - 1 : k \in j + 1 .. (f + 1) - 1
      BY <1>1, <2>3
    <3>2. Reaches(c, j, f) /\ Ordinary(c, f) /\ c[f].references /\ ~c[f].declaresXyz
      BY <2>1, <3>1 DEF Reaches
    <3>3. JoinsParticlesAt(c, f)
      BY <3>1, <3>2 DEF JoinsParticlesAt, Reached
    <3> QED BY <1>3, <3>1, <3>3 DEF CalledFor
  <2> QED BY <2>2, <2>3
<1>6. CASE RejoinsImageAt(c, f + 1)
  BY <1>1, <1>6, StepsAssumption DEF RejoinsImageAt, Ordinary
<1>7. CASE RejoinsNoiseAt(c, f + 1)
  BY <1>1, <1>7, StepsAssumption DEF RejoinsNoiseAt, Ordinary
<1> QED BY <1>2, <1>4, <1>5, <1>6, <1>7 DEF CalledFor

\* No linked step is a surface step.
LEMMA LinkedIsEffect ==
    ASSUME NEW c \in Seq(Steps), NEW gs, AsCalledFor(gs, c), Fits(c),
           NEW i \in 2 .. Len(c), IsLinked(gs, i)
    PROVE  ~c[i].boundary
<1>1. CalledFor(c, i, IsLinked(gs, i - 1)) /\ i \in 1 .. Len(c)
  BY DEF AsCalledFor
<1>2. Before(c, i) \/ Ordinary(c, i)
  BY <1>1 DEF CalledFor, JoinsParticlesAt, RejoinsImageAt, RejoinsNoiseAt
<1> QED BY <1>1, <1>2 DEF Fits, MayFollow, Ordinary

LEMMA UnitsOfGroups ==
    ASSUME NEW c \in Seq(Steps), NEW gs, Sound(gs, c), AsCalledFor(gs, c), AllFlagged(gs, c),
           Fits(c), NEW k \in 1 .. Len(gs)
    PROVE  RunsAsUnit(gs[k], c)
<1> DEFINE g == gs[k]
           f == First(g)
<1>1. /\ gs \in Seq(GroupType) /\ Cuts(gs, Len(c)) /\ Len(c) \in Nat
      /\ g \in GroupType /\ IsRun(g) /\ f \in 1 .. Len(c) /\ Last(g) \in 1 .. Len(c)
  BY CutsBounds DEF Sound
<1>2. PICK m \in Nat \ {0} : m = Len(g.steps)
  BY <1>1, RunBounds DEF GroupType
<1>3. Last(g) = f + m - 1 /\ f \in Nat
  BY <1>1, <1>2, RunBounds
<1>4. /\ ~IsLinked(gs, f) /\ ~IsLinked(gs, 1)
      /\ \A p \in 2 .. m : IsLinked(gs, g.steps[p])
  BY <1>1, <1>2, LinksOfGroup, FirstIsNotLinked
<1>5. Flagged(g, c)
  BY DEF AllFlagged
<1>6. \A p \in 1 .. m : g.steps[p] = f + p - 1
  BY <1>1, <1>2 DEF IsRun
<1> HIDE DEF g, f
<1>7. \A p \in 1 .. m : f + p - 1 \in 1 .. Len(c)
  BY <1>1, <1>3
<1>8. ASSUME m > 1
      PROVE  /\ ~c[f].boundary
             /\ \/ c[f].role = "begin"
                \/ c[f].iterated
                \/ c[g.steps[2]].iterated /\ c[g.steps[2]].ticks
  <2>1. 2 \in 1 .. m /\ 2 \in 2 .. m /\ f + 2 - 1 = f + 1
    BY <1>8, <1>3
  <2>2. g.steps[2] = f + 1 /\ IsLinked(gs, f + 1) /\ f + 1 \in 1 .. Len(c)
    BY <2>1, <1>4, <1>6, <1>7
  <2>3. f \in 1 .. Len(c) /\ ~IsLinked(gs, f) /\ ~IsLinked(gs, 1)
    BY <1>1, <1>4
  <2>4. /\ ~c[f].boundary
        /\ \/ c[f].role = "begin"
           \/ c[f].iterated
           \/ c[f + 1].iterated /\ c[f + 1].ticks
    BY <2>2, <2>3, SharedFirst
  <2>5. c[g.steps[2]] = c[f + 1]
    BY <2>2
  <2> QED BY <2>4, <2>5
<1>9. ASSUME NEW p \in 2 .. m PROVE ~c[g.steps[p]].boundary
  <2>1. p \in 1 .. m /\ p >= 2 /\ p \in Nat
    OBVIOUS
  <2>2. g.steps[p] \in 2 .. Len(c)
    BY <2>1, <1>1, <1>3, <1>6, <1>7
  <2> QED BY <2>2, <1>4, LinkedIsEffect
<1>10. g.steps[1] = f
  BY <1>2, <1>3, <1>6
<1>11. ASSUME g.iterated, NEW p \in 1 .. m PROVE ~c[g.steps[p]].boundary
  <2>1. CASE p = 1
    <3>1. CASE m > 1
      BY <1>8, <1>10, <2>1, <3>1
    <3>2. CASE m = 1
      <4>1. ~(m > 1)
        BY <3>2
      <4>2. ~(Len(g.steps) > 1)
        BY <1>2, <4>1
      <4>3. ~c[f].boundary
        BY <1>5, <1>11, <4>2 DEF Flagged, f
      <4> QED BY <1>10, <2>1, <4>3
    <3> QED BY <3>1, <3>2
  <2>2. CASE p \in 2 .. m
    BY <1>9, <2>2
  <2> QED BY <2>1, <2>2
<1>12. ~g.iterated => m = 1 /\ (c[f].boundary \/ ~c[f].iterated)
  <2> SUFFICES ASSUME ~g.iterated PROVE m = 1 /\ (c[f].boundary \/ ~c[f].iterated)
    OBVIOUS
  <2>1. ~(Len(g.steps) > 1) /\ (c[f].boundary \/ ~c[f].iterated)
    BY <1>5 DEF Flagged, f
  <2>2. ~(m > 1)
    BY <1>2, <2>1
  <2> QED BY <2>1, <2>2
<1>13. g.iterated => \/ c[f].role = "begin"
                     \/ c[f].iterated
                     \/ m > 1 /\ c[g.steps[2]].iterated /\ c[g.steps[2]].ticks
  BY <1>2, <1>5, <1>8 DEF Flagged, f
<1>14. g.loop => c[f].role = "begin"
  BY <1>5 DEF Flagged, f
<1> QED BY <1>2, <1>11, <1>12, <1>13, <1>14 DEF RunsAsUnit, g, f

\* compute_iteration_groups hands the executor groups that it can run as it
\* does: the front alone if the group does not iterate; else effects only,
\* for as many ticks as the first or the second of them says.
THEOREM GroupsAreUnits == Spec => []GroupsRunAsUnits
<1>1. IInv /\ LoopInv /\ IntentInv => GroupsRunAsUnits
  <2> SUFFICES ASSUME IInv, LoopInv, IntentInv, outcome = "done",
                      NEW k \in 1 .. Len(groups)
               PROVE  RunsAsUnit(groups[k], chain)
    BY DEF GroupsRunAsUnits
  <2>1. openGroup = NoGroup /\ ~InLoop
    BY DEF IntentInv
  <2>2. AllGroups = groups /\ Closed = groups
    BY <2>1, AllGroupsCases
  <2>3. chain \in Seq(Steps) /\ Sound(groups, chain)
    BY <2>2 DEF IInv, TypeOK
  <2>4. AsCalledFor(groups, chain) /\ AllFlagged(groups, chain)
    BY <2>2 DEF IntentInv
  <2>5. Fits(chain)
    BY BalancedFits DEF LoopInv
  <2> QED BY <2>3, <2>4, <2>5, UnitsOfGroups
<1> QED BY <1>1, IntentInit, IntentNext, LoopsInit, LoopsNext, Invariance, PTL DEF Spec
=============================================================================
