------------------------ MODULE PlanAdmissionProofs ------------------------
(***************************************************************************)
(* Proofs about PlanAdmission, for every catalog of steps and every length *)
(* of chain: the grouping of a chain that the compiler accepts never       *)
(* throws, the dry run of the executor never believes in less than the     *)
(* compiler's flags promise, the plan's groups are those of the scan of    *)
(* IterationGroups, execution mirrors the dry run (after every group the   *)
(* chain has the bundle that the dry run believed in), and an admitted     *)
(* chain fails only in the two ways that the dry run does not look for.    *)
(***************************************************************************)
EXTENDS PlanAdmission, SequenceTheorems, TLAPS

FlagsType == [image : BOOLEAN, volume : BOOLEAN, generator : BOOLEAN, loop : BOOLEAN]

NoFlags == [image |-> FALSE, volume |-> FALSE, generator |-> FALSE, loop |-> FALSE]

\* What compile_chain has made sure of at step i, of the flags before it and
\* after it.
Link(i, s, before, after) ==
    /\ after.image <=> \/ before.image \/ s.kind = "read"
                       \/ s.kind = "effect"
                            /\ s.effect.domain \notin {"volume-generator", "volume-filter"}
    /\ after.volume <=> \/ before.volume \/ s.kind = "read3d"
                        \/ s.effect.domain = "volume-generator"
    /\ s.kind \in {"read", "read3d"} => i = 1
    /\ s.kind = "effect" /\ s.effect.domain = "volume-generator" => i = 1 \/ before.volume
    /\ s.kind = "effect" /\ s.effect.domain = "volume-filter" => before.volume
    /\ s.kind = "effect" /\ s.effect.domain \in {"loop-begin", "loop-end"} => before.image
    /\ s.kind = "effect" /\ s.effect.domain = "image" =>
          IF s.effect.opens THEN i = 1 ELSE before.image \/ ~SamplesImage(s)

CompileInv ==
    /\ chain \in Seq(Steps) /\ flags \in Seq(FlagsType)
    /\ Len(flags) = Len(chain) + 1
    /\ flags[1] = NoFlags
    /\ \A i \in 1 .. Len(chain) : Link(i, chain[i], flags[i], flags[i + 1])
    /\ \A i, j \in 1 .. Len(flags) : i <= j /\ flags[i].image => flags[j].image
    /\ \A i, j \in 1 .. Len(flags) : i <= j /\ flags[i].volume => flags[j].volume

\* The compiler's loop flag and the scan's open region agree.
LoopInv ==
    IF phase = "compile"
    THEN outcome = "scanning" /\ (openLoop # Scan!NoGroup <=> Flags.loop)
    ELSE outcome = "done" /\ openGroup = Scan!NoGroup /\ openLoop = Scan!NoGroup

Holds(g, i) == \E p \in 1 .. Len(g.steps) : g.steps[p] = i

\* If the front of a group may run no tick, the chain has an image after it.
FrontGives(g, c, f) ==
    c[g.steps[1]].zero => f[g.steps[1] + 1].image

\* Of a group: its front comes first, it is iterated if a step of it is, and
\* only a group of one step may have a front that runs no tick and makes no
\* image.
GroupOK(g, c, f) ==
    /\ g \in Scan!GroupType /\ g.steps # <<>>
    /\ \A p \in 1 .. Len(g.steps) :
          /\ g.steps[p] \in 1 .. Len(c)
          /\ g.steps[p] = g.steps[1] \/ g.steps[1] < g.steps[p]
          /\ c[g.steps[p]].scan.iterated => g.iterated
    /\ Len(g.steps) > 1 => FrontGives(g, c, f)

\* The groups, and every step is in one.
Sound(gs, c, f) ==
    /\ \A g \in gs : GroupOK(g, c, f)
    /\ \A i \in 1 .. Len(c) : \E g \in gs : Holds(g, i)

Members(gs) == {gs[k] : k \in 1 .. Len(gs)}

AllOf(gs, group, loop) == Members(gs) \cup ({group, loop} \ {Scan!NoGroup})

\* An open group can take a step more.
CanGrow(g, c, f) == g # Scan!NoGroup => g.iterated /\ FrontGives(g, c, f)

GroupsInv ==
    /\ groups \in Seq(Scan!GroupType)
    /\ openGroup \in Scan!GroupType /\ openLoop \in Scan!GroupType
    /\ CanGrow(openGroup, chain, flags) /\ CanGrow(openLoop, chain, flags)
    /\ Sound(AllOf(groups, openGroup, openLoop), chain, flags)

\* The dry run: what it has logged, and that its bundle keeps the flags.
LogIsSequence == \E S : dry.log \in Seq(S)

DryInv ==
    /\ LogIsSequence
    /\ phase \in {"compile", "admit"} => dry.log = <<>> /\ dry.bundle = EmptyBundle /\ at = 1
    /\ phase = "preflight" =>
         /\ at = Len(dry.log) + 1
         /\ at = 1 => dry.bundle = EmptyBundle
         /\ at <= Len(chain) + 1
         /\ flags[at].image => dry.bundle["image"]
         /\ flags[at].volume => dry.bundle["volume"]
    /\ FlagsAreKept

PhaseType ==
    phase \in {"compile", "admit", "preflight", "execute", "done", "rejected", "failed"}

IInv == PhaseType /\ CompileInv /\ LoopInv /\ GroupsInv /\ DryInv

-----------------------------------------------------------------------------
\* Groups.

LEMMA NoGroupType == Scan!NoGroup \in Scan!GroupType /\ Scan!NoGroup.steps = <<>>
BY DEF Scan!NoGroup, Scan!Group, Scan!GroupType

LEMMA MembersAppend ==
    ASSUME NEW gs \in Seq(Scan!GroupType), NEW g \in Scan!GroupType
    PROVE  Append(gs, g) \in Seq(Scan!GroupType) /\ Members(Append(gs, g)) = Members(gs) \cup {g}
<1>1. /\ Append(gs, g) \in Seq(Scan!GroupType) /\ Len(Append(gs, g)) = Len(gs) + 1
      /\ Append(gs, g)[Len(gs) + 1] = g
      /\ \A k \in 1 .. Len(gs) : Append(gs, g)[k] = gs[k]
      /\ Len(gs) \in Nat
  BY AppendProperties
<1>2. ASSUME NEW h PROVE h \in Members(Append(gs, g)) <=> h \in Members(gs) \cup {g}
  <2>1. 1 .. Len(Append(gs, g)) = (1 .. Len(gs)) \cup {Len(gs) + 1}
    BY <1>1
  <2> QED BY <1>1, <2>1 DEF Members
<1> QED BY <1>1, <1>2

LEMMA MembersButLast ==
    ASSUME NEW gs \in Seq(Scan!GroupType), gs # <<>>
    PROVE  /\ Scan!AllButLast(gs) \in Seq(Scan!GroupType)
           /\ Members(Scan!AllButLast(gs)) \subseteq Members(gs)
           /\ Members(gs) \subseteq Members(Scan!AllButLast(gs)) \cup {gs[Len(gs)]}
           /\ gs[Len(gs)] \in Members(gs) /\ gs[Len(gs)] \in Scan!GroupType
<1>1. Len(gs) \in Nat \ {0} /\ \A k \in 1 .. Len(gs) : gs[k] \in Scan!GroupType
  BY EmptySeq, LenProperties, ElementOfSeq
<1> DEFINE hs == Scan!AllButLast(gs)
<1>2. /\ hs \in Seq(Scan!GroupType) /\ Len(hs) = Len(gs) - 1
      /\ \A k \in 1 .. Len(gs) - 1 : hs[k] = gs[k]
  <2>1. PICK n \in Int : n = Len(gs) - 1
    BY <1>1
  <2>2. \A k \in 1 .. n : gs[k] \in Scan!GroupType
    BY <1>1, <2>1
  <2>3. hs = SubSeq(gs, 1, n)
    BY <2>1 DEF Scan!AllButLast
  <2>4. /\ hs \in Seq(Scan!GroupType)
        /\ Len(hs) = IF 1 <= n THEN n - 1 + 1 ELSE 0
        /\ \A k \in 1 .. n - 1 + 1 : hs[k] = gs[1 + k - 1]
    BY <2>2, <2>3, SubSeqProperties
  <2> HIDE DEF hs
  <2>5. Len(hs) = n
    BY <1>1, <2>1, <2>4
  <2>6. ASSUME NEW k \in 1 .. n PROVE hs[k] = gs[k]
    <3>1. k \in 1 .. n - 1 + 1 /\ 1 + k - 1 = k
      BY <2>1
    <3>2. hs[k] = gs[1 + k - 1]
      BY <2>4, <3>1
    <3> QED BY <3>1, <3>2
  <2> QED BY <2>1, <2>4, <2>5, <2>6
<1> HIDE DEF hs
<1>4. 1 .. Len(gs) = (1 .. Len(hs)) \cup {Len(gs)}
  BY <1>1, <1>2
<1>5. \A k \in 1 .. Len(hs) : hs[k] = gs[k]
  BY <1>1, <1>2
<1>6. \A h : h \in Members(hs) <=> \E k \in 1 .. Len(hs) : h = gs[k]
  BY <1>5 DEF Members
<1>7. \A h : h \in Members(gs) <=> \E k \in 1 .. Len(gs) : h = gs[k]
  BY DEF Members
<1>8. \A h \in Members(hs) : h \in Members(gs)
  BY <1>4, <1>6, <1>7
<1>9. \A h \in Members(gs) : h \in Members(hs) \/ h = gs[Len(gs)]
  BY <1>4, <1>6, <1>7
<1>10. Len(gs) \in 1 .. Len(gs)
  BY <1>1
<1>11. gs[Len(gs)] \in Members(gs) /\ gs[Len(gs)] \in Scan!GroupType
  BY <1>1, <1>7, <1>10
<1>12. Members(hs) \subseteq Members(gs)
  BY <1>8
<1>13. Members(gs) \subseteq Members(hs) \cup {gs[Len(gs)]}
  BY <1>9
<1> QED BY <1>2, <1>11, <1>12, <1>13 DEF hs

\* The closed groups are as many groups as the open ones.
LEMMA MembersClosed ==
    ASSUME groups \in Seq(Scan!GroupType), openGroup \in Scan!GroupType
    PROVE  /\ Scan!Closed \in Seq(Scan!GroupType)
           /\ Members(Scan!Closed) = Members(groups) \cup ({openGroup} \ {Scan!NoGroup})
BY MembersAppend DEF Scan!Closed

-----------------------------------------------------------------------------
\* A chain and its flags, one step longer.

\* A group that is sound stays so.
LEMMA GroupStaysOK ==
    ASSUME NEW c \in Seq(Steps), NEW f \in Seq(FlagsType), Len(f) = Len(c) + 1,
           NEW s \in Steps, NEW a \in FlagsType, NEW g, GroupOK(g, c, f)
    PROVE  /\ GroupOK(g, Append(c, s), Append(f, a))
           /\ FrontGives(g, Append(c, s), Append(f, a)) <=> FrontGives(g, c, f)
<1>1. /\ Len(Append(c, s)) = Len(c) + 1 /\ Len(c) \in Nat /\ Len(f) \in Nat
      /\ \A i \in 1 .. Len(c) : Append(c, s)[i] = c[i]
      /\ \A i \in 1 .. Len(c) + 1 : Append(f, a)[i] = f[i]
  BY AppendProperties, LenProperties
<1>2. g.steps \in Seq(Nat) /\ g.steps # <<>> /\ Len(g.steps) \in Nat \ {0}
  BY EmptySeq, LenProperties DEF GroupOK, Scan!GroupType
<1>3. \A p \in 1 .. Len(g.steps) : g.steps[p] \in 1 .. Len(c)
  BY DEF GroupOK
<1>4. g.steps[1] \in 1 .. Len(c)
  BY <1>2, <1>3
<1>5. FrontGives(g, Append(c, s), Append(f, a)) <=> FrontGives(g, c, f)
  BY <1>1, <1>4 DEF FrontGives
<1>6. GroupOK(g, Append(c, s), Append(f, a))
  <2>1. ASSUME NEW p \in 1 .. Len(g.steps)
        PROVE  /\ g.steps[p] \in 1 .. Len(Append(c, s))
               /\ g.steps[p] = g.steps[1] \/ g.steps[1] < g.steps[p]
               /\ Append(c, s)[g.steps[p]].scan.iterated => g.iterated
    BY <1>1, <1>3 DEF GroupOK
  <2> QED BY <1>2, <1>5, <2>1 DEF GroupOK
<1> QED BY <1>5, <1>6

\* The new step goes into a group `new` that has what `old` had.
LEMMA Regrouped ==
    ASSUME NEW c \in Seq(Steps), NEW f \in Seq(FlagsType), Len(f) = Len(c) + 1,
           NEW s \in Steps, NEW a \in FlagsType, NEW G, NEW H, NEW old, NEW new,
           Sound(G, c, f), GroupOK(new, Append(c, s), Append(f, a)),
           Holds(new, Len(c) + 1),
           \A i \in 1 .. Len(c) : Holds(old, i) => Holds(new, i),
           \A h \in H : h \in G \/ h = new,
           \A g \in G : g \in H \/ g = old,
           new \in H
    PROVE  Sound(H, Append(c, s), Append(f, a))
<1>1. Len(Append(c, s)) = Len(c) + 1 /\ Len(c) \in Nat
  BY AppendProperties, LenProperties
<1>2. ASSUME NEW h \in H PROVE GroupOK(h, Append(c, s), Append(f, a))
  <2>1. CASE h = new
    BY <2>1
  <2>2. CASE h \in G
    BY <2>2, GroupStaysOK DEF Sound
  <2> QED BY <2>1, <2>2
<1>3. ASSUME NEW i \in 1 .. Len(Append(c, s)) PROVE \E h \in H : Holds(h, i)
  <2>1. CASE i = Len(c) + 1
    BY <2>1
  <2>2. CASE i \in 1 .. Len(c)
    BY <2>2 DEF Sound
  <2> QED BY <1>1, <2>1, <2>2
<1> QED BY <1>2, <1>3 DEF Sound

LEMMA ShortSequences ==
    ASSUME NEW q \in Seq(Nat)
    PROVE  /\ Len(q) = 1 => ~(Len(q) > 1) /\ \A p \in 1 .. Len(q) : p = 1
           /\ Len(q) = 1 => 1 \in 1 .. Len(q)
           /\ Len(q) = 2 => \A p \in 1 .. Len(q) : p = 1 \/ p = 2
           /\ Len(q) = 2 => 1 \in 1 .. Len(q) /\ 2 \in 1 .. Len(q)
<1>1. PICK n \in Nat : n = Len(q)
  BY LenProperties
<1>2. n = 1 => ~(n > 1) /\ (\A p \in 1 .. n : p = 1) /\ 1 \in 1 .. n
  OBVIOUS
<1>3. n = 2 => (\A p \in 1 .. n : p = 1 \/ p = 2) /\ 1 \in 1 .. n /\ 2 \in 1 .. n
  OBVIOUS
<1> HIDE <1>1
<1>4. Len(q) = 1 => n = 1
  BY <1>1
<1>5. Len(q) = 2 => n = 2
  BY <1>1
<1>6. 1 .. n = 1 .. Len(q) /\ (n > 1 <=> Len(q) > 1)
  BY <1>1
<1> QED BY <1>2, <1>3, <1>4, <1>5, <1>6, Zenon

\* A group of the new step alone.
LEMMA AddsOne ==
    ASSUME NEW c \in Seq(Steps), NEW f \in Seq(FlagsType), Len(f) = Len(c) + 1,
           NEW s \in Steps, NEW a \in FlagsType,
           NEW iterated \in BOOLEAN, NEW loop \in BOOLEAN, s.scan.iterated => iterated,
           NEW g, g = Scan!Group(<<Len(c) + 1>>, iterated, loop)
    PROVE  /\ GroupOK(g, Append(c, s), Append(f, a))
           /\ Holds(g, Len(c) + 1)
           /\ g \in Scan!GroupType /\ g # Scan!NoGroup /\ g.iterated = iterated
           /\ FrontGives(g, Append(c, s), Append(f, a)) <=> (s.zero => a.image)
<1>1. /\ Len(Append(c, s)) = Len(c) + 1 /\ Len(c) \in Nat
      /\ Append(c, s)[Len(c) + 1] = s
      /\ Append(f, a)[Len(c) + 1 + 1] = a
  BY AppendProperties, LenProperties
<1>2. PICK n \in Nat : n = Len(c) + 1
  BY <1>1
<1>3. g = [steps |-> <<n>>, iterated |-> iterated, loop |-> loop]
  BY <1>2 DEF Scan!Group
<1>4. g.iterated = iterated
  BY <1>3
<1>5. <<n>> \in Seq(Nat) /\ Len(<<n>>) = 1 /\ <<n>>[1] = n /\ <<n>> # <<>>
  OBVIOUS
<1>6. g \in Scan!GroupType /\ g.steps \in Seq(Nat)
  BY <1>2 DEF Scan!Group, Scan!GroupType
<1>7. PICK st : st = g.steps /\ st = <<n>>
  BY <1>3
<1>8. Len(g.steps) = 1 /\ g.steps[1] = n /\ g.steps # <<>>
  BY <1>5, <1>7
<1>9. g # Scan!NoGroup
  BY <1>8, NoGroupType
<1>10. FrontGives(g, Append(c, s), Append(f, a)) <=> (s.zero => a.image)
  BY <1>1, <1>2, <1>8 DEF FrontGives
<1>11. Holds(g, n)
  BY <1>8 DEF Holds
<1>12. GroupOK(g, Append(c, s), Append(f, a))
  <2>1. ASSUME NEW p \in 1 .. Len(g.steps)
        PROVE  /\ g.steps[p] \in 1 .. Len(Append(c, s))
               /\ g.steps[p] = g.steps[1]
               /\ Append(c, s)[g.steps[p]].scan.iterated => g.iterated
    <3>1. p = 1
      BY <1>6, <1>8, ShortSequences
    <3>2. g.steps[p] = n /\ n \in 1 .. Len(Append(c, s)) /\ Append(c, s)[n] = s
      BY <3>1, <1>1, <1>2, <1>8
    <3>3. Append(c, s)[g.steps[p]].scan.iterated => g.iterated
      BY <3>2, <1>4
    <3> QED BY <3>2, <3>3, <1>8
  <2>2. ~(Len(g.steps) > 1)
    BY <1>6, <1>8, ShortSequences
  <2> QED BY <2>1, <2>2, <1>6, <1>8 DEF GroupOK
<1> QED BY <1>2, <1>4, <1>6, <1>9, <1>10, <1>11, <1>12

\* The new step joins a group that can grow.
LEMMA JoinsOne ==
    ASSUME NEW c \in Seq(Steps), NEW f \in Seq(FlagsType), Len(f) = Len(c) + 1,
           NEW s \in Steps, NEW a \in FlagsType,
           NEW g, GroupOK(g, c, f), g # Scan!NoGroup, CanGrow(g, c, f),
           NEW h, h = Scan!Joined(g, Len(c) + 1)
    PROVE  /\ GroupOK(h, Append(c, s), Append(f, a))
           /\ Holds(h, Len(c) + 1)
           /\ \A i \in 1 .. Len(c) : Holds(g, i) => Holds(h, i)
           /\ h \in Scan!GroupType /\ h # Scan!NoGroup
           /\ CanGrow(h, Append(c, s), Append(f, a))
<1>1. Len(Append(c, s)) = Len(c) + 1 /\ Len(c) \in Nat
  BY AppendProperties, LenProperties
<1>2. PICK n \in Nat : n = Len(c) + 1
  BY <1>1
<1>3. g.steps \in Seq(Nat) /\ g.steps # <<>> /\ Len(g.steps) \in Nat \ {0}
  BY EmptySeq, LenProperties DEF GroupOK, Scan!GroupType
<1>4. h \in Scan!GroupType /\ h.steps = Append(g.steps, n) /\ (h.iterated <=> g.iterated)
  <2>1. g \in Scan!GroupType /\ Append(g.steps, n) \in Seq(Nat)
    BY <1>2, <1>3 DEF GroupOK
  <2>2. h = [g EXCEPT !.steps = Append(g.steps, n)]
    BY <1>2 DEF Scan!Joined
  <2>3. h \in Scan!GroupType /\ h.steps = Append(g.steps, n)
    BY <2>1, <2>2 DEF Scan!GroupType
  <2>4. h.iterated = g.iterated
    BY <2>1, <2>2 DEF Scan!GroupType
  <2> QED BY <2>3, <2>4
<1>5. /\ Len(h.steps) = Len(g.steps) + 1 /\ h.steps[Len(g.steps) + 1] = n
      /\ \A p \in 1 .. Len(g.steps) : h.steps[p] = g.steps[p]
  <2>1. h.steps = Append(g.steps, n)
    BY <1>4
  <2>2. PICK q \in Seq(Nat) : q = g.steps
    BY <1>3
  <2>3. /\ Len(Append(q, n)) = Len(q) + 1 /\ Append(q, n)[Len(q) + 1] = n
        /\ \A p \in 1 .. Len(q) : Append(q, n)[p] = q[p]
    BY <1>2, AppendProperties
  <2> QED BY <2>1, <2>2, <2>3
<1>6. h.steps # <<>> /\ h # Scan!NoGroup
  <2>1. h.steps # <<>>
    BY <1>3, <1>5, EmptySeq
  <2> QED BY <2>1, NoGroupType
<1>7. h.steps[1] = g.steps[1] /\ g.steps[1] \in 1 .. Len(c)
  BY <1>3, <1>5 DEF GroupOK
<1>8. GroupOK(g, Append(c, s), Append(f, a)) /\ FrontGives(g, Append(c, s), Append(f, a))
  BY GroupStaysOK DEF CanGrow
<1>9. FrontGives(h, Append(c, s), Append(f, a)) /\ h.iterated
  BY <1>4, <1>7, <1>8 DEF FrontGives, CanGrow
<1>10. ASSUME NEW p \in 1 .. Len(h.steps)
       PROVE  /\ h.steps[p] \in 1 .. Len(Append(c, s))
              /\ h.steps[p] = h.steps[1] \/ h.steps[1] < h.steps[p]
              /\ Append(c, s)[h.steps[p]].scan.iterated => h.iterated
  <2>1. CASE p = Len(g.steps) + 1
    BY <2>1, <1>1, <1>2, <1>5, <1>7, <1>9
  <2>2. CASE p \in 1 .. Len(g.steps)
    BY <2>2, <1>5, <1>7, <1>8, <1>9 DEF GroupOK
  <2>3. PICK m \in Nat : m = Len(g.steps)
    BY <1>3
  <2>4. p \in 1 .. m + 1
    BY <2>3, <1>5
  <2>5. p = m + 1 \/ p \in 1 .. m
    BY <2>3, <2>4
  <2> QED BY <2>1, <2>2, <2>3, <2>5
<1>11. GroupOK(h, Append(c, s), Append(f, a))
  BY <1>4, <1>6, <1>9, <1>10 DEF GroupOK
<1>12. Holds(h, n)
  BY <1>3, <1>5 DEF Holds
<1>13. ASSUME NEW i, Holds(g, i) PROVE Holds(h, i)
  <2>1. PICK p \in 1 .. Len(g.steps) : g.steps[p] = i
    BY <1>13 DEF Holds
  <2>2. p \in 1 .. Len(h.steps) /\ h.steps[p] = i
    BY <2>1, <1>3, <1>5
  <2> QED BY <2>2 DEF Holds
<1>14. CanGrow(h, Append(c, s), Append(f, a))
  BY <1>9 DEF CanGrow
<1>15. h \in Scan!GroupType
  BY <1>4
<1> QED BY <1>2, <1>6, <1>11, <1>12, <1>13, <1>14, <1>15

\* The new step runs with the one step of the last group.
LEMMA RejoinsOne ==
    ASSUME NEW c \in Seq(Steps), NEW f \in Seq(FlagsType), Len(f) = Len(c) + 1,
           NEW s \in Steps, NEW a \in FlagsType,
           NEW g, GroupOK(g, c, f), Len(g.steps) = 1, ~c[g.steps[1]].zero,
           NEW h, h = Scan!Group(<<g.steps[1], Len(c) + 1>>, TRUE, FALSE)
    PROVE  /\ GroupOK(h, Append(c, s), Append(f, a))
           /\ Holds(h, Len(c) + 1)
           /\ \A i \in 1 .. Len(c) : Holds(g, i) => Holds(h, i)
           /\ h \in Scan!GroupType /\ h # Scan!NoGroup
           /\ CanGrow(h, Append(c, s), Append(f, a))
<1>1. /\ Len(Append(c, s)) = Len(c) + 1 /\ Len(c) \in Nat
      /\ \A i \in 1 .. Len(c) : Append(c, s)[i] = c[i]
  BY AppendProperties, LenProperties
<1>2. PICK n \in Nat : n = Len(c) + 1
  BY <1>1
<1>3. PICK m \in Nat : m = g.steps[1] /\ m \in 1 .. Len(c)
  BY <1>1 DEF GroupOK
<1>4. /\ Len(h.steps) = 2 /\ h.steps[1] = m /\ h.steps[2] = n /\ h.steps # <<>>
  <2>1. h.steps = <<m, n>>
    BY <1>2, <1>3 DEF Scan!Group
  <2>2. <<m, n>> \in Seq(Nat) /\ Len(<<m, n>>) = 2 /\ <<m, n>>[1] = m /\ <<m, n>>[2] = n
    OBVIOUS
  <2>3. <<m, n>> # <<>>
    OBVIOUS
  <2>4. PICK st : st = h.steps /\ st = <<m, n>>
    BY <2>1
  <2> QED BY <2>2, <2>3, <2>4
<1>10. h.iterated
  BY DEF Scan!Group
<1>11. h \in Scan!GroupType /\ h.steps \in Seq(Nat)
  BY <1>2, <1>3 DEF Scan!Group, Scan!GroupType
<1>5. h # Scan!NoGroup
  BY <1>4, NoGroupType
<1>6. FrontGives(h, Append(c, s), Append(f, a))
  BY <1>1, <1>3, <1>4 DEF FrontGives
<1>7. GroupOK(h, Append(c, s), Append(f, a))
  <2>1. ASSUME NEW p \in 1 .. Len(h.steps)
        PROVE  /\ h.steps[p] \in 1 .. Len(Append(c, s))
               /\ h.steps[p] = h.steps[1] \/ h.steps[1] < h.steps[p]
    <3>1. p = 1 \/ p = 2
      BY <1>4, <1>11, ShortSequences
    <3>2. h.steps[p] = m \/ h.steps[p] = n
      BY <3>1, <1>4
    <3>3. m < n /\ m \in 1 .. Len(Append(c, s)) /\ n \in 1 .. Len(Append(c, s))
      BY <1>1, <1>2, <1>3
    <3> QED BY <3>2, <3>3, <1>4
  <2> QED BY <2>1, <1>4, <1>6, <1>10, <1>11 DEF GroupOK
<1>8. Holds(h, n)
  <2>1. 2 \in 1 .. Len(h.steps)
    BY <1>4, <1>11, ShortSequences
  <2> QED BY <2>1, <1>4 DEF Holds
<1>9. ASSUME NEW i, Holds(g, i) PROVE Holds(h, i)
  <2>1. PICK p \in 1 .. Len(g.steps) : g.steps[p] = i
    BY <1>9 DEF Holds
  <2>2. i = m
    BY <2>1, <1>3
  <2>3. 1 \in 1 .. Len(h.steps)
    BY <1>4, <1>11, ShortSequences
  <2> QED BY <2>2, <2>3, <1>4 DEF Holds
<1>12. CanGrow(h, Append(c, s), Append(f, a))
  BY <1>6, <1>10 DEF CanGrow
<1> QED BY <1>2, <1>5, <1>7, <1>8, <1>9, <1>11, <1>12

-----------------------------------------------------------------------------
\* One step of compile_chain.

\* What the compiler knows of the step it accepts.
LEMMA AcceptedStep ==
    ASSUME CompileInv, NEW s \in Steps, Accepts(s)
    PROVE  /\ Flags = flags[Len(chain) + 1] /\ Flags \in FlagsType
           /\ FlagsAfter(s) \in FlagsType
           /\ Link(Len(chain) + 1, s, Flags, FlagsAfter(s))
           /\ s.scan.boundary => ~Flags.loop
           /\ s.scan.role = "begin" => ~Flags.loop
           /\ s.scan.role = "end" => Flags.loop
           /\ FlagsAfter(s).loop <=> s.scan.role = "begin"
                                       \/ (Flags.loop /\ s.scan.role # "end")
<1>1. Flags = flags[Len(chain) + 1] /\ Flags \in FlagsType /\ Len(chain) \in Nat
  BY LenProperties, ElementOfSeq DEF CompileInv, Flags
<1>2. IsFirst => Len(chain) + 1 = 1 /\ Flags = NoFlags
  BY <1>1, EmptySeq DEF CompileInv, IsFirst
<1>3. FlagsAfter(s) \in FlagsType
  BY DEF FlagsAfter, FlagsType
<1>4. /\ s.scan.role = "begin" <=> s.effect.domain = "loop-begin"
      /\ s.scan.role = "end" <=> s.effect.domain = "loop-end"
      /\ s.scan.boundary <=> s.kind # "effect"
      /\ s.kind # "effect" => s.effect.domain = "image"
      /\ s.effect.opens => s.effect.domain \in {"image", "volume-generator"}
      /\ s.kind \in {"read", "write", "read3d", "write3d", "effect"}
  BY PlanStepsAssumption, PlanCatalogAssumption DEF NoEffect, Effect
<1>5. s.kind # "effect" => ~Flags.loop
  BY <1>2, <1>4 DEF Accepts, MayWrite, MayWrite3D, NoFlags
<1>6. s.kind \in {"read", "read3d"} => IsFirst
  BY DEF Accepts
<1>7. s.kind = "effect" => AcceptsEffect(s)
  BY DEF Accepts
<1>8. /\ s.kind = "effect" /\ s.effect.domain = "loop-begin" => Flags.image /\ ~Flags.loop
      /\ s.kind = "effect" /\ s.effect.domain = "loop-end" => Flags.image /\ Flags.loop
  BY <1>4, <1>7 DEF AcceptsEffect
<1>9. s.kind = "effect" /\ s.effect.domain = "volume-generator" => IsFirst \/ Flags.volume
  BY <1>7 DEF AcceptsEffect
<1>10. s.kind = "effect" /\ s.effect.domain = "volume-filter" => Flags.volume
  <2>1. Flags.volume \in BOOLEAN
    BY <1>1 DEF FlagsType
  <2> QED BY <1>4, <1>7, <2>1 DEF AcceptsEffect
<1>11. s.kind = "effect" /\ s.effect.domain = "image" =>
          IF s.effect.opens THEN IsFirst ELSE Flags.image \/ ~SamplesImage(s)
  BY <1>7 DEF AcceptsEffect
<1>12. /\ FlagsAfter(s).image <=> \/ Flags.image \/ s.kind = "read"
                                  \/ s.kind = "effect" /\ s.effect.domain \notin
                                        {"volume-generator", "volume-filter"}
       /\ FlagsAfter(s).volume <=> \/ Flags.volume \/ s.kind = "read3d"
                                   \/ s.effect.domain = "volume-generator"
       /\ FlagsAfter(s).loop <=> \/ s.effect.domain = "loop-begin"
                                 \/ Flags.loop /\ s.effect.domain # "loop-end"
  BY DEF FlagsAfter
<1>13. Link(Len(chain) + 1, s, Flags, FlagsAfter(s))
  BY <1>2, <1>6, <1>8, <1>9, <1>10, <1>11, <1>12 DEF Link
<1> QED BY <1>1, <1>3, <1>4, <1>5, <1>8, <1>12, <1>13

LEMMA CompileStepFlags ==
    ASSUME CompileInv, NEW s \in Steps, CompileStep(s)
    PROVE  CompileInv'
<1>1. /\ Accepts(s) /\ chain' = Append(chain, s) /\ flags' = Append(flags, FlagsAfter(s))
      /\ chain \in Seq(Steps) /\ flags \in Seq(FlagsType) /\ Len(flags) = Len(chain) + 1
  BY DEF CompileStep, CompileInv
<1>2. /\ Flags = flags[Len(chain) + 1] /\ FlagsAfter(s) \in FlagsType
      /\ Link(Len(chain) + 1, s, Flags, FlagsAfter(s))
  BY <1>1, AcceptedStep
<1>3. PICK n \in Nat : n = Len(chain)
  BY <1>1, LenProperties
<1>4. PICK a \in FlagsType : a = FlagsAfter(s)
  BY <1>2
<1>5. /\ chain' \in Seq(Steps) /\ Len(chain') = n + 1
      /\ chain'[n + 1] = s /\ \A i \in 1 .. n : chain'[i] = chain[i]
  BY <1>1, <1>3, AppendProperties
<1>6. /\ flags' \in Seq(FlagsType) /\ Len(flags') = n + 2
      /\ flags'[n + 2] = a /\ \A i \in 1 .. n + 1 : flags'[i] = flags[i]
  BY <1>1, <1>3, <1>4, AppendProperties
<1>7. flags'[1] = NoFlags
  BY <1>3, <1>6 DEF CompileInv
<1>8. ASSUME NEW i \in 1 .. Len(chain') PROVE Link(i, chain'[i], flags'[i], flags'[i + 1])
  <2>1. CASE i = n + 1
    BY <2>1, <1>2, <1>3, <1>4, <1>5, <1>6
  <2>2. CASE i \in 1 .. n
    <3>1. chain'[i] = chain[i] /\ flags'[i] = flags[i] /\ flags'[i + 1] = flags[i + 1]
      BY <2>2, <1>5, <1>6
    <3> QED BY <2>2, <3>1, <1>3 DEF CompileInv
  <2> QED BY <2>1, <2>2, <1>5
<1>9. flags[n + 1].image => a.image
  BY <1>2, <1>3, <1>4 DEF Link
<1>10. ASSUME NEW i \in 1 .. Len(flags'), NEW j \in 1 .. Len(flags'), i <= j, flags'[i].image
       PROVE  flags'[j].image
  <2>1. CASE i \in 1 .. n + 1 /\ j \in 1 .. n + 1
    BY <2>1, <1>1, <1>3, <1>6, <1>10 DEF CompileInv
  <2>2. CASE i \in 1 .. n + 1 /\ j = n + 2
    <3>1. flags[i].image
      BY <2>2, <1>6, <1>10
    <3>2. n + 1 \in 1 .. Len(flags) /\ i \in 1 .. Len(flags) /\ i <= n + 1
      BY <2>2, <1>1, <1>3
    <3>3. flags[n + 1].image
      BY <3>1, <3>2 DEF CompileInv
    <3> QED BY <2>2, <3>3, <1>6, <1>9
  <2>3. CASE i = n + 2
    BY <2>3, <1>6, <1>10
  <2> QED BY <2>1, <2>2, <2>3, <1>6
<1>11. \A i, j \in 1 .. Len(flags') : i <= j /\ flags'[i].image => flags'[j].image
  BY <1>10
<1>13. flags[n + 1].volume => a.volume
  BY <1>2, <1>3, <1>4 DEF Link
<1>14. ASSUME NEW i \in 1 .. Len(flags'), NEW j \in 1 .. Len(flags'), i <= j, flags'[i].volume
       PROVE  flags'[j].volume
  <2>1. CASE i \in 1 .. n + 1 /\ j \in 1 .. n + 1
    BY <2>1, <1>1, <1>3, <1>6, <1>14 DEF CompileInv
  <2>2. CASE i \in 1 .. n + 1 /\ j = n + 2
    <3>1. flags[i].volume
      BY <2>2, <1>6, <1>14
    <3>2. n + 1 \in 1 .. Len(flags) /\ i \in 1 .. Len(flags) /\ i <= n + 1
      BY <2>2, <1>1, <1>3
    <3>3. flags[n + 1].volume
      BY <3>1, <3>2 DEF CompileInv
    <3> QED BY <2>2, <3>3, <1>6, <1>13
  <2>3. CASE i = n + 2
    BY <2>3, <1>6, <1>14
  <2> QED BY <2>1, <2>2, <2>3, <1>6
<1>15. \A i, j \in 1 .. Len(flags') : i <= j /\ flags'[i].volume => flags'[j].volume
  BY <1>14
<1>12. Len(flags') = Len(chain') + 1
  BY <1>5, <1>6
<1> QED BY <1>5, <1>6, <1>7, <1>8, <1>11, <1>12, <1>15 DEF CompileInv

\* The scan sees the compiled chain.
LEMMA ScanView ==
    ASSUME CompileInv
    PROVE  /\ Scan!Index = Len(chain) + 1
           /\ \A gs : gs[Len(gs)].steps[1] \in 1 .. Len(chain) =>
                 Scan!LastStep(gs) = chain[gs[Len(gs)].steps[1]].scan
<1>1. Len(chain) \in Nat /\ \A i \in 1 .. Len(chain) : chain[i].scan \in Scan!StepType
  BY LenProperties, ElementOfSeq, PlanCatalogAssumption DEF CompileInv
<1> DEFINE view == [i \in 1 .. Len(chain) |-> chain[i].scan]
<1>2. view \in Seq(Scan!StepType) /\ Len(view) = Len(chain)
  BY <1>1
<1>3. Scan!Index = Len(view) + 1
  BY DEF Scan!Index
<1>4. ASSUME NEW gs PROVE Scan!LastStep(gs) = view[gs[Len(gs)].steps[1]]
  BY DEF Scan!LastStep
<1> QED BY <1>2, <1>3, <1>4

LEMMA GroupsBecome ==
    ASSUME NEW c, NEW f, NEW gs \in Seq(Scan!GroupType),
           NEW group \in Scan!GroupType, NEW loop \in Scan!GroupType,
           CanGrow(group, c, f), CanGrow(loop, c, f), Sound(AllOf(gs, group, loop), c, f),
           chain' = c, flags' = f, groups' = gs, openGroup' = group, openLoop' = loop
    PROVE  GroupsInv'
BY DEF GroupsInv, CanGrow, Sound, AllOf, Members

\* The new step in a group of its own, closed or open.
LEMMA StepAlone ==
    ASSUME CompileInv, GroupsInv, NEW s \in Steps, NEW a \in FlagsType,
           NEW iterated \in BOOLEAN, NEW loop \in BOOLEAN, s.scan.iterated => iterated,
           NEW g, g = Scan!Group(<<Len(chain) + 1>>, iterated, loop),
           openLoop = Scan!NoGroup,
           chain' = Append(chain, s), flags' = Append(flags, a),
           \/ /\ groups' = Append(Scan!Closed, g)
              /\ openGroup' = Scan!NoGroup /\ openLoop' = Scan!NoGroup
           \/ /\ groups' = Scan!Closed /\ iterated /\ (s.zero => a.image)
              /\ \/ openGroup' = g /\ openLoop' = Scan!NoGroup
                 \/ openGroup' = Scan!NoGroup /\ openLoop' = g
    PROVE  GroupsInv'
<1> DEFINE c == Append(chain, s)
           f == Append(flags, a)
           G == AllOf(groups, openGroup, openLoop)
<1>1. /\ chain \in Seq(Steps) /\ flags \in Seq(FlagsType) /\ Len(flags) = Len(chain) + 1
      /\ Sound(G, chain, flags)
  BY DEF CompileInv, GroupsInv
<1>2. /\ GroupOK(g, c, f) /\ Holds(g, Len(chain) + 1)
      /\ g \in Scan!GroupType /\ g # Scan!NoGroup
      /\ FrontGives(g, c, f) <=> (s.zero => a.image)
  BY <1>1, AddsOne
<1>3. g.iterated = iterated
  BY <1>1, AddsOne
<1>4. /\ Scan!Closed \in Seq(Scan!GroupType) /\ Members(Scan!Closed) = G
      /\ Append(Scan!Closed, g) \in Seq(Scan!GroupType)
      /\ Members(Append(Scan!Closed, g)) = G \cup {g}
  <2>1. Scan!Closed \in Seq(Scan!GroupType) /\ Members(Scan!Closed) = G
    BY MembersClosed DEF GroupsInv, AllOf
  <2> QED BY <2>1, <1>2, MembersAppend
<1>5. Scan!NoGroup \in Scan!GroupType /\ CanGrow(Scan!NoGroup, c, f)
  BY NoGroupType DEF CanGrow
<1>6. Sound(G \cup {g}, c, f)
  BY <1>1, <1>2, Regrouped
<1> HIDE DEF c, f, G
<1>7. CASE groups' = Append(Scan!Closed, g) /\ openGroup' = Scan!NoGroup /\ openLoop' = Scan!NoGroup
  <2>1. AllOf(Append(Scan!Closed, g), Scan!NoGroup, Scan!NoGroup) = G \cup {g}
    BY <1>4 DEF AllOf
  <2> QED BY <2>1, <1>4, <1>5, <1>6, <1>7, GroupsBecome DEF c, f
<1>8. ASSUME groups' = Scan!Closed, iterated, s.zero => a.image,
             \/ openGroup' = g /\ openLoop' = Scan!NoGroup
             \/ openGroup' = Scan!NoGroup /\ openLoop' = g
      PROVE  GroupsInv'
  <2>1. CanGrow(g, c, f)
    BY <1>2, <1>3, <1>8 DEF CanGrow
  <2>2. /\ AllOf(Scan!Closed, g, Scan!NoGroup) = G \cup {g}
        /\ AllOf(Scan!Closed, Scan!NoGroup, g) = G \cup {g}
    BY <1>2, <1>4 DEF AllOf
  <2>3. CASE openGroup' = g /\ openLoop' = Scan!NoGroup
    BY <2>1, <2>2, <2>3, <1>2, <1>4, <1>5, <1>6, <1>8, GroupsBecome DEF c, f
  <2>4. CASE openGroup' = Scan!NoGroup /\ openLoop' = g
    BY <2>1, <2>2, <2>4, <1>2, <1>4, <1>5, <1>6, <1>8, GroupsBecome DEF c, f
  <2> QED BY <2>3, <2>4, <1>8
<1> QED BY <1>7, <1>8

\* The new step in an open group, which may close.
LEMMA StepJoins ==
    ASSUME CompileInv, GroupsInv, NEW s \in Steps, NEW a \in FlagsType,
           NEW g, g # Scan!NoGroup, NEW h, h = Scan!Joined(g, Len(chain) + 1),
           chain' = Append(chain, s), flags' = Append(flags, a),
           \/ /\ g = openLoop /\ groups' = Append(groups, h)
              /\ openGroup' = openGroup /\ openLoop' = Scan!NoGroup
           \/ /\ g = openLoop /\ groups' = groups
              /\ openGroup' = openGroup /\ openLoop' = h
           \/ /\ g = openGroup /\ openLoop = Scan!NoGroup /\ groups' = groups
              /\ openGroup' = h /\ openLoop' = Scan!NoGroup
    PROVE  GroupsInv' /\ h # Scan!NoGroup
<1> DEFINE c == Append(chain, s)
           f == Append(flags, a)
           G == AllOf(groups, openGroup, openLoop)
<1>1. /\ chain \in Seq(Steps) /\ flags \in Seq(FlagsType) /\ Len(flags) = Len(chain) + 1
      /\ Sound(G, chain, flags)
      /\ groups \in Seq(Scan!GroupType) /\ openGroup \in Scan!GroupType
      /\ CanGrow(openGroup, chain, flags) /\ CanGrow(openLoop, chain, flags)
  BY DEF CompileInv, GroupsInv
<1>2. g \in G /\ CanGrow(g, chain, flags) /\ GroupOK(g, chain, flags)
  BY <1>1 DEF AllOf, Sound
<1>3. /\ GroupOK(h, c, f) /\ Holds(h, Len(chain) + 1)
      /\ \A i \in 1 .. Len(chain) : Holds(g, i) => Holds(h, i)
      /\ h \in Scan!GroupType /\ h # Scan!NoGroup /\ CanGrow(h, c, f)
  BY <1>1, <1>2, JoinsOne
<1>4. CanGrow(openGroup, c, f)
  <2>1. CASE openGroup = Scan!NoGroup
    BY <2>1 DEF CanGrow
  <2>2. CASE openGroup # Scan!NoGroup
    <3>1. openGroup \in G
      BY <2>2 DEF AllOf
    <3>2. GroupOK(openGroup, chain, flags)
      BY <3>1, <1>1 DEF Sound
    <3>3. FrontGives(openGroup, c, f) <=> FrontGives(openGroup, chain, flags)
      BY <3>2, <1>1, GroupStaysOK
    <3> QED BY <3>3, <1>1 DEF CanGrow
  <2> QED BY <2>1, <2>2
<1>5. Scan!NoGroup \in Scan!GroupType /\ CanGrow(Scan!NoGroup, c, f)
  BY NoGroupType DEF CanGrow
<1>6. /\ Append(groups, h) \in Seq(Scan!GroupType)
      /\ Members(Append(groups, h)) = Members(groups) \cup {h}
  BY <1>1, <1>3, MembersAppend
<1>7. ASSUME NEW H, \A x \in H : x \in G \/ x = h, \A x \in G : x \in H \/ x = g, h \in H
      PROVE  Sound(H, c, f)
  BY <1>1, <1>3, <1>7, Regrouped
<1>8. ASSUME g = openLoop, groups' = Append(groups, h),
             openGroup' = openGroup, openLoop' = Scan!NoGroup
      PROVE  GroupsInv'
  <2>1. Sound(AllOf(Append(groups, h), openGroup, Scan!NoGroup), c, f)
    <3> DEFINE H == AllOf(Append(groups, h), openGroup, Scan!NoGroup)
    <3>1. \A x \in H : x \in G \/ x = h
      BY <1>6 DEF AllOf
    <3>2. \A x \in G : x \in H \/ x = g
      BY <1>6, <1>8 DEF AllOf
    <3>3. h \in H
      BY <1>6 DEF AllOf
    <3> HIDE DEF H, G, c, f
    <3>4. Sound(H, c, f)
      BY <3>1, <3>2, <3>3, <1>7
    <3> QED BY <3>4 DEF H
  <2> QED BY <2>1, <1>1, <1>4, <1>5, <1>6, <1>8, GroupsBecome
<1>9. ASSUME g = openLoop, groups' = groups, openGroup' = openGroup, openLoop' = h
      PROVE  GroupsInv'
  <2>1. Sound(AllOf(groups, openGroup, h), c, f)
    <3> DEFINE H == AllOf(groups, openGroup, h)
    <3>1. \A x \in H : x \in G \/ x = h
      BY DEF AllOf
    <3>2. \A x \in G : x \in H \/ x = g
      BY <1>9 DEF AllOf
    <3>3. h \in H
      BY <1>3 DEF AllOf
    <3> HIDE DEF H, G, c, f
    <3>4. Sound(H, c, f)
      BY <3>1, <3>2, <3>3, <1>7
    <3> QED BY <3>4 DEF H
  <2> QED BY <2>1, <1>1, <1>3, <1>4, <1>9, GroupsBecome
<1>10. ASSUME g = openGroup, openLoop = Scan!NoGroup, groups' = groups,
              openGroup' = h, openLoop' = Scan!NoGroup
       PROVE  GroupsInv'
  <2>1. Sound(AllOf(groups, h, Scan!NoGroup), c, f)
    <3> DEFINE H == AllOf(groups, h, Scan!NoGroup)
    <3>1. \A x \in H : x \in G \/ x = h
      BY DEF AllOf
    <3>2. \A x \in G : x \in H \/ x = g
      BY <1>10 DEF AllOf
    <3>3. h \in H
      BY <1>3 DEF AllOf
    <3> HIDE DEF H, G, c, f
    <3>4. Sound(H, c, f)
      BY <3>1, <3>2, <3>3, <1>7
    <3> QED BY <3>4 DEF H
  <2> QED BY <2>1, <1>1, <1>3, <1>5, <1>10, GroupsBecome
<1> QED BY <1>3, <1>8, <1>9, <1>10

\* The new step takes the last group, of one step, into its own.
LEMMA StepRejoins ==
    ASSUME CompileInv, GroupsInv, NEW s \in Steps, NEW a \in FlagsType,
           openLoop = Scan!NoGroup, Scan!EndsWithOne(Scan!Closed),
           ~chain[Scan!Closed[Len(Scan!Closed)].steps[1]].zero,
           NEW h, h = Scan!Group(<<Scan!Closed[Len(Scan!Closed)].steps[1], Len(chain) + 1>>,
                                 TRUE, FALSE),
           chain' = Append(chain, s), flags' = Append(flags, a),
           \/ /\ groups' = Append(Scan!AllButLast(Scan!Closed), h)
              /\ openGroup' = Scan!NoGroup /\ openLoop' = Scan!NoGroup
           \/ /\ groups' = Scan!AllButLast(Scan!Closed)
              /\ openGroup' = h /\ openLoop' = Scan!NoGroup
    PROVE  GroupsInv'
<1> DEFINE c == Append(chain, s)
           f == Append(flags, a)
           G == AllOf(groups, openGroup, openLoop)
           g == Scan!Closed[Len(Scan!Closed)]
           rest == Scan!AllButLast(Scan!Closed)
<1>1. /\ chain \in Seq(Steps) /\ flags \in Seq(FlagsType) /\ Len(flags) = Len(chain) + 1
      /\ Sound(G, chain, flags)
  BY DEF CompileInv, GroupsInv
<1>2. Scan!Closed \in Seq(Scan!GroupType) /\ Members(Scan!Closed) = G
  BY MembersClosed DEF GroupsInv, AllOf
<1>3. Scan!Closed # <<>> /\ Len(g.steps) = 1
  BY DEF Scan!EndsWithOne
<1>4. /\ rest \in Seq(Scan!GroupType) /\ Members(rest) \subseteq G
      /\ G \subseteq Members(rest) \cup {g} /\ g \in G
  BY <1>2, <1>3, MembersButLast
<1>5. GroupOK(g, chain, flags)
  BY <1>1, <1>4 DEF Sound
<1> HIDE DEF g, rest, c, f, G
<1>6. /\ GroupOK(h, c, f) /\ Holds(h, Len(chain) + 1)
      /\ \A i \in 1 .. Len(chain) : Holds(g, i) => Holds(h, i)
      /\ h \in Scan!GroupType /\ h # Scan!NoGroup /\ CanGrow(h, c, f)
  <2>1. ~chain[g.steps[1]].zero
    BY DEF g
  <2>2. h = Scan!Group(<<g.steps[1], Len(chain) + 1>>, TRUE, FALSE)
    BY DEF g
  <2> QED BY <2>1, <2>2, <1>1, <1>3, <1>5, RejoinsOne DEF c, f
<1>7. /\ Append(rest, h) \in Seq(Scan!GroupType)
      /\ Members(Append(rest, h)) = Members(rest) \cup {h}
  BY <1>4, <1>6, MembersAppend
<1>8. Scan!NoGroup \in Scan!GroupType /\ CanGrow(Scan!NoGroup, c, f)
  BY NoGroupType DEF CanGrow
<1>9. Sound(Members(rest) \cup {h}, c, f)
  <2> DEFINE H == Members(rest) \cup {h}
  <2>1. \A x \in H : x \in G \/ x = h
    BY <1>4
  <2>2. \A x \in G : x \in H \/ x = g
    BY <1>4
  <2>3. h \in H
    OBVIOUS
  <2> HIDE DEF H
  <2>4. GroupOK(h, Append(chain, s), Append(flags, a))
    BY <1>6 DEF c, f
  <2>5. /\ Holds(h, Len(chain) + 1)
        /\ \A i \in 1 .. Len(chain) : Holds(g, i) => Holds(h, i)
    BY <1>6
  <2>6. Sound(H, Append(chain, s), Append(flags, a))
    BY <2>1, <2>2, <2>3, <2>4, <2>5, <1>1, Regrouped
  <2> QED BY <2>6 DEF c, f, H
<1>10. ASSUME groups' = Append(rest, h), openGroup' = Scan!NoGroup, openLoop' = Scan!NoGroup
       PROVE  GroupsInv'
  <2>1. AllOf(Append(rest, h), Scan!NoGroup, Scan!NoGroup) = Members(rest) \cup {h}
    BY <1>7 DEF AllOf
  <2> QED BY <2>1, <1>7, <1>8, <1>9, <1>10, GroupsBecome DEF c, f
<1>11. ASSUME groups' = rest, openGroup' = h, openLoop' = Scan!NoGroup
       PROVE  GroupsInv'
  <2>1. AllOf(rest, h, Scan!NoGroup) = Members(rest) \cup {h}
    BY <1>6 DEF AllOf
  <2> QED BY <2>1, <1>4, <1>6, <1>8, <1>9, <1>11, GroupsBecome DEF c, f
<1> QED BY <1>10, <1>11 DEF rest

LEMMA LastIsInChain ==
    ASSUME GroupsInv, openLoop = Scan!NoGroup, Scan!EndsWithOne(Scan!Closed)
    PROVE  Scan!Closed[Len(Scan!Closed)].steps[1] \in 1 .. Len(chain)
<1> DEFINE g == Scan!Closed[Len(Scan!Closed)]
<1>1. /\ Scan!Closed \in Seq(Scan!GroupType)
      /\ Members(Scan!Closed) = AllOf(groups, openGroup, openLoop)
  BY MembersClosed DEF GroupsInv, AllOf
<1>2. g \in Members(Scan!Closed)
  BY <1>1, MembersButLast DEF Scan!EndsWithOne
<1>3. GroupOK(g, chain, flags)
  BY <1>1, <1>2 DEF GroupsInv, Sound
<1>4. g.steps \in Seq(Nat) /\ Len(g.steps) = 1
  BY <1>3 DEF GroupOK, Scan!GroupType, Scan!EndsWithOne
<1>5. 1 \in 1 .. Len(g.steps)
  BY <1>4, ShortSequences
<1> QED BY <1>3, <1>5 DEF GroupOK

\* What the compiler's step does to the scan: it never throws, the region it
\* leaves open is the compiler's, and the groups stay sound.
LEMMA TakenStep ==
    ASSUME CompileInv, LoopInv, GroupsInv, NEW s \in Steps, CompileStep(s)
    PROVE  LoopInv' /\ GroupsInv'
<1> DEFINE a == FlagsAfter(s)
           n == Len(chain) + 1
<1>1. /\ phase = "compile" /\ phase' = "compile" /\ Accepts(s)
      /\ chain' = Append(chain, s) /\ flags' = Append(flags, a) /\ Scans(s.scan)
      /\ outcome = "scanning" /\ (openLoop # Scan!NoGroup <=> Flags.loop)
  BY DEF CompileStep, LoopInv
<1>2. /\ a \in FlagsType
      /\ s.scan.boundary => ~Flags.loop
      /\ s.scan.role = "begin" => ~Flags.loop
      /\ s.scan.role = "end" => Flags.loop
      /\ a.loop <=> s.scan.role = "begin" \/ (Flags.loop /\ s.scan.role # "end")
      /\ Link(n, s, Flags, a)
  BY <1>1, AcceptedStep
<1>3. Flags' = a
  <2>1. flags \in Seq(FlagsType)
    BY DEF CompileInv
  <2>2. Len(flags') = Len(flags) + 1 /\ flags'[Len(flags) + 1] = a
    BY <2>1, <1>1, <1>2, AppendProperties
  <2> QED BY <2>2 DEF Flags
<1>4. /\ s.scan.boundary <=> s.kind # "effect"
      /\ s.scan \in Scan!StepType
      /\ s.kind # "effect" => ~s.scan.iterated /\ s.effect.domain = "image"
      /\ s.scan.role = "begin" <=> s.effect.domain = "loop-begin"
      /\ s.scan.role = "end" <=> s.effect.domain = "loop-end"
      /\ s.scan.declaresXyz => s.scan.iterated /\ s.effect.domain = "image"
  BY PlanStepsAssumption, PlanCatalogAssumption DEF NoEffect, Effect
<1>5. Scan!Index = n
  BY ScanView
<1>6. s.kind = "effect" /\ s.effect.domain \notin {"volume-generator", "volume-filter"} => a.image
  BY <1>2 DEF Link
<1>7. /\ s.scan.iterated \in BOOLEAN /\ s.scan.role \in {"none", "begin", "end"}
  BY <1>4 DEF Scan!StepType
<1>8. s.scan.boundary => s.scan.role = "none"
  BY <1>4, <1>7
<1> HIDE DEF a, n
<1>9. SUFFICES outcome' = "scanning" /\ (openLoop' # Scan!NoGroup <=> a.loop) /\ GroupsInv'
  BY <1>1, <1>3 DEF LoopInv
<1>10. CASE Scan!LoopStep(s.scan)
  <2>1. openLoop # Scan!NoGroup /\ Flags.loop /\ ~s.scan.boundary /\ s.scan.role # "begin"
    BY <1>1, <1>2, <1>10 DEF Scan!LoopStep, Scan!InLoop
  <2>2. PICK h : h = Scan!Joined(openLoop, n)
    OBVIOUS
  <2>3. CASE s.scan.role = "end"
    <3>1. /\ groups' = Append(groups, h) /\ openGroup' = openGroup
          /\ openLoop' = Scan!NoGroup /\ outcome' = outcome
      BY <1>5, <1>10, <2>1, <2>2, <2>3 DEF Scan!LoopStep, Scan!Continue
    <3>2. GroupsInv'
      BY <1>1, <1>2, <2>1, <2>2, <3>1, StepJoins DEF n
    <3> QED BY <1>1, <1>2, <2>1, <2>3, <3>1, <3>2
  <2>4. CASE s.scan.role # "end"
    <3>1. /\ groups' = groups /\ openGroup' = openGroup
          /\ openLoop' = h /\ outcome' = outcome
      BY <1>5, <1>10, <2>1, <2>2, <2>4 DEF Scan!LoopStep, Scan!Continue
    <3>2. GroupsInv' /\ h # Scan!NoGroup
      BY <1>1, <1>2, <2>1, <2>2, <3>1, StepJoins DEF n
    <3> QED BY <1>1, <1>2, <2>1, <2>4, <3>1, <3>2
  <2> QED BY <2>3, <2>4
<1>11. CASE Scan!BoundaryStep(s.scan)
  <2>1. PICK g : g = Scan!Group(<<n>>, FALSE, FALSE)
    OBVIOUS
  <2>2. /\ openLoop = Scan!NoGroup /\ s.scan.boundary
        /\ groups' = Append(Scan!Closed, g) /\ openGroup' = Scan!NoGroup
        /\ openLoop' = Scan!NoGroup /\ outcome' = outcome
    BY <1>5, <1>11, <2>1 DEF Scan!BoundaryStep, Scan!InLoop, Scan!Continue
  <2>3. GroupsInv'
    BY <1>1, <1>2, <1>4, <2>1, <2>2, StepAlone DEF n
  <2> QED BY <1>1, <1>2, <1>8, <2>2, <2>3
<1>12. CASE Scan!UnmatchedEnd(s.scan)
  <2>1. openLoop = Scan!NoGroup /\ s.scan.role = "end"
    BY <1>12 DEF Scan!UnmatchedEnd, Scan!EffectOutsideLoop, Scan!InLoop
  <2> QED BY <1>1, <1>2, <2>1
<1>13. CASE Scan!LoopBegins(s.scan)
  <2>1. PICK g : g = Scan!Group(<<n>>, TRUE, TRUE)
    OBVIOUS
  <2>2. /\ openLoop = Scan!NoGroup /\ ~s.scan.boundary /\ s.scan.role = "begin"
        /\ groups' = Scan!Closed /\ openGroup' = Scan!NoGroup
        /\ openLoop' = g /\ outcome' = outcome
    BY <1>5, <1>13, <2>1
    DEF Scan!LoopBegins, Scan!EffectOutsideLoop, Scan!InLoop, Scan!Continue
  <2>3. a.image
    BY <1>4, <1>6, <2>2
  <2>4. GroupsInv'
    BY <1>1, <1>2, <2>1, <2>2, <2>3, StepAlone DEF n
  <2>5. g # Scan!NoGroup
    BY <2>1 DEF Scan!NoGroup, Scan!Group
  <2> QED BY <1>1, <1>2, <2>2, <2>4, <2>5
<1>14. CASE Scan!OpensParticles(s.scan)
  <2>1. /\ openLoop = Scan!NoGroup /\ ~s.scan.boundary /\ s.scan.role = "none"
        /\ s.scan.declaresXyz
    BY <1>14 DEF Scan!OpensParticles, Scan!EffectOutsideLoop, Scan!InLoop
  <2>2. a.image /\ s.scan.iterated = TRUE /\ ~a.loop
    BY <1>1, <1>2, <1>4, <1>6, <1>7, <2>1
  <2>3. CASE Scan!RejoinsImage(s.scan)
    <3> DEFINE m == Scan!Closed[Len(Scan!Closed)].steps[1]
    <3>1. PICK h : h = Scan!Group(<<m, n>>, TRUE, FALSE)
      OBVIOUS
    <3>2. /\ Scan!EndsWithOne(Scan!Closed) /\ ~Scan!LastStep(Scan!Closed).iterated
      BY <2>3 DEF Scan!RejoinsImage, Scan!IsAnimatedImageGenerator
    <3>3. ~chain[m].zero
      <4>1. m \in 1 .. Len(chain)
        BY <2>1, <3>2, LastIsInChain
      <4>2. chain[m] \in Steps
        BY <4>1, ElementOfSeq DEF CompileInv
      <4>3. ~chain[m].scan.iterated
        BY <4>1, <3>2, ScanView
      <4> QED BY <4>2, <4>3, PlanCatalogAssumption
    <3>4. /\ groups' = Scan!AllButLast(Scan!Closed) /\ openGroup' = h
          /\ openLoop' = Scan!NoGroup /\ outcome' = outcome
      BY <1>5, <1>14, <2>2, <2>3, <3>1
      DEF Scan!OpensParticles, Scan!Continue, Scan!GroupWithImage
    <3>5. GroupsInv'
      BY <1>1, <1>2, <2>1, <3>1, <3>2, <3>3, <3>4, StepRejoins DEF n
    <3> QED BY <1>1, <2>2, <3>4, <3>5
  <2>4. CASE ~Scan!RejoinsImage(s.scan)
    <3>1. PICK g : g = Scan!Group(<<n>>, TRUE, FALSE)
      OBVIOUS
    <3>2. /\ groups' = Scan!Closed /\ openGroup' = g
          /\ openLoop' = Scan!NoGroup /\ outcome' = outcome
      BY <1>5, <1>14, <2>2, <2>4, <3>1 DEF Scan!OpensParticles, Scan!Continue
    <3>3. GroupsInv'
      BY <1>1, <1>2, <2>1, <2>2, <3>1, <3>2, StepAlone DEF n
    <3> QED BY <1>1, <2>2, <3>2, <3>3
  <2> QED BY <2>3, <2>4
<1>15. CASE Scan!JoinStep(s.scan)
  <2>1. PICK h : h = Scan!Joined(openGroup, n)
    OBVIOUS
  <2>2. /\ openLoop = Scan!NoGroup /\ s.scan.role = "none" /\ openGroup # Scan!NoGroup
        /\ groups' = groups /\ openGroup' = h
        /\ openLoop' = Scan!NoGroup /\ outcome' = outcome
    BY <1>5, <1>15, <2>1
    DEF Scan!JoinStep, Scan!JoinsParticles, Scan!EffectOutsideLoop, Scan!InLoop, Scan!Continue
  <2>3. GroupsInv'
    BY <1>1, <1>2, <2>1, <2>2, StepJoins DEF n
  <2> QED BY <1>1, <1>2, <2>2, <2>3
<1>16. CASE Scan!FlowStep(s.scan)
  <2>1. /\ openLoop = Scan!NoGroup /\ s.scan.role = "none" /\ openGroup = Scan!NoGroup
        /\ Scan!EndsWithOne(groups) /\ Scan!LastStep(groups).id = "noise3d"
    BY <1>16 DEF Scan!FlowStep, Scan!RejoinsNoise, Scan!EffectOutsideLoop, Scan!InLoop
  <2>2. Scan!Closed = groups
    BY <2>1 DEF Scan!Closed
  <2> DEFINE m == Scan!Closed[Len(Scan!Closed)].steps[1]
  <2>3. PICK h : h = Scan!Group(<<m, n>>, TRUE, FALSE)
    OBVIOUS
  <2>4. ~chain[m].zero
    <3>1. m \in 1 .. Len(chain)
      BY <2>1, <2>2, LastIsInChain
    <3>2. chain[m] \in Steps
      BY <3>1, ElementOfSeq DEF CompileInv
    <3>3. chain[m].scan.id = "noise3d"
      BY <3>1, <2>1, <2>2, ScanView
    <3> QED BY <3>2, <3>3, PlanCatalogAssumption
  <2>5. /\ groups' = Append(Scan!AllButLast(Scan!Closed), h) /\ openGroup' = Scan!NoGroup
        /\ openLoop' = Scan!NoGroup /\ outcome' = outcome
    BY <1>5, <1>16, <2>2, <2>3 DEF Scan!FlowStep, Scan!Continue
  <2>6. GroupsInv'
    BY <1>1, <1>2, <2>1, <2>2, <2>3, <2>4, <2>5, StepRejoins DEF n
  <2> QED BY <1>1, <1>2, <2>1, <2>5, <2>6
<1>17. CASE Scan!SingleStep(s.scan)
  <2>1. PICK g : g = Scan!Group(<<n>>, s.scan.iterated, FALSE)
    OBVIOUS
  <2>2. /\ openLoop = Scan!NoGroup /\ s.scan.role = "none"
        /\ groups' = Append(Scan!Closed, g) /\ openGroup' = Scan!NoGroup
        /\ openLoop' = Scan!NoGroup /\ outcome' = outcome
    BY <1>5, <1>17, <2>1 DEF Scan!SingleStep, Scan!EffectOutsideLoop, Scan!InLoop, Scan!Continue
  <2>3. GroupsInv'
    BY <1>1, <1>2, <1>7, <2>1, <2>2, StepAlone DEF n
  <2> QED BY <1>1, <1>2, <2>2, <2>3
<1> QED BY <1>1, <1>10, <1>11, <1>12, <1>13, <1>14, <1>15, <1>16, <1>17 DEF Scans

\* The chain ends: no region is open, so that the scan is done.
LEMMA TakenEnd ==
    ASSUME CompileInv, LoopInv, GroupsInv, EndCompile
    PROVE  LoopInv' /\ GroupsInv' /\ CompileInv'
<1>1. /\ phase = "compile" /\ phase' = "admit" /\ ~Flags.loop /\ Scan!Finish
      /\ chain' = chain /\ flags' = flags
  BY DEF EndCompile
<1>2. openLoop = Scan!NoGroup
  BY <1>1 DEF LoopInv
<1>3. /\ outcome' = "done" /\ groups' = Scan!Closed
      /\ openGroup' = Scan!NoGroup /\ openLoop' = Scan!NoGroup
  BY <1>1, <1>2 DEF Scan!Finish, Scan!InLoop
<1>4. LoopInv'
  BY <1>1, <1>3 DEF LoopInv
<1>5. /\ Scan!Closed \in Seq(Scan!GroupType)
      /\ Members(Scan!Closed) = AllOf(groups, openGroup, openLoop)
  BY <1>2, MembersClosed DEF GroupsInv, AllOf
<1>6. AllOf(Scan!Closed, Scan!NoGroup, Scan!NoGroup) = AllOf(groups, openGroup, openLoop)
  BY <1>5 DEF AllOf
<1>7. Scan!NoGroup \in Scan!GroupType /\ CanGrow(Scan!NoGroup, chain, flags)
  BY NoGroupType DEF CanGrow
<1>8. Sound(AllOf(Scan!Closed, Scan!NoGroup, Scan!NoGroup), chain, flags)
  BY <1>6 DEF GroupsInv
<1>9. GroupsInv'
  BY <1>1, <1>3, <1>5, <1>7, <1>8, GroupsBecome
<1>10. CompileInv'
  BY <1>1 DEF CompileInv
<1> QED BY <1>4, <1>9, <1>10

-----------------------------------------------------------------------------
\* The dry run.

\* The group of a step has the step, and is sound.
LEMMA GroupOfStep ==
    ASSUME LoopInv, GroupsInv, phase # "compile", NEW i \in 1 .. Len(chain)
    PROVE  GroupOK(TheGroup(i), chain, flags) /\ Holds(TheGroup(i), i)
<1> DEFINE Has(k) == \E p \in 1 .. Len(groups[k].steps) : groups[k].steps[p] = i
<1>1. AllOf(groups, openGroup, openLoop) = Members(groups)
  BY DEF LoopInv, AllOf
<1>2. \E g \in Members(groups) : Holds(g, i)
  BY <1>1 DEF GroupsInv, Sound
<1>3. \E k \in 1 .. Len(groups) : Has(k)
  BY <1>2 DEF Members, Holds
<1>4. PICK k : k = CHOOSE j \in 1 .. Len(groups) : Has(j)
  OBVIOUS
<1>5. k \in 1 .. Len(groups) /\ Has(k)
  BY <1>3, <1>4
<1>6. TheGroup(i) = groups[k]
  BY <1>4 DEF TheGroup
<1>7. groups[k] \in Members(groups)
  BY <1>5 DEF Members
<1> QED BY <1>1, <1>5, <1>6, <1>7 DEF GroupsInv, Sound, Holds

\* What a step that runs hands on keeps the flags.
LEMMA BundleAfterKeeps ==
    ASSUME CompileInv, LoopInv, GroupsInv, phase # "compile",
           at \in 1 .. Len(chain), chain[at].kind = "effect", NEW available,
           flags[at].image => dry.bundle["image"], flags[at].volume => dry.bundle["volume"]
    PROVE  LET bundle == BundleAfter(chain[at], TheGroup(at), available)
           IN  /\ flags[at + 1].image => bundle["image"]
               /\ flags[at + 1].volume => bundle["volume"]
<1> DEFINE s == chain[at]
           g == TheGroup(at)
           out == s.effect.outputTex3d
           bundle == BundleAfter(s, g, available)
           known == dry.produced \cup Outputs(s) \cup available \cup ClearedTextures(s)
                      \cup (IF g.iterated THEN s.textures ELSE {})
<1>1. s \in Steps /\ Link(at, s, flags[at], flags[at + 1])
  BY ElementOfSeq DEF CompileInv
<1>2. /\ bundle["image"] <=> dry.bundle["image"] \/ "outputTex" \in Outputs(s)
      /\ PassesThrough(out) => bundle["volume"] = dry.bundle["volume"]
      /\ ~PassesThrough(out) => (bundle["volume"] <=> out \in known)
  BY DEF BundleAfter
<1>3. s.scan.iterated => g.iterated
  BY GroupOfStep DEF GroupOK, Holds
<1> HIDE DEF s, g, bundle
<1>4. flags[at + 1].image => bundle["image"]
  <2>1. CASE flags[at].image
    BY <2>1, <1>2
  <2>2. CASE ~flags[at].image
    <3>1. flags[at + 1].image => s.effect.domain \notin {"volume-generator", "volume-filter"}
      BY <2>2, <1>1 DEF Link, s
    <3>2. s.effect.domain \notin {"volume-generator", "volume-filter"} =>
             "outputTex" \in Outputs(s)
      BY <1>1, PlanCatalogAssumption DEF s
    <3> QED BY <3>1, <3>2, <1>2
  <2> QED BY <2>1, <2>2
<1>5. flags[at + 1].volume => bundle["volume"]
  <2>1. CASE PassesThrough(out)
    <3>1. s.effect.domain # "volume-generator"
      BY <2>1, <1>1, PlanCatalogAssumption
    <3>2. flags[at + 1].volume => flags[at].volume
      BY <3>1, <1>1 DEF Link, s
    <3> QED BY <2>1, <3>2, <1>2
  <2>2. CASE ~PassesThrough(out)
    <3>1. out \in Outputs(s) \/ (s.scan.iterated /\ out \in s.textures)
      BY <2>2, <1>1, PlanCatalogAssumption
    <3>2. out \in known
      BY <3>1, <1>3
    <3> QED BY <2>2, <3>2, <1>2
  <2> QED BY <2>1, <2>2
<1> QED BY <1>4, <1>5 DEF s, g, bundle

\* So does a group that runs no tick.
LEMMA PreflightZeroKeeps ==
    ASSUME CompileInv, LoopInv, GroupsInv, phase # "compile",
           at \in 1 .. Len(chain), chain[at].kind = "effect",
           chain[TheGroup(at).steps[1]].zero,
           at = 1 => dry.bundle = EmptyBundle,
           flags[at].image => dry.bundle["image"], flags[at].volume => dry.bundle["volume"]
    PROVE  LET bundle == PreflightZero(chain[at], at = TheGroup(at).steps[1])
           IN  /\ flags[at + 1].image => bundle["image"]
               /\ flags[at + 1].volume => bundle["volume"]
<1> DEFINE s == chain[at]
           g == TheGroup(at)
           bundle == PreflightZero(s, at = g.steps[1])
<1>1. s \in Steps /\ Link(at, s, flags[at], flags[at + 1])
  BY ElementOfSeq DEF CompileInv
<1>2. GroupOK(g, chain, flags) /\ Holds(g, at)
  BY GroupOfStep
<1>3. PICK f \in Nat : f = g.steps[1] /\ f \in 1 .. Len(chain) /\ (at = f \/ f < at)
  <2>1. g.steps \in Seq(Nat) /\ g.steps # <<>>
    BY <1>2 DEF GroupOK, Scan!GroupType
  <2>2. g.steps[1] \in Nat /\ 1 \in 1 .. Len(g.steps)
    BY <2>1, EmptySeq
  <2> QED BY <2>2, <1>2 DEF GroupOK, Holds
<1>4. Len(chain) \in Nat /\ at \in Nat /\ Len(flags) = Len(chain) + 1
  BY LenProperties DEF CompileInv
<1>5. chain[f] \in Steps /\ chain[f].zero
  BY <1>3, ElementOfSeq DEF CompileInv
<1>6. /\ s.effect.domain \in {"image", "volume-generator", "volume-filter",
                              "volume-renderer", "loop-begin", "loop-end"}
      /\ s.zero => s.effect.domain # "volume-renderer"
      /\ s.zero /\ s.effect.domain = "image" => s.effect.opens \/ SamplesImage(s)
  BY <1>1, PlanCatalogAssumption
<1> HIDE DEF s, g
<1>7. CASE at # f
  <2>1. bundle = dry.bundle
    BY <1>3, <1>7 DEF PreflightZero
  <2>2. Len(g.steps) > 1
    <3>1. PICK p \in 1 .. Len(g.steps) : g.steps[p] = at
      BY <1>2 DEF Holds
    <3>2. g.steps \in Seq(Nat)
      BY <1>2 DEF GroupOK, Scan!GroupType
    <3>3. PICK n \in Nat : n = Len(g.steps)
      BY <3>2, LenProperties
    <3>4. p # 1
      BY <3>1, <1>3, <1>7
    <3>5. n > 1
      BY <3>1, <3>3, <3>4
    <3> QED BY <3>3, <3>5
  <2>3. flags[f + 1].image
    BY <2>2, <1>2, <1>3, <1>5 DEF GroupOK, FrontGives
  <2>4. f + 1 \in 1 .. Len(flags) /\ at \in 1 .. Len(flags) /\ f + 1 <= at
    BY <1>3, <1>4, <1>7
  <2>5. flags[at].image
    BY <2>3, <2>4 DEF CompileInv
  <2>6. s.effect.domain = "volume-generator" => flags[at].volume
    <3>1. at # 1
      BY <1>3, <1>7
    <3> QED BY <3>1, <1>1 DEF Link, s
  <2>7. flags[at + 1].volume => flags[at].volume
    BY <2>6, <1>1 DEF Link, s
  <2> QED BY <2>1, <2>5, <2>7 DEF s, g
<1>8. CASE at = f /\ ~IsEmpty(dry.bundle)
  <2>1. bundle = dry.bundle
    BY <1>3, <1>8 DEF PreflightZero
  <2>2. at # 1
    BY <1>8 DEF IsEmpty, EmptyBundle
  <2>3. s.zero
    BY <1>5, <1>8 DEF s
  <2>4. flags[at + 1].volume => flags[at].volume
    BY <1>1, <2>2 DEF Link, s
  <2>5. flags[at + 1].image => flags[at].image
    BY <1>1, <1>6, <2>2, <2>3 DEF Link, s
  <2> QED BY <2>1, <2>4, <2>5 DEF s, g
<1>9. CASE at = f /\ IsEmpty(dry.bundle)
  <2>1. ~flags[at].image /\ ~flags[at].volume
    BY <1>9 DEF IsEmpty, Components
  <2>2. CASE s.effect.domain = "volume-generator"
    <3>1. bundle["volume"]
      BY <1>3, <1>9, <2>2 DEF PreflightZero
    <3>2. ~flags[at + 1].image
      BY <1>1, <2>1, <2>2 DEF Link, s
    <3> QED BY <3>1, <3>2 DEF s, g
  <2>3. CASE s.effect.domain # "volume-generator"
    <3>1. bundle = ImageOnly
      BY <1>3, <1>9, <2>3 DEF PreflightZero
    <3>2. bundle["image"]
      BY <3>1 DEF ImageOnly, EmptyBundle, Components
    <3>3. ~flags[at + 1].volume
      BY <1>1, <2>1, <2>3 DEF Link, s
    <3> QED BY <3>2, <3>3 DEF s, g
  <2> QED BY <2>2, <2>3
<1> QED BY <1>3, <1>7, <1>8, <1>9

\* The dry run believes in a bundle that keeps the flags after the step.
LEMMA Believed ==
    ASSUME IInv, phase = "preflight", at <= Len(chain),
           NEW bundle, NEW produced, NEW available, Believes(bundle, produced, available),
           flags[at + 1].image => bundle["image"], flags[at + 1].volume => bundle["volume"]
    PROVE  IInv'
<1>1. /\ dry' = [bundle |-> bundle, produced |-> produced, available |-> available,
                 log |-> Append(dry.log, [bundle |-> bundle, available |-> available])]
      /\ at' = at + 1 /\ chain' = chain /\ flags' = flags /\ phase' = phase
      /\ groups' = groups /\ openGroup' = openGroup /\ openLoop' = openLoop
      /\ outcome' = outcome
  BY DEF Believes, scanVars
<1>2. PhaseType' /\ CompileInv' /\ LoopInv' /\ GroupsInv'
  <2>1. PhaseType' /\ CompileInv' /\ LoopInv'
    BY <1>1 DEF IInv, PhaseType, CompileInv, LoopInv, Flags
  <2>2. GroupsInv'
    BY <1>1 DEF IInv, GroupsInv, CanGrow, Sound, AllOf, Members
  <2> QED BY <2>1, <2>2
<1>3. PICK S : dry.log \in Seq(S)
  BY DEF IInv, DryInv, LogIsSequence
<1>4. PICK m \in Nat : m = Len(dry.log) /\ at = m + 1
  BY <1>3, LenProperties DEF IInv, DryInv
<1> DEFINE entry == [bundle |-> bundle, available |-> available]
           S2 == S \cup {entry}
           log == Append(dry.log, entry)
<1>5. dry.log \in Seq(S2)
  <2>1. \A i \in 1 .. Len(dry.log) : dry.log[i] \in S2
    BY <1>3, ElementOfSeq
  <2> QED BY <2>1, <1>3
<1>6. /\ log \in Seq(S2) /\ Len(log) = m + 1 /\ log[m + 1] = entry
      /\ \A i \in 1 .. m : log[i] = dry.log[i]
  BY <1>4, <1>5, AppendProperties
<1>7. dry'.log = log /\ dry'.bundle = bundle
  BY <1>1
<1>8. entry.bundle = bundle
  OBVIOUS
<1> HIDE DEF entry, log, S2
<1>9. Len(chain) \in Nat
  BY LenProperties DEF IInv, CompileInv
<1>10. FlagsAreKept'
  <2>1. ASSUME NEW i \in 1 .. Len(log)
        PROVE  /\ flags[i + 1].image  => log[i].bundle["image"]
               /\ flags[i + 1].volume => log[i].bundle["volume"]
    <3>1. CASE i = m + 1
      BY <3>1, <1>4, <1>6, <1>8
    <3>2. CASE i \in 1 .. m
      <4>1. i \in 1 .. Len(dry.log) /\ log[i] = dry.log[i]
        BY <3>2, <1>4, <1>6
      <4> QED BY <4>1 DEF IInv, DryInv, FlagsAreKept
    <3> QED BY <3>1, <3>2, <1>6
  <2> QED BY <2>1, <1>1, <1>7 DEF FlagsAreKept
<1>11. DryInv'
  <2>1. /\ phase' = "preflight" /\ at' = m + 2 /\ at' = at + 1
        /\ Len(dry'.log) = m + 1 /\ at' # 1 /\ at' <= Len(chain) + 1
    BY <1>1, <1>4, <1>6, <1>7, <1>9
  <2>2. LogIsSequence'
    BY <1>6, <1>7 DEF LogIsSequence
  <2>3. flags'[at'].image => dry'.bundle["image"]
    BY <1>1, <1>7
  <2>4. flags'[at'].volume => dry'.bundle["volume"]
    BY <1>1, <1>7
  <2>5. at' = Len(dry'.log) + 1 /\ at' <= Len(chain') + 1
    BY <1>1, <2>1
  <2> QED BY <1>10, <2>1, <2>2, <2>3, <2>4, <2>5 DEF DryInv
<1> QED BY <1>2, <1>11 DEF IInv

\* Nothing that the invariant is about changes, but for the phase.
LEMMA Moves ==
    ASSUME IInv,
           UNCHANGED <<chain, flags, groups, openGroup, openLoop, outcome, dry>>,
           phase # "compile",
           \/ phase' \in {"execute", "done", "rejected", "failed"}
           \/ phase = "admit" /\ phase' = "preflight" /\ UNCHANGED at
           \/ phase' = phase /\ UNCHANGED at
    PROVE  IInv'
<1>1. PhaseType' /\ CompileInv' /\ LoopInv' /\ GroupsInv'
  <2>1. PhaseType'
    BY DEF IInv, PhaseType
  <2>2. CompileInv'
    BY DEF IInv, CompileInv
  <2>3. LoopInv'
    BY DEF IInv, LoopInv
  <2>4. GroupsInv'
    BY DEF IInv, GroupsInv, CanGrow, Sound, AllOf, Members
  <2> QED BY <2>1, <2>2, <2>3, <2>4
<1>2. FlagsAreKept' /\ LogIsSequence'
  BY DEF IInv, DryInv, FlagsAreKept, LogIsSequence
<1>3. CASE phase' \in {"execute", "done", "rejected", "failed"}
  <2>1. phase' \notin {"compile", "admit"} /\ phase' # "preflight"
    BY <1>3
  <2>2. DryInv'
    BY <1>2, <2>1 DEF DryInv
  <2> QED BY <2>2, <1>1 DEF IInv
<1>4. CASE phase = "admit" /\ phase' = "preflight" /\ UNCHANGED at
  <2>1. /\ dry.log = <<>> /\ dry.bundle = EmptyBundle /\ at = 1
        /\ flags[1] = NoFlags /\ Len(chain) \in Nat
    BY <1>4, LenProperties DEF IInv, DryInv, CompileInv
  <2>2. /\ dry'.log = <<>> /\ dry'.bundle = EmptyBundle /\ at' = 1
        /\ flags'[at'] = NoFlags /\ Len(chain') \in Nat
    BY <1>4, <2>1
  <2>3. Len(dry'.log) = 0 /\ ~flags'[at'].image /\ ~flags'[at'].volume /\ at' <= Len(chain') + 1
    BY <2>2, EmptySeq DEF NoFlags
  <2>4. phase' = "preflight" /\ at' = Len(dry'.log) + 1
    BY <1>4, <2>2, <2>3
  <2>5. DryInv'
    BY <1>2, <2>2, <2>3, <2>4 DEF DryInv
  <2> QED BY <2>5, <1>1 DEF IInv
<1>5. CASE phase' = phase /\ UNCHANGED at
  <2>1. DryInv'
    BY <1>2, <1>5 DEF IInv, DryInv
  <2> QED BY <2>1, <1>1 DEF IInv
<1> QED BY <1>1, <1>3, <1>4, <1>5 DEF IInv

-----------------------------------------------------------------------------

LEMMA InitIInv == Init => IInv
<1> SUFFICES ASSUME Init PROVE IInv
  OBVIOUS
<1>1. /\ chain = <<>> /\ flags = <<NoFlags>> /\ phase = "compile" /\ at = 1
      /\ dry.log = <<>> /\ dry.bundle = EmptyBundle
  BY DEF Init, NoFlags
<1>2. /\ groups = <<>> /\ openGroup = Scan!NoGroup /\ openLoop = Scan!NoGroup
      /\ outcome = "scanning"
  BY DEF Init, Scan!Init
<1>3. PhaseType
  BY <1>1 DEF PhaseType
<1>4. /\ <<NoFlags>> \in Seq(FlagsType) /\ Len(<<NoFlags>>) = 1 /\ <<NoFlags>>[1] = NoFlags
      /\ Len(<<>>) = 0
  BY EmptySeq DEF FlagsType, NoFlags
<1>5. CompileInv
  <2>1. chain \in Seq(Steps) /\ flags \in Seq(FlagsType) /\ Len(chain) = 0 /\ Len(flags) = 1
    BY <1>1, <1>4
  <2>2. \A i \in 1 .. Len(chain) : Link(i, chain[i], flags[i], flags[i + 1])
    BY <2>1
  <2>3. ASSUME NEW i \in 1 .. Len(flags), NEW j \in 1 .. Len(flags)
        PROVE  (flags[i].image => flags[j].image) /\ (flags[i].volume => flags[j].volume)
    <3>1. 1 .. Len(flags) = {1}
      BY <2>1
    <3> QED BY <3>1
  <2> QED BY <1>1, <1>4, <2>1, <2>2, <2>3 DEF CompileInv
<1>6. LoopInv
  <2>1. Flags = NoFlags
    BY <1>1, <1>4 DEF Flags
  <2> QED BY <1>1, <1>2, <2>1 DEF LoopInv, NoFlags
<1>7. GroupsInv
  <2>1. AllOf(groups, openGroup, openLoop) = {}
    <3>1. Len(groups) = 0
      BY <1>2, EmptySeq
    <3> QED BY <3>1, <1>2 DEF AllOf, Members
  <2>2. 1 .. Len(chain) = {}
    BY <1>1, <1>4
  <2>3. groups \in Seq(Scan!GroupType)
    BY <1>2, EmptySeq
  <2> QED BY <1>2, <2>1, <2>2, <2>3, NoGroupType DEF GroupsInv, CanGrow, Sound
<1>8. DryInv
  <2>1. 1 .. Len(dry.log) = {}
    BY <1>1, <1>4
  <2>2. LogIsSequence
    BY <1>1, EmptySeq DEF LogIsSequence
  <2> QED BY <1>1, <2>1, <2>2 DEF DryInv, FlagsAreKept
<1> QED BY <1>3, <1>5, <1>6, <1>7, <1>8 DEF IInv

LEMMA CompilePreserves ==
    ASSUME IInv, \/ \E s \in Steps : CompileStep(s)
                 \/ EndCompile
    PROVE  IInv'
<1>1. CompileInv' /\ LoopInv' /\ GroupsInv'
  BY CompileStepFlags, TakenStep, TakenEnd DEF IInv
<1>2. /\ phase = "compile" /\ phase' \in {"compile", "admit"} /\ dry' = dry /\ at' = at
  BY DEF CompileStep, EndCompile
<1>3. dry.log = <<>> /\ dry.bundle = EmptyBundle /\ at = 1
  BY <1>2 DEF IInv, DryInv
<1>4. dry'.log = <<>> /\ dry'.bundle = EmptyBundle /\ at' = 1 /\ phase' # "preflight"
  BY <1>2, <1>3
<1>5. FlagsAreKept'
  <2>1. 1 .. Len(dry'.log) = {}
    BY <1>4, EmptySeq
  <2> QED BY <2>1 DEF FlagsAreKept
<1>6. LogIsSequence'
  BY <1>4, EmptySeq DEF LogIsSequence
<1>7. DryInv'
  BY <1>2, <1>4, <1>5, <1>6 DEF DryInv
<1>8. PhaseType'
  BY <1>2 DEF PhaseType
<1> QED BY <1>1, <1>7, <1>8 DEF IInv

LEMMA PreflightPreserves ==
    ASSUME IInv, \/ PreflightRead \/ PreflightWrite \/ PreflightRead3D
                 \/ PreflightWrite3D \/ PreflightEffect
    PROVE  IInv'
<1>1. /\ phase = "preflight" /\ at <= Len(chain)
  BY DEF PreflightRead, PreflightWrite, PreflightRead3D, PreflightWrite3D, PreflightEffect,
         InPreflight
<1>2. /\ at \in 1 .. Len(chain)
      /\ at = 1 => dry.bundle = EmptyBundle
      /\ flags[at].image => dry.bundle["image"]
      /\ flags[at].volume => dry.bundle["volume"]
      /\ CompileInv /\ LoopInv /\ GroupsInv
  <2>1. PICK S : dry.log \in Seq(S)
    BY DEF IInv, DryInv, LogIsSequence
  <2>2. PICK m \in Nat : m = Len(dry.log) /\ at = m + 1
    BY <1>1, <2>1, LenProperties DEF IInv, DryInv
  <2>3. Len(chain) \in Nat
    BY LenProperties DEF IInv, CompileInv
  <2>4. at \in 1 .. Len(chain)
    BY <1>1, <2>2, <2>3
  <2> QED BY <2>4, <1>1 DEF IInv, DryInv
<1>3. /\ chain[at] \in Steps /\ Link(at, chain[at], flags[at], flags[at + 1])
      /\ flags[1] = NoFlags
  BY <1>2, ElementOfSeq DEF CompileInv
<1>4. chain[at].kind # "effect" => chain[at].effect.domain = "image"
  BY <1>3, PlanCatalogAssumption DEF NoEffect, Effect
<1>5. ASSUME NEW result \in {"rejected"}, NEW missing, End(result, missing) PROVE IInv'
  BY <1>1, <1>5, Moves DEF End, scanVars
<1>6. CASE PreflightRead
  <2>1. chain[at].kind = "read" /\ at = 1
    BY <1>3, <1>6 DEF PreflightRead, InPreflight, Link
  <2>2. ~flags[at + 1].volume
    BY <1>3, <1>4, <2>1 DEF Link, NoFlags
  <2>3. ImageOnly["image"]
    BY DEF ImageOnly, EmptyBundle, Components
  <2>4. CASE Believes(ImageOnly, dry.produced, dry.available)
    BY <1>1, <2>2, <2>3, <2>4, Believed
  <2>5. CASE End("rejected", {"surface"})
    BY <2>5, <1>5
  <2> QED BY <1>6, <2>4, <2>5 DEF PreflightRead
<1>7. CASE PreflightWrite
  <2>1. chain[at].kind = "write"
    BY <1>7 DEF PreflightWrite, InPreflight
  <2>2. /\ flags[at + 1].image => dry.bundle["image"]
        /\ flags[at + 1].volume => dry.bundle["volume"]
    BY <1>2, <1>3, <1>4, <2>1 DEF Link
  <2>3. CASE Believes(dry.bundle, dry.produced, dry.available \cup {chain[at].names[1]})
    BY <1>1, <2>2, <2>3, Believed
  <2>4. CASE End("rejected", {"image"})
    BY <2>4, <1>5
  <2> QED BY <1>7, <2>3, <2>4 DEF PreflightWrite
<1>8. CASE PreflightRead3D
  <2>1. chain[at].kind = "read3d" /\ at = 1
    BY <1>3, <1>8 DEF PreflightRead3D, InPreflight, Link
  <2>2. ~flags[at + 1].image
    BY <1>3, <1>4, <2>1 DEF Link, NoFlags
  <2> DEFINE bundle == [image |-> FALSE, volume |-> TRUE,
                        geometry |-> chain[at].names[2] \in dry.available]
  <2>3. bundle["volume"]
    OBVIOUS
  <2> HIDE DEF bundle
  <2>4. CASE Believes(bundle, dry.produced, dry.available)
    BY <1>1, <2>2, <2>3, <2>4, Believed
  <2>5. CASE End("rejected", {"surface"})
    BY <2>5, <1>5
  <2> QED BY <1>8, <2>4, <2>5 DEF PreflightRead3D, bundle
<1>9. CASE PreflightWrite3D
  <2>1. chain[at].kind = "write3d"
    BY <1>9 DEF PreflightWrite3D, InPreflight
  <2>2. /\ flags[at + 1].image => dry.bundle["image"]
        /\ flags[at + 1].volume => dry.bundle["volume"]
    BY <1>2, <1>3, <1>4, <2>1 DEF Link
  <2>3. Believes(dry.bundle, dry.produced,
                 dry.available \cup Stored(chain[at].names, dry.bundle))
    BY <1>9 DEF PreflightWrite3D
  <2> QED BY <1>1, <2>2, <2>3, Believed
<1>10. CASE PreflightEffect
  <2> DEFINE g == TheGroup(at)
             zero == g.iterated /\ chain[g.steps[1]].zero
             available == dry.available \cup Publishes(ArgumentsOf(chain[at]))
             missing == PreflightLacks(chain[at], g, zero, available)
             idle == PreflightZero(chain[at], at = g.steps[1])
             busy == BundleAfter(chain[at], g, available)
  <2>1. chain[at].kind = "effect"
    BY <1>10 DEF PreflightEffect, InPreflight
  <2>2. /\ flags[at + 1].image => busy["image"]
        /\ flags[at + 1].volume => busy["volume"]
    BY <1>1, <1>2, <2>1, BundleAfterKeeps
  <2>3. zero => /\ flags[at + 1].image => idle["image"]
                /\ flags[at + 1].volume => idle["volume"]
    BY <1>1, <1>2, <2>1, PreflightZeroKeeps
  <2>4. \/ End("rejected", missing)
        \/ zero /\ Believes(idle, dry.produced, available)
        \/ Believes(busy, dry.produced \cup Outputs(chain[at]), available)
    BY <1>10 DEF PreflightEffect
  <2> HIDE DEF g, zero, available, missing, idle, busy
  <2>5. CASE End("rejected", missing)
    BY <2>5, <1>5
  <2>6. CASE zero /\ Believes(idle, dry.produced, available)
    BY <1>1, <2>3, <2>6, Believed
  <2>7. CASE Believes(busy, dry.produced \cup Outputs(chain[at]), available)
    BY <1>1, <2>2, <2>7, Believed
  <2> QED BY <2>4, <2>5, <2>6, <2>7
<1> QED BY <1>6, <1>7, <1>8, <1>9, <1>10

\* Execution leaves the plan and the beliefs of the dry run alone.
LEMMA ExecutionPreserves ==
    ASSUME IInv, \/ Admit \/ Admitted
                 \/ Read \/ Write \/ Read3D \/ Write3D \/ RunEffect
                 \/ GroupBegins \/ GroupStep \/ GroupEnds
                 \/ ChainEnds \/ Ended
    PROVE  IInv'
<1>1. ASSUME NEW result \in {"rejected", "failed"}, NEW missing,
             phase # "compile", End(result, missing)
      PROVE  IInv'
  BY <1>1, Moves DEF End, scanVars
<1>2. ASSUME NEW bundle, NEW arena, phase = "execute", Leaves(bundle, arena) PROVE IInv'
  BY <1>2, Moves DEF Leaves, scanVars
<1>3. ASSUME NEW carried, NEW arena, phase = "execute", Publish(carried, arena) PROVE IInv'
  BY <1>1, <1>2, <1>3 DEF Publish
<1>4. ASSUME phase = "execute", UNCHANGED <<chain, flags, scanVars, phase, at, lacking, dry>>
      PROVE  IInv'
  BY <1>4, Moves DEF scanVars
<1>5. CASE Admit
  <2>1. phase = "admit"
    BY <1>5 DEF Admit
  <2>2. CASE phase' = "preflight" /\ UNCHANGED <<chain, flags, scanVars, at, lacking, dry, live>>
    BY <2>1, <2>2, Moves DEF scanVars
  <2> QED BY <1>1, <1>5, <2>1, <2>2 DEF Admit
<1>6. CASE Admitted
  BY <1>6, Moves DEF Admitted, scanVars
<1>7. CASE Read
  BY <1>1, <1>2, <1>7 DEF Read, Executes, BetweenGroups
<1>8. CASE Write
  BY <1>1, <1>2, <1>8 DEF Write, Executes, BetweenGroups
<1>9. CASE Read3D
  BY <1>1, <1>2, <1>9 DEF Read3D, Executes, BetweenGroups
<1>10. CASE Write3D
  BY <1>1, <1>2, <1>10 DEF Write3D, Executes, BetweenGroups
<1>11. CASE RunEffect
  <2>1. phase = "execute"
    BY <1>11 DEF RunEffect, Executes, BetweenGroups
  <2>2. \/ \E missing : End("failed", missing)
        \/ \E bundle, arena : Leaves(bundle, arena)
    BY <1>11 DEF RunEffect
  <2> QED BY <2>1, <2>2, <1>1, <1>2
<1>12. CASE GroupBegins
  <2>1. phase = "execute"
    BY <1>12 DEF GroupBegins, BetweenGroups
  <2>2. \/ \E missing : End("failed", missing)
        \/ Publish(ZeroOutput, Arena)
        \/ UNCHANGED <<chain, flags, scanVars, phase, at, lacking, dry>>
    BY <1>12 DEF GroupBegins
  <2> QED BY <2>1, <2>2, <1>1, <1>3, <1>4
<1>13. CASE GroupStep
  <2>1. phase = "execute"
    BY <1>13 DEF GroupStep
  <2>2. \/ \E missing : End("failed", missing)
        \/ UNCHANGED <<chain, flags, scanVars, phase, at, lacking, dry>>
    BY <1>13 DEF GroupStep
  <2> QED BY <2>1, <2>2, <1>1, <1>4
<1>14. CASE GroupEnds
  BY <1>3, <1>14 DEF GroupEnds
<1>15. CASE ChainEnds
  BY <1>15, Moves DEF ChainEnds, scanVars
<1>16. CASE Ended
  BY <1>16, Moves DEF Ended, vars, scanVars
<1> QED BY <1>5, <1>6, <1>7, <1>8, <1>9, <1>10, <1>11, <1>12, <1>13, <1>14, <1>15, <1>16

LEMMA NextPreserves == IInv /\ [Next]_vars => IInv'
<1> SUFFICES ASSUME IInv, [Next]_vars PROVE IInv'
  OBVIOUS
<1>1. CASE Next
  BY <1>1, CompilePreserves, PreflightPreserves, ExecutionPreserves DEF Next
<1>2. CASE UNCHANGED vars
  <2>1. CASE phase = "compile"
    <3>1. /\ CompileInv' /\ LoopInv' /\ PhaseType'
      BY <1>2 DEF vars, scanVars, IInv, CompileInv, LoopInv, PhaseType, Flags
    <3>2. GroupsInv'
      BY <1>2 DEF vars, scanVars, IInv, GroupsInv, CanGrow, Sound, AllOf, Members
    <3>3. DryInv'
      BY <1>2 DEF vars, scanVars, IInv, DryInv, FlagsAreKept, LogIsSequence
    <3> QED BY <3>1, <3>2, <3>3 DEF IInv
  <2>2. CASE phase # "compile"
    BY <1>2, <2>2, Moves DEF vars, scanVars
  <2> QED BY <2>1, <2>2
<1> QED BY <1>1, <1>2

\* IInv holds in every state: what the compiler, the scan and the dry run have
\* made of the chain so far agree.
THEOREM InductiveInvariant == Spec => []IInv
BY InitIInv, NextPreserves, PTL DEF Spec

\* compile_chain's loop flag and the open region of compute_iteration_groups
\* agree at every step, so that a compiled chain is never one that the
\* grouping throws for.
THEOREM CompiledChainsAlwaysGroup == Spec => []CompiledChainsGroup
<1>1. IInv => CompiledChainsGroup
  BY DEF IInv, LoopInv, CompiledChainsGroup
<1> QED BY <1>1, InductiveInvariant, PTL

\* The dry run of validate_plan_before_allocation never believes in less than
\* compile_chain's flags promise, in groups of no tick too.
THEOREM FlagsAreAlwaysKept == Spec => []FlagsAreKept
<1>1. IInv => FlagsAreKept
  BY DEF IInv, DryInv
<1> QED BY <1>1, InductiveInvariant, PTL

\* compile_chain hands its steps to compute_iteration_groups and nothing after
\* it touches the groups: the plan implements the scan of IterationGroups, so
\* that what is proved of that scan holds of the groups of every plan.
THEOREM PlansImplementTheScan == Spec => Scan!Spec
<1>1. Init => Scan!Init
  <2> SUFFICES ASSUME Init PROVE Scan!Init
    OBVIOUS
  <2>1. chain = <<>> /\ Scan!Init
    BY DEF Init
  <2> QED BY <2>1
<1>2. Next => [Scan!Next]_Scan!vars
  <2> SUFFICES ASSUME Next PROVE [Scan!Next]_Scan!vars
    OBVIOUS
  <2>1. ASSUME UNCHANGED <<chain, scanVars>> PROVE UNCHANGED Scan!vars
    BY <2>1 DEF Scan!vars, scanVars
  <2>2. ASSUME NEW s \in Steps, CompileStep(s) PROVE Scan!Next
    <3>1. Scans(s.scan) /\ s.scan \in {x.scan : x \in Steps}
      BY <2>2 DEF CompileStep
    <3> QED BY <3>1 DEF Scans, Scan!Next
  <2>3. CASE EndCompile
    BY <2>3 DEF EndCompile, Scan!Next
  <2>4. ASSUME NEW result, NEW missing, End(result, missing) PROVE UNCHANGED <<chain, scanVars>>
    BY <2>4 DEF End
  <2>5. ASSUME NEW bundle, NEW arena, Leaves(bundle, arena) PROVE UNCHANGED <<chain, scanVars>>
    BY <2>5 DEF Leaves
  <2>6. ASSUME NEW bundle, NEW produced, NEW available, Believes(bundle, produced, available)
        PROVE  UNCHANGED <<chain, scanVars>>
    BY <2>6 DEF Believes
  <2>7. ASSUME NEW carried, NEW arena, Publish(carried, arena)
        PROVE  UNCHANGED <<chain, scanVars>>
    BY <2>4, <2>5, <2>7 DEF Publish
  <2>8. CASE Admit \/ Admitted \/ PreflightRead \/ PreflightWrite \/ PreflightRead3D
                \/ PreflightWrite3D \/ Read \/ Write \/ Read3D \/ Write3D \/ GroupEnds
                \/ ChainEnds \/ Ended
    BY <2>1, <2>4, <2>5, <2>6, <2>7, <2>8
    DEF Admit, Admitted, PreflightRead, PreflightWrite, PreflightRead3D, PreflightWrite3D,
        Read, Write, Read3D, Write3D, GroupEnds, ChainEnds, Ended, vars
  <2>9. CASE PreflightEffect
    <3>1. \/ \E missing : End("rejected", missing)
          \/ \E bundle, produced, available : Believes(bundle, produced, available)
      BY <2>9 DEF PreflightEffect
    <3> QED BY <3>1, <2>1, <2>4, <2>6
  <2>10. CASE RunEffect
    <3>1. \/ \E missing : End("failed", missing)
          \/ \E bundle, arena : Leaves(bundle, arena)
      BY <2>10 DEF RunEffect
    <3> QED BY <3>1, <2>1, <2>4, <2>5
  <2>11. CASE GroupBegins
    <3>1. \/ \E missing : End("failed", missing)
          \/ Publish(ZeroOutput, Arena)
          \/ UNCHANGED <<chain, scanVars>>
      BY <2>11 DEF GroupBegins
    <3> QED BY <3>1, <2>1, <2>4, <2>7
  <2>12. CASE GroupStep
    <3>1. \/ \E missing : End("failed", missing)
          \/ UNCHANGED <<chain, scanVars>>
      BY <2>12 DEF GroupStep
    <3> QED BY <3>1, <2>1, <2>4
  <2> QED BY <2>2, <2>3, <2>8, <2>9, <2>10, <2>11, <2>12 DEF Next
<1>3. UNCHANGED vars => UNCHANGED Scan!vars
  BY DEF vars, Scan!vars, scanVars
<1> QED BY <1>1, <1>2, <1>3, PTL DEF Spec, Scan!Spec

-----------------------------------------------------------------------------
\* The groups that the scan makes of the chain, and what is proved of them.
T == INSTANCE IterationGroupsProofs
       WITH Steps <- {s.scan : s \in Steps}, chain <- [i \in 1 .. Len(chain) |-> chain[i].scan]

LEMMA ScanAssumptions == T!StepsAssumption /\ T!MaxLengthAssumption
BY PlanScanAssumption
DEF Scan!StepsAssumption, Scan!MaxLengthAssumption, T!StepsAssumption, T!MaxLengthAssumption,
    Scan!StepType, T!StepType

LEMMA SameScan == Scan!Spec => T!Spec
<1>1. Scan!Init => T!Init
  BY DEF Scan!Init, T!Init, Scan!NoGroup, T!NoGroup, Scan!Group, T!Group
<1> USE DEF Scan!NoGroup, T!NoGroup, Scan!Group, T!Group, Scan!InLoop, T!InLoop,
    Scan!Throw, T!Throw,
    Scan!Continue, T!Continue, Scan!Joined, T!Joined, Scan!Index, T!Index, Scan!Scan, T!Scan
<1>2. Scan!Closed = T!Closed
  BY DEF Scan!Closed, T!Closed
<1>3. \A gs : Scan!EndsWithOne(gs) = T!EndsWithOne(gs) /\ Scan!LastStep(gs) = T!LastStep(gs)
            /\ Scan!AllButLast(gs) = T!AllButLast(gs)
  BY DEF Scan!EndsWithOne, T!EndsWithOne, Scan!LastStep, T!LastStep, Scan!AllButLast, T!AllButLast
<1>4. ASSUME NEW s PROVE Scan!LoopStep(s) = T!LoopStep(s)
  BY DEF Scan!LoopStep, T!LoopStep
<1>5. ASSUME NEW s PROVE Scan!BoundaryStep(s) = T!BoundaryStep(s)
  BY <1>2 DEF Scan!BoundaryStep, T!BoundaryStep
<1>6. ASSUME NEW s PROVE Scan!EffectOutsideLoop(s) = T!EffectOutsideLoop(s)
  BY DEF Scan!EffectOutsideLoop, T!EffectOutsideLoop
<1>7. ASSUME NEW s PROVE Scan!UnmatchedEnd(s) = T!UnmatchedEnd(s)
  BY <1>6 DEF Scan!UnmatchedEnd, T!UnmatchedEnd
<1>8. ASSUME NEW s PROVE Scan!LoopBegins(s) = T!LoopBegins(s)
  BY <1>2, <1>6 DEF Scan!LoopBegins, T!LoopBegins
<1>9. ASSUME NEW s
      PROVE  /\ Scan!RejoinsImage(s) = T!RejoinsImage(s)
             /\ Scan!GroupWithImage(s) = T!GroupWithImage(s)
  BY <1>2, <1>3 DEF Scan!RejoinsImage, T!RejoinsImage, Scan!IsAnimatedImageGenerator,
                    T!IsAnimatedImageGenerator, Scan!GroupWithImage, T!GroupWithImage
<1>10. ASSUME NEW s PROVE Scan!OpensParticles(s) = T!OpensParticles(s)
  BY <1>2, <1>3, <1>6, <1>9 DEF Scan!OpensParticles, T!OpensParticles
<1>11. ASSUME NEW s
       PROVE  /\ Scan!JoinsParticles(s) = T!JoinsParticles(s)
              /\ Scan!RejoinsNoise(s) = T!RejoinsNoise(s)
  BY <1>3 DEF Scan!JoinsParticles, T!JoinsParticles, Scan!RejoinsNoise, T!RejoinsNoise
<1>12. ASSUME NEW s PROVE Scan!JoinStep(s) = T!JoinStep(s)
  BY <1>6, <1>11 DEF Scan!JoinStep, T!JoinStep
<1>13. ASSUME NEW s PROVE Scan!FlowStep(s) = T!FlowStep(s)
  BY <1>3, <1>6, <1>11 DEF Scan!FlowStep, T!FlowStep
<1>14. ASSUME NEW s PROVE Scan!SingleStep(s) = T!SingleStep(s)
  BY <1>2, <1>6, <1>11 DEF Scan!SingleStep, T!SingleStep
<1>15. Scan!Finish = T!Finish /\ Scan!vars = T!vars
  BY <1>2 DEF Scan!Finish, T!Finish, Scan!vars, T!vars
<1>16. Scan!Ended = T!Ended
  BY DEF Scan!Ended, T!Ended, Scan!vars, T!vars
<1>17. Scan!Next => T!Next
  BY <1>4, <1>5, <1>7, <1>8, <1>10, <1>12, <1>13, <1>14, <1>15, <1>16 DEF Scan!Next, T!Next
<1>18. UNCHANGED Scan!vars => UNCHANGED T!vars
  BY DEF Scan!vars, T!vars
<1> QED BY <1>1, <1>17, <1>18, PTL DEF Scan!Spec, T!Spec

\* What the executor takes for granted of a group g of the chain c.
Runnable(g, c) ==
    /\ ~g.iterated => Len(g.steps) = 1 /\ ~c[g.steps[1]].scan.iterated
    /\ g.iterated =>
         /\ \A p \in 1 .. Len(g.steps) : c[g.steps[p]].kind = "effect"
         /\ \/ c[g.steps[1]].scan.iterated
            \/ Len(g.steps) > 1 /\ c[g.steps[2]].scan.iterated /\ c[g.steps[2]].scan.ticks
    /\ g.loop => c[g.steps[1]].scan.role = "begin"

\* The groups cut the chain, and the executor can run them.
GroupedInv ==
    outcome = "done" =>
      /\ T!Cuts(groups, Len(chain))
      /\ \A k \in 1 .. Len(groups) : Runnable(groups[k], chain)

LEMMA GroupedByScan ==
    ASSUME IInv, T!Partition, T!GroupsRunAsUnits
    PROVE  GroupedInv
<1> SUFFICES ASSUME outcome = "done"
             PROVE  /\ T!Cuts(groups, Len(chain))
                    /\ \A k \in 1 .. Len(groups) : Runnable(groups[k], chain)
  BY DEF GroupedInv
<1> DEFINE c == [i \in 1 .. Len(chain) |-> chain[i].scan]
<1>1. chain \in Seq(Steps) /\ Len(chain) \in Nat
  BY LenProperties DEF IInv, CompileInv
<1>2. Len(c) = Len(chain)
  <2>1. PICK n \in Nat : n = Len(chain)
    BY <1>1
  <2>2. \A f : Len([i \in 1 .. n |-> f[i].scan]) = n
    OBVIOUS
  <2> QED BY <2>1, <2>2
<1>3. openGroup = Scan!NoGroup /\ openLoop = Scan!NoGroup
  BY DEF IInv, LoopInv
<1>4. T!AllGroups = groups
  BY <1>3 DEF T!AllGroups, T!InLoop, T!Closed, T!NoGroup, T!Group, Scan!NoGroup, Scan!Group
<1>5. T!Cuts(groups, Len(c))
  BY <1>4 DEF T!Partition
<1>6. ASSUME NEW k \in 1 .. Len(groups) PROVE Runnable(groups[k], chain)
  <2> DEFINE g == groups[k]
  <2>1. T!RunsAsUnit(g, c)
    BY DEF T!GroupsRunAsUnits
  <2>2. GroupOK(g, chain, flags)
    BY DEF IInv, GroupsInv, Sound, AllOf, Members
  <2>3. /\ g.steps \in Seq(Nat) /\ Len(g.steps) \in Nat \ {0}
        /\ \A p \in 1 .. Len(g.steps) : g.steps[p] \in 1 .. Len(chain)
    BY <2>2, EmptySeq, LenProperties DEF GroupOK, Scan!GroupType
  <2>4. \A i \in 1 .. Len(chain) : c[i] = chain[i].scan /\ chain[i] \in Steps
    BY <1>1, ElementOfSeq
  <2> HIDE DEF c, g
  <2>5. 1 \in 1 .. Len(g.steps) /\ (Len(g.steps) > 1 => 2 \in 1 .. Len(g.steps))
    BY <2>3
  <2>6. g.steps[1] \in 1 .. Len(chain) /\ (Len(g.steps) > 1 => g.steps[2] \in 1 .. Len(chain))
    BY <2>3, <2>5
  <2>7. \A i \in 1 .. Len(chain) :
          /\ c[i].boundary <=> chain[i].kind # "effect"
          /\ c[i].role = "begin" => c[i].iterated
          /\ c[i].boundary => ~c[i].iterated
    BY <2>4, PlanStepsAssumption, PlanExecutionAssumption, PlanCatalogAssumption
  <2>8. ~g.iterated => Len(g.steps) = 1 /\ ~chain[g.steps[1]].scan.iterated
    BY <2>1, <2>4, <2>6, <2>7 DEF T!RunsAsUnit, T!First
  <2>9. g.iterated => \A p \in 1 .. Len(g.steps) : chain[g.steps[p]].kind = "effect"
    BY <2>1, <2>3, <2>4, <2>7 DEF T!RunsAsUnit
  <2>10. g.iterated =>
           \/ chain[g.steps[1]].scan.iterated
           \/ Len(g.steps) > 1 /\ chain[g.steps[2]].scan.iterated /\ chain[g.steps[2]].scan.ticks
    BY <2>1, <2>4, <2>6, <2>7 DEF T!RunsAsUnit, T!First
  <2>11. g.loop => chain[g.steps[1]].scan.role = "begin"
    BY <2>1, <2>4, <2>6 DEF T!RunsAsUnit, T!First
  <2> QED BY <2>8, <2>9, <2>10, <2>11 DEF Runnable, g
<1> QED BY <1>2, <1>5, <1>6

\* GroupedInv holds in every state: once the plan has its groups, they are
\* consecutive pieces of its chain that the executor can run.
THEOREM PlansAreGrouped == Spec => []GroupedInv
<1>1. T!Spec => []T!Partition
  BY T!ChainIsPartitioned, ScanAssumptions
<1>2. T!Spec => []T!GroupsRunAsUnits
  BY T!GroupsAreUnits, ScanAssumptions
<1> QED BY <1>1, <1>2, SameScan, PlansImplementTheScan, InductiveInvariant, GroupedByScan, PTL

-----------------------------------------------------------------------------
\* Where the groups lie.

\* The first step that is not in a group before the k-th.
Start(gs, k) == IF k = 1 THEN 1 ELSE T!Last(gs[k - 1]) + 1

HolderOf(gs, i) ==
    gs[CHOOSE k \in 1 .. Len(gs) :
         \E p \in 1 .. Len(gs[k].steps) : gs[k].steps[p] = i]

LEMMA HolderIsGroup == \A i : TheGroup(i) = HolderOf(groups, i)
BY DEF TheGroup, HolderOf

\* The place of the k-th group in a chain of n steps.
Lies(gs, n, k) ==
    /\ gs[k].steps \in Seq(Nat) /\ Len(gs[k].steps) \in Nat \ {0}
    /\ Start(gs, k) \in 1 .. n
    /\ \A p \in 1 .. Len(gs[k].steps) : gs[k].steps[p] = Start(gs, k) + p - 1
    /\ Start(gs, k + 1) = Start(gs, k) + Len(gs[k].steps)
    /\ T!Last(gs[k]) = Start(gs, k) + Len(gs[k].steps) - 1
    /\ T!Last(gs[k]) \in 1 .. n
    /\ k = Len(gs) => T!Last(gs[k]) = n
    /\ \A p \in 1 .. Len(gs[k].steps) : HolderOf(gs, gs[k].steps[p]) = gs[k]

LEMMA PlaceOfGroup ==
    ASSUME NEW gs \in Seq(Scan!GroupType), NEW n \in Nat, T!Cuts(gs, n), NEW k \in 1 .. Len(gs)
    PROVE  Lies(gs, n, k)
<1>1. Scan!GroupType = T!GroupType
  BY DEF Scan!GroupType, T!GroupType
<1>2. gs \in Seq(T!GroupType) /\ Len(gs) \in Nat /\ k \in Nat
  BY <1>1, LenProperties
<1>3. \A j \in 1 .. Len(gs) :
        /\ gs[j] \in T!GroupType /\ T!IsRun(gs[j])
        /\ T!First(gs[j]) \in 1 .. n /\ T!Last(gs[j]) \in 1 .. n
  BY <1>2, T!CutsBounds, ScanAssumptions
<1>4. \A j \in 1 .. Len(gs) :
        /\ gs[j].steps \in Seq(Nat) /\ Len(gs[j].steps) \in Nat \ {0}
        /\ T!First(gs[j]) \in Nat /\ T!Last(gs[j]) \in Nat
        /\ T!Last(gs[j]) = T!First(gs[j]) + Len(gs[j].steps) - 1
  BY <1>3, T!RunBounds, ScanAssumptions
<1>5. \A j \in 1 .. Len(gs) : T!First(gs[j]) = Start(gs, j)
  BY DEF T!Cuts, Start
<1>6. \A j \in 1 .. Len(gs) : \A p \in 1 .. Len(gs[j].steps) :
        gs[j].steps[p] = T!First(gs[j]) + p - 1
  BY <1>3 DEF T!IsRun
<1>7. k = Len(gs) => T!Last(gs[k]) = n
  BY <1>2, EmptySeq DEF T!Cuts
<1>8. Start(gs, k + 1) = T!Last(gs[k]) + 1
  <2>1. k + 1 # 1 /\ (k + 1) - 1 = k
    BY <1>2
  <2> QED BY <2>1 DEF Start
<1>9. ASSUME NEW p \in 1 .. Len(gs[k].steps) PROVE HolderOf(gs, gs[k].steps[p]) = gs[k]
  <2> DEFINE i == gs[k].steps[p]
             Has(j) == \E q \in 1 .. Len(gs[j].steps) : gs[j].steps[q] = i
  <2>1. Has(k)
    OBVIOUS
  <2>2. PICK h : h = CHOOSE j \in 1 .. Len(gs) : Has(j)
    OBVIOUS
  <2>3. h \in 1 .. Len(gs) /\ Has(h)
    BY <2>1, <2>2
  <2>4. PICK q \in 1 .. Len(gs[h].steps) : gs[h].steps[q] = i
    BY <2>3
  <2>5. /\ T!First(gs[k]) <= i /\ i <= T!Last(gs[k])
        /\ T!First(gs[h]) <= i /\ i <= T!Last(gs[h])
        /\ i \in Nat
    <3>1. i = T!First(gs[k]) + p - 1 /\ i = T!First(gs[h]) + q - 1
      BY <1>6, <2>3, <2>4
    <3>2. \A j \in 1 .. Len(gs) : \A r \in 1 .. Len(gs[j].steps) :
            /\ T!First(gs[j]) <= T!First(gs[j]) + r - 1
            /\ T!First(gs[j]) + r - 1 <= T!Last(gs[j])
            /\ T!First(gs[j]) + r - 1 \in Nat
      <4> SUFFICES ASSUME NEW j \in 1 .. Len(gs), NEW r \in 1 .. Len(gs[j].steps)
                   PROVE  /\ T!First(gs[j]) <= T!First(gs[j]) + r - 1
                          /\ T!First(gs[j]) + r - 1 <= T!Last(gs[j])
                          /\ T!First(gs[j]) + r - 1 \in Nat
        OBVIOUS
      <4>1. PICK f \in Nat, m \in Nat :
              f = T!First(gs[j]) /\ m = Len(gs[j].steps) /\ T!Last(gs[j]) = f + m - 1
        BY <1>4
      <4>2. r \in 1 .. m
        BY <4>1
      <4>3. f <= f + r - 1 /\ f + r - 1 <= f + m - 1 /\ f + r - 1 \in Nat
        BY <4>2
      <4> QED BY <4>1, <4>3
    <3> HIDE DEF i
    <3> QED BY <3>1, <3>2, <2>3, <2>4
  <2> HIDE DEF i
  <2>6. ~(h < k)
    <3> SUFFICES ASSUME h < k PROVE FALSE
      OBVIOUS
    <3>1. h \in 1 .. k - 1
      BY <1>2, <2>3
    <3>2. T!Last(gs[h]) < T!First(gs[k])
      BY <3>1 DEF T!Cuts
    <3> QED BY <1>4, <2>3, <2>5, <3>2
  <2>7. ~(k < h)
    <3> SUFFICES ASSUME k < h PROVE FALSE
      OBVIOUS
    <3>1. k \in 1 .. h - 1
      BY <1>2, <2>3
    <3>2. T!Last(gs[k]) < T!First(gs[h])
      BY <3>1, <2>3 DEF T!Cuts
    <3> QED BY <1>4, <2>3, <2>5, <3>2
  <2>8. h = k
    BY <1>2, <2>3, <2>6, <2>7
  <2> QED BY <2>2, <2>8 DEF HolderOf, i
<1>10. Start(gs, k) = T!First(gs[k])
  BY <1>5
<1>11. Start(gs, k + 1) = Start(gs, k) + Len(gs[k].steps)
  BY <1>4, <1>8, <1>10
<1> QED BY <1>3, <1>4, <1>6, <1>7, <1>9, <1>10, <1>11 DEF Lies

-----------------------------------------------------------------------------
\* What the dry run believes, step by step.

Bundles == [Components -> BOOLEAN]

LEMMA RecordBundle ==
    ASSUME NEW i \in BOOLEAN, NEW v \in BOOLEAN, NEW g \in BOOLEAN
    PROVE  LET b == [image |-> i, volume |-> v, geometry |-> g]
           IN  b \in Bundles /\ b["image"] = i /\ b["volume"] = v /\ b["geometry"] = g
BY DEF Bundles, Components

LEMMA SameBundle ==
    ASSUME NEW a \in Bundles, NEW b \in Bundles,
           a["image"] <=> b["image"], a["volume"] <=> b["volume"], a["geometry"] <=> b["geometry"]
    PROVE  a = b
<1>1. \A c \in Components : a[c] = b[c]
  BY DEF Bundles, Components
<1> QED BY <1>1 DEF Bundles

LEMMA FixedBundles ==
    /\ EmptyBundle \in Bundles /\ \A c \in Components : ~EmptyBundle[c]
    /\ ImageOnly \in Bundles /\ ImageOnly["image"]
    /\ ~ImageOnly["volume"] /\ ~ImageOnly["geometry"]
BY DEF EmptyBundle, ImageOnly, Bundles, Components

\* The bundle after an effect that runs.
RunBundle(s, b) ==
    [image    |-> b["image"] \/ "outputTex" \in Outputs(s),
     volume   |-> PassesThrough(s.effect.outputTex3d) => b["volume"],
     geometry |-> PassesThrough(s.effect.outputGeo) => b["geometry"]]

\* The bundle after a step of a group of no ticks.
IdleBundle(s, isFront, b) ==
    IF ~isFront \/ ~IsEmpty(b) THEN b
    ELSE IF s.effect.domain = "volume-generator"
         THEN [image |-> FALSE, volume |-> TRUE, geometry |-> ~PassesThrough(s.effect.outputGeo)]
         ELSE ImageOnly

Idles(g, c) == g.iterated /\ c[g.steps[1]].zero

\* Step s makes the bundle `after` of the bundle `before`.
Hands(s, isFront, idle, before, after) ==
    /\ after \in Bundles
    /\ s.kind = "read" => after = ImageOnly
    /\ s.kind = "read3d" => ~after["image"] /\ after["volume"]
    /\ s.kind \in {"write", "write3d"} => after = before
    /\ s.kind = "effect" =>
          after = IF idle THEN IdleBundle(s, isFront, before) ELSE RunBundle(s, before)

\* The bundle before step i.
Before(log, i) == IF i = 1 THEN EmptyBundle ELSE log[i - 1].bundle

BeliefAt(c, gs, log, i) ==
    LET g == HolderOf(gs, i)
    IN  Hands(c[i], i = g.steps[1], Idles(g, c), Before(log, i), log[i].bundle)

Beliefs(c, gs, log) == \A i \in 1 .. Len(log) : BeliefAt(c, gs, log, i)

\* The surfaces that step i makes available, and those of steps n to i.
Adds(c, log, i) ==
    IF c[i].kind = "write" THEN {c[i].names[1]}
    ELSE IF c[i].kind = "write3d" THEN Stored(c[i].names, Before(log, i))
    ELSE IF c[i].kind = "effect" THEN Publishes(ArgumentsOf(c[i]))
    ELSE {}

AddsFrom(c, log, n, i) == UNION {Adds(c, log, j) : j \in n .. i}

\* With the steps before n done, nothing is believed available that is not in
\* the arena or still to be added.
Reaches(c, log, arena, n) ==
    \A i \in 1 .. Len(log) :
        n <= i + 1 => log[i].available \subseteq arena \cup AddsFrom(c, log, n, i)

\* A read3d has the geometry exactly if the arena has it.
Opened(c, log, arena) ==
    Len(log) > 0 /\ c[1].kind = "read3d" =>
        (log[1].bundle["geometry"] <=> c[1].names[2] \in arena)

LiveFields == {"bundle", "arena", "member", "carried", "shared"}

NothingRuns ==
    /\ live.bundle = EmptyBundle /\ live.member = 0
    /\ dry.log = <<>> =>
         /\ dry.available \subseteq live.arena
         /\ \A x \in Surfaces : x \in dry.available <=> x \in live.arena

DryMirror ==
    /\ dry.bundle = Before(dry.log, at)
    /\ dry.available \subseteq live.arena \cup AddsFrom(chain, dry.log, 1, Len(dry.log))
    /\ Beliefs(chain, groups, dry.log)
    /\ Opened(chain, dry.log, live.arena)
    /\ Reaches(chain, dry.log, live.arena, 1)

\* Between groups, and inside one.
BetweenMirror ==
    /\ live.bundle = Before(dry.log, Start(groups, at))
    /\ Reaches(chain, dry.log, live.arena, Start(groups, at))
    /\ at = 1 => Opened(chain, dry.log, live.arena)

InsideMirror ==
    /\ at \in 1 .. Len(groups)
    /\ live.member \in 1 .. Len(groups[at].steps) + 1
    /\ groups[at].iterated /\ ~Idles(groups[at], chain)
    /\ \A x \in Components :
          Present[x] <=> Before(dry.log, Start(groups, at) + live.member - 1)[x]
    /\ Reaches(chain, dry.log, live.arena, Start(groups, at + 1))

LiveMirror ==
    /\ Len(dry.log) = Len(chain) /\ at \in 1 .. Len(groups) + 1
    /\ Beliefs(chain, groups, dry.log)
    /\ live.member = 0 => BetweenMirror
    /\ live.member # 0 => InsideMirror

MirrorInv ==
    /\ DOMAIN live = LiveFields
    /\ phase \in {"compile", "admit", "preflight"} => NothingRuns
    /\ phase = "preflight" => DryMirror
    /\ phase = "execute" => LiveMirror

\* What is said of a log of m entries does not change when e is appended.
Extends(more, c, log, m, e) ==
    /\ Len(more) = m + 1 /\ more[m + 1] = e
    /\ \A i \in 1 .. m : more[i] = log[i]
    /\ \A i \in 1 .. m + 1 : Before(more, i) = Before(log, i)
    /\ \A i \in 1 .. m + 1 : Adds(c, more, i) = Adds(c, log, i)
    /\ \A i \in 0 .. m + 1 : AddsFrom(c, more, 1, i) = AddsFrom(c, log, 1, i)

LEMMA LogGrows ==
    ASSUME NEW S, NEW log \in Seq(S), NEW e \in S, NEW c
    PROVE  Extends(Append(log, e), c, log, Len(log), e)
<1>0. PICK m \in Nat : m = Len(log)
  BY LenProperties
<1> DEFINE more == Append(log, e)
<1>1. /\ more \in Seq(S) /\ Len(more) = m + 1 /\ more[m + 1] = e
      /\ \A i \in 1 .. m : more[i] = log[i]
  BY <1>0, AppendProperties
<1> HIDE DEF more
<1>2. ASSUME NEW i \in 1 .. m + 1 PROVE Before(more, i) = Before(log, i)
  <2>1. CASE i = 1
    BY <2>1 DEF Before
  <2>2. CASE i # 1
    <3>1. i - 1 \in 1 .. m
      BY <2>2
    <3> QED BY <1>1, <2>2, <3>1 DEF Before
  <2> QED BY <2>1, <2>2
<1>3. \A i \in 1 .. m + 1 : Adds(c, more, i) = Adds(c, log, i)
  BY <1>2 DEF Adds
<1>4. ASSUME NEW i \in 0 .. m + 1 PROVE AddsFrom(c, more, 1, i) = AddsFrom(c, log, 1, i)
  <2>1. \A j \in 1 .. i : j \in 1 .. m + 1
    OBVIOUS
  <2>2. \A j \in 1 .. i : Adds(c, more, j) = Adds(c, log, j)
    BY <1>3, <2>1
  <2> QED BY <2>2 DEF AddsFrom
<1> QED BY <1>0, <1>1, <1>2, <1>3, <1>4 DEF Extends, more

LEMMA AddsOfFew ==
    ASSUME NEW c, NEW log, NEW n \in Nat
    PROVE  /\ AddsFrom(c, log, n, n) = Adds(c, log, n)
           /\ \A i \in Nat : AddsFrom(c, log, n, i) \subseteq AddsFrom(c, log, n, i + 1)
           /\ \A i \in Nat : n <= i + 1 =>
                AddsFrom(c, log, n, i + 1) = AddsFrom(c, log, n, i) \cup Adds(c, log, i + 1)
<1>1. n .. n = {n}
  OBVIOUS
<1>2. AddsFrom(c, log, n, n) = Adds(c, log, n)
  BY <1>1 DEF AddsFrom
<1>3. ASSUME NEW i \in Nat PROVE AddsFrom(c, log, n, i) \subseteq AddsFrom(c, log, n, i + 1)
  <2>1. \A j \in n .. i : j \in n .. i + 1
    OBVIOUS
  <2> QED BY <2>1 DEF AddsFrom
<1>4. ASSUME NEW i \in Nat, n <= i + 1
      PROVE  AddsFrom(c, log, n, i + 1) = AddsFrom(c, log, n, i) \cup Adds(c, log, i + 1)
  <2>1. n .. i + 1 = (n .. i) \cup {i + 1}
    BY <1>4
  <2> QED BY <2>1 DEF AddsFrom
<1> QED BY <1>2, <1>3, <1>4

\* Steps n to r - 1 are done, and what they add is in the arena.
LEMMA ReachesLater ==
    ASSUME NEW c, NEW log, NEW n \in Nat, NEW r \in Nat, n <= r, Len(log) \in Nat,
           NEW arena, NEW later, Reaches(c, log, arena, n),
           arena \subseteq later, \A j \in n .. r - 1 : Adds(c, log, j) \subseteq later
    PROVE  Reaches(c, log, later, r)
<1> SUFFICES ASSUME NEW i \in 1 .. Len(log), r <= i + 1
             PROVE  log[i].available \subseteq later \cup AddsFrom(c, log, r, i)
  BY DEF Reaches
<1>1. log[i].available \subseteq arena \cup AddsFrom(c, log, n, i)
  BY DEF Reaches
<1>2. ASSUME NEW j \in n .. i PROVE Adds(c, log, j) \subseteq later \cup AddsFrom(c, log, r, i)
  <2>1. j \in n .. r - 1 \/ j \in r .. i
    OBVIOUS
  <2> QED BY <2>1 DEF AddsFrom
<1>3. AddsFrom(c, log, n, i) \subseteq later \cup AddsFrom(c, log, r, i)
  BY <1>2 DEF AddsFrom
<1> QED BY <1>1, <1>3

-----------------------------------------------------------------------------
\* Until the chain is executed.

LEMMA MirrorInit == Init => MirrorInv
<1> SUFFICES ASSUME Init PROVE MirrorInv
  OBVIOUS
<1>1. PICK written \in SUBSET Written, left \in {{}, Leftovers} :
        /\ dry = [bundle |-> EmptyBundle, produced |-> {}, available |-> written, log |-> <<>>]
        /\ live = [bundle |-> EmptyBundle, arena |-> written \cup left,
                   member |-> 0, carried |-> [c \in Components |-> NoRoute], shared |-> {}]
  BY DEF Init
<1>2. phase = "compile"
  BY DEF Init
<1>3. DOMAIN live = LiveFields
  BY <1>1 DEF LiveFields
<1>4. /\ live.bundle = EmptyBundle /\ live.member = 0 /\ live.arena = written \cup left
      /\ dry.available = written
  BY <1>1
<1>5. Surfaces \cap left = {}
  BY PlanExecutionAssumption
<1>6. NothingRuns
  BY <1>4, <1>5 DEF NothingRuns
<1> QED BY <1>2, <1>3, <1>6 DEF MirrorInv

LEMMA MirrorEnds ==
    ASSUME MirrorInv, live' = live, phase' \in {"rejected", "failed", "done"}
    PROVE  MirrorInv'
BY DEF MirrorInv

LEMMA MirrorCompiles ==
    ASSUME IInv, MirrorInv, \/ \E s \in Steps : CompileStep(s)
                            \/ EndCompile \/ Admit
    PROVE  MirrorInv'
<1>1. /\ phase \in {"compile", "admit"} /\ dry' = dry /\ live' = live /\ at' = at
      /\ phase' \in {"compile", "admit", "preflight", "rejected"}
  BY DEF CompileStep, EndCompile, Admit, End
<1>2. dry.log = <<>> /\ dry.bundle = EmptyBundle /\ at = 1 /\ Len(<<>>) = 0
  BY <1>1, EmptySeq DEF IInv, DryInv
<1>3. DOMAIN live = LiveFields /\ NothingRuns
  BY <1>1 DEF MirrorInv
<1>4. DOMAIN live' = LiveFields /\ NothingRuns'
  BY <1>1, <1>3 DEF NothingRuns
<1>5. DryMirror'
  <2>1. Len(dry'.log) = 0
    BY <1>1, <1>2
  <2>2. dry'.bundle = Before(dry'.log, at')
    BY <1>1, <1>2 DEF Before
  <2>3. dry'.available \subseteq live'.arena
    BY <1>1, <1>2, <1>3 DEF NothingRuns
  <2>4. Beliefs(chain', groups', dry'.log) /\ Opened(chain', dry'.log, live'.arena)
        /\ Reaches(chain', dry'.log, live'.arena, 1)
    BY <2>1 DEF Beliefs, Opened, Reaches
  <2> QED BY <2>2, <2>3, <2>4 DEF DryMirror
<1> QED BY <1>1, <1>4, <1>5 DEF MirrorInv

\* One step of the dry run.
LEMMA MirrorBelieves ==
    ASSUME IInv, MirrorInv, phase = "preflight", at <= Len(chain),
           NEW bundle, NEW produced, NEW available, Believes(bundle, produced, available),
           Hands(chain[at], at = TheGroup(at).steps[1], Idles(TheGroup(at), chain),
                 dry.bundle, bundle),
           available \subseteq dry.available \cup Adds(chain, dry.log, at),
           chain[at].kind = "read3d" =>
             at = 1 /\ (bundle["geometry"] <=> chain[1].names[2] \in live.arena)
    PROVE  MirrorInv'
<1> DEFINE e == [bundle |-> bundle, available |-> available]
<1>1. /\ dry' = [bundle |-> bundle, produced |-> produced, available |-> available,
                 log |-> Append(dry.log, e)]
      /\ at' = at + 1 /\ chain' = chain /\ phase' = phase /\ groups' = groups /\ live' = live
  BY DEF Believes, scanVars
<1>2. e.bundle = bundle /\ e.available = available
  OBVIOUS
<1> HIDE DEF e
<1>3. PICK R : dry.log \in Seq(R)
  BY DEF IInv, DryInv, LogIsSequence
<1>4. PICK m \in Nat : m = Len(dry.log) /\ at = m + 1
  BY <1>3, LenProperties DEF IInv, DryInv
<1>5. PICK S : dry.log \in Seq(S) /\ e \in S
  <2>1. \A i \in 1 .. Len(dry.log) : dry.log[i] \in R \cup {e}
    BY <1>3, ElementOfSeq
  <2>2. dry.log \in Seq(R \cup {e})
    BY <2>1, <1>3
  <2> QED BY <2>2
<1> DEFINE log == Append(dry.log, e)
<1>6. /\ Len(log) = m + 1 /\ log[m + 1] = e
      /\ \A i \in 1 .. m : log[i] = dry.log[i]
      /\ \A i \in 1 .. m + 1 : Before(log, i) = Before(dry.log, i)
      /\ \A i \in 1 .. m + 1 : Adds(chain, log, i) = Adds(chain, dry.log, i)
      /\ \A i \in 0 .. m + 1 : AddsFrom(chain, log, 1, i) = AddsFrom(chain, dry.log, 1, i)
  <2>1. Extends(log, chain, dry.log, m, e)
    BY <1>4, <1>5, LogGrows
  <2> QED BY <2>1 DEF Extends
<1>7. dry'.log = log /\ dry'.bundle = bundle /\ dry'.available = available
  BY <1>1
<1> HIDE DEF log
<1>8. DryMirror /\ NothingRuns /\ DOMAIN live = LiveFields
  BY DEF MirrorInv
<1>9. bundle = Before(log, m + 2)
  <2>1. m + 2 # 1 /\ (m + 2) - 1 = m + 1
    OBVIOUS
  <2> QED BY <1>2, <1>6, <2>1 DEF Before
<1>10. Beliefs(chain, groups, log)
  <2> SUFFICES ASSUME NEW i \in 1 .. m + 1 PROVE BeliefAt(chain, groups, log, i)
    BY <1>6 DEF Beliefs
  <2>1. CASE i = m + 1
    <3>1. Before(log, i) = dry.bundle /\ log[i].bundle = bundle
      BY <1>2, <1>4, <1>6, <1>8, <2>1 DEF DryMirror
    <3> QED BY <3>1, <1>4, <2>1, HolderIsGroup DEF BeliefAt
  <2>2. CASE i \in 1 .. m
    <3>1. BeliefAt(chain, groups, dry.log, i)
      BY <1>4, <1>8, <2>2 DEF DryMirror, Beliefs
    <3>2. Before(log, i) = Before(dry.log, i) /\ log[i] = dry.log[i]
      BY <1>6, <2>2
    <3> QED BY <3>1, <3>2 DEF BeliefAt
  <2> QED BY <2>1, <2>2
<1>11. AddsFrom(chain, log, 1, m + 1)
         = AddsFrom(chain, dry.log, 1, m) \cup Adds(chain, dry.log, at)
  <2>1. m + 1 \in 0 .. m + 1 /\ 1 <= m + 1
    OBVIOUS
  <2> QED BY <1>4, <1>6, <2>1, AddsOfFew
<1>12. available \subseteq live.arena \cup AddsFrom(chain, log, 1, m + 1)
  BY <1>4, <1>8, <1>11 DEF DryMirror
<1>13. Opened(chain, log, live.arena)
  <2> SUFFICES ASSUME chain[1].kind = "read3d"
               PROVE  log[1].bundle["geometry"] <=> chain[1].names[2] \in live.arena
    BY DEF Opened
  <2>1. CASE m = 0
    BY <1>2, <1>4, <1>6, <2>1
  <2>2. CASE m # 0
    <3>1. m > 0 /\ 1 \in 1 .. m
      BY <2>2
    <3> QED BY <1>4, <1>6, <1>8, <3>1 DEF DryMirror, Opened
  <2> QED BY <2>1, <2>2
<1>14. Reaches(chain, log, live.arena, 1)
  <2> SUFFICES ASSUME NEW i \in 1 .. m + 1
               PROVE  log[i].available \subseteq live.arena \cup AddsFrom(chain, log, 1, i)
    BY <1>6 DEF Reaches
  <2>1. CASE i = m + 1
    BY <1>2, <1>6, <1>12, <2>1
  <2>2. CASE i \in 1 .. m
    <3>1. dry.log[i].available \subseteq live.arena \cup AddsFrom(chain, dry.log, 1, i)
      BY <1>4, <1>8, <2>2 DEF DryMirror, Reaches
    <3>2. i \in 0 .. m + 1
      BY <2>2
    <3> QED BY <1>6, <2>2, <3>1, <3>2
  <2> QED BY <2>1, <2>2
<1>15. DryMirror'
  <2>0. at' = m + 2
    BY <1>1, <1>4
  <2>1. dry'.bundle = Before(dry'.log, at')
    BY <2>0, <1>7, <1>9
  <2>2. dry'.available \subseteq live'.arena \cup AddsFrom(chain', dry'.log, 1, Len(dry'.log))
    BY <1>1, <1>6, <1>7, <1>12
  <2>3. Beliefs(chain', groups', dry'.log)
    BY <1>1, <1>7, <1>10
  <2>4. Opened(chain', dry'.log, live'.arena) /\ Reaches(chain', dry'.log, live'.arena, 1)
    BY <1>1, <1>7, <1>13, <1>14
  <2> QED BY <2>1, <2>2, <2>3, <2>4 DEF DryMirror
<1>16. NothingRuns'
  <2>1. dry'.log # <<>>
    BY <1>6, <1>7, EmptySeq
  <2> QED BY <1>1, <1>8, <2>1 DEF NothingRuns
<1> QED BY <1>1, <1>8, <1>15, <1>16 DEF MirrorInv

LEMMA BeforeBundle ==
    ASSUME NEW c, NEW gs, NEW log, Beliefs(c, gs, log), Len(log) \in Nat,
           NEW i \in 1 .. Len(log) + 1
    PROVE  Before(log, i) \in Bundles
<1>1. CASE i = 1
  BY <1>1, FixedBundles DEF Before
<1>2. CASE i # 1
  <2>1. i - 1 \in 1 .. Len(log)
    BY <1>2
  <2> QED BY <1>2, <2>1 DEF Before, Beliefs, BeliefAt, Hands
<1> QED BY <1>1, <1>2

LEMMA RunBundleType ==
    ASSUME NEW s, NEW b \in Bundles
    PROVE  RunBundle(s, b) \in Bundles
BY RecordBundle DEF RunBundle, PassesThrough, Bundles, Components

LEMMA IdleBundleType ==
    ASSUME NEW s, NEW front, NEW b \in Bundles
    PROVE  IdleBundle(s, front, b) \in Bundles
<1>1. [image |-> FALSE, volume |-> TRUE, geometry |-> ~PassesThrough(s.effect.outputGeo)] \in Bundles
  BY RecordBundle DEF PassesThrough
<1> QED BY <1>1, FixedBundles DEF IdleBundle

\* A volume or a geometry that a step makes is there after it.
LEMMA MadeOutput ==
    ASSUME NEW s \in Steps, NEW name \in {s.effect.outputTex3d, s.effect.outputGeo},
           ~PassesThrough(name)
    PROVE  name \in Outputs(s) \/ (s.scan.iterated /\ name \in s.textures \ ParticleState)
BY PlanExecutionAssumption

\* bundle_available knows every output that the step does not pass through.
LEMMA BundleAfterRuns ==
    ASSUME NEW s \in Steps, NEW g, s.scan.iterated => g.iterated, NEW available,
           dry.bundle \in Bundles
    PROVE  BundleAfter(s, g, available) = RunBundle(s, dry.bundle)
<1> DEFINE known == dry.produced \cup Outputs(s) \cup available \cup ClearedTextures(s)
                      \cup (IF g.iterated THEN s.textures ELSE {})
           After(name, c) == IF PassesThrough(name) THEN dry.bundle[c] ELSE name \in known
<1>1. \A name \in {s.effect.outputTex3d, s.effect.outputGeo} :
        ~PassesThrough(name) => name \in known
  BY MadeOutput
<1>2. \A c \in Components : dry.bundle[c] \in BOOLEAN
  BY DEF Bundles
<1> HIDE DEF known
<1>3. \A name \in {s.effect.outputTex3d, s.effect.outputGeo} : \A c \in Components :
        After(name, c) = (PassesThrough(name) => dry.bundle[c])
  BY <1>1, <1>2
<1>4. /\ After(s.effect.outputTex3d, "volume")
           = (PassesThrough(s.effect.outputTex3d) => dry.bundle["volume"])
      /\ After(s.effect.outputGeo, "geometry")
           = (PassesThrough(s.effect.outputGeo) => dry.bundle["geometry"])
  BY <1>3 DEF Components
<1>5. BundleAfter(s, g, available)
        = [image    |-> dry.bundle["image"] \/ "outputTex" \in Outputs(s),
           volume   |-> After(s.effect.outputTex3d, "volume"),
           geometry |-> After(s.effect.outputGeo, "geometry")]
  BY DEF BundleAfter, known
<1> HIDE DEF After
<1> QED BY <1>4, <1>5 DEF RunBundle

LEMMA MirrorPreflight ==
    ASSUME IInv, MirrorInv, \/ PreflightRead \/ PreflightWrite \/ PreflightRead3D
                            \/ PreflightWrite3D \/ PreflightEffect
    PROVE  MirrorInv'
<1>1. phase = "preflight" /\ at <= Len(chain)
  BY DEF PreflightRead, PreflightWrite, PreflightRead3D, PreflightWrite3D, PreflightEffect,
         InPreflight
<1>2. DryMirror /\ NothingRuns
  BY <1>1 DEF MirrorInv
<1>3. /\ at \in 1 .. Len(chain) /\ at \in 1 .. Len(dry.log) + 1
      /\ Len(dry.log) \in Nat /\ at = Len(dry.log) + 1
  <2>1. PICK S : dry.log \in Seq(S)
    BY DEF IInv, DryInv, LogIsSequence
  <2>2. PICK m \in Nat : m = Len(dry.log) /\ at = m + 1
    BY <1>1, <2>1, LenProperties DEF IInv, DryInv
  <2>3. Len(chain) \in Nat
    BY LenProperties DEF IInv, CompileInv
  <2> QED BY <1>1, <2>2, <2>3
<1>4. /\ chain[at] \in Steps
      /\ chain[at].kind \in {"read", "read3d"} => at = 1
  BY <1>3, ElementOfSeq DEF IInv, CompileInv, Link
<1>5. dry.bundle \in Bundles
  BY <1>2, <1>3, BeforeBundle DEF DryMirror
<1>6. ASSUME NEW missing, End("rejected", missing) PROVE MirrorInv'
  BY <1>6, MirrorEnds DEF End
<1>7. CASE PreflightRead
  <2>1. chain[at].kind = "read"
    BY <1>7 DEF PreflightRead, InPreflight
  <2>2. \A front, idle : Hands(chain[at], front, idle, dry.bundle, ImageOnly)
    BY <2>1, FixedBundles DEF Hands
  <2>3. CASE Believes(ImageOnly, dry.produced, dry.available)
    BY <1>1, <2>1, <2>2, <2>3, MirrorBelieves
  <2> QED BY <1>6, <1>7, <2>3 DEF PreflightRead
<1>8. CASE PreflightWrite
  <2>1. chain[at].kind = "write"
    BY <1>8 DEF PreflightWrite, InPreflight
  <2>2. \A front, idle : Hands(chain[at], front, idle, dry.bundle, dry.bundle)
    BY <1>5, <2>1 DEF Hands
  <2>3. Adds(chain, dry.log, at) = {chain[at].names[1]}
    BY <2>1 DEF Adds
  <2>4. CASE Believes(dry.bundle, dry.produced, dry.available \cup {chain[at].names[1]})
    BY <1>1, <2>1, <2>2, <2>3, <2>4, MirrorBelieves
  <2> QED BY <1>6, <1>8, <2>4 DEF PreflightWrite
<1>9. CASE PreflightRead3D
  <2> DEFINE there == chain[at].names[2] \in dry.available
             bundle == [image |-> FALSE, volume |-> TRUE, geometry |-> there]
  <2>1. chain[at].kind = "read3d" /\ at = 1
    BY <1>4, <1>9 DEF PreflightRead3D, InPreflight
  <2>2. bundle \in Bundles /\ ~bundle["image"] /\ bundle["volume"] /\ (bundle["geometry"] <=> there)
    <3>1. there \in BOOLEAN
      OBVIOUS
    <3> HIDE DEF there
    <3> QED BY <3>1, RecordBundle
  <2>3. there <=> chain[1].names[2] \in live.arena
    <3>1. Len(dry.log) = 0
      BY <1>3, <2>1
    <3>2. PICK S : dry.log \in Seq(S)
      BY DEF IInv, DryInv, LogIsSequence
    <3>3. dry.log = <<>>
      BY <3>1, <3>2, EmptySeq
    <3>4. chain[1].names[2] \in Surfaces
      BY <1>4, <2>1, PlanExecutionAssumption
    <3> QED BY <1>2, <2>1, <3>3, <3>4 DEF NothingRuns
  <2> HIDE DEF bundle, there
  <2>4. \A front, idle : Hands(chain[at], front, idle, dry.bundle, bundle)
    BY <2>1, <2>2 DEF Hands
  <2>5. CASE Believes(bundle, dry.produced, dry.available)
    BY <1>1, <2>1, <2>2, <2>3, <2>4, <2>5, MirrorBelieves
  <2> QED BY <1>6, <1>9, <2>5 DEF PreflightRead3D, bundle, there
<1>10. CASE PreflightWrite3D
  <2>1. chain[at].kind = "write3d"
    BY <1>10 DEF PreflightWrite3D, InPreflight
  <2>2. \A front, idle : Hands(chain[at], front, idle, dry.bundle, dry.bundle)
    BY <1>5, <2>1 DEF Hands
  <2>3. Adds(chain, dry.log, at) = Stored(chain[at].names, dry.bundle)
    BY <1>2, <2>1 DEF Adds, DryMirror
  <2>4. Believes(dry.bundle, dry.produced,
                 dry.available \cup Stored(chain[at].names, dry.bundle))
    BY <1>10 DEF PreflightWrite3D
  <2> QED BY <1>1, <2>1, <2>2, <2>3, <2>4, MirrorBelieves
<1>11. CASE PreflightEffect
  <2> DEFINE s == chain[at]
             g == TheGroup(at)
             zero == g.iterated /\ chain[g.steps[1]].zero
             available == dry.available \cup Publishes(ArgumentsOf(s))
             missing == PreflightLacks(s, g, zero, available)
             idle == PreflightZero(s, at = g.steps[1])
             busy == BundleAfter(s, g, available)
  <2>1. s.kind = "effect"
    BY <1>11 DEF PreflightEffect, InPreflight
  <2>2. Adds(chain, dry.log, at) = Publishes(ArgumentsOf(s))
    BY <2>1 DEF Adds
  <2>3. zero = Idles(g, chain)
    BY DEF Idles
  <2>4. s.scan.iterated => g.iterated
    BY <1>1, <1>3, GroupOfStep DEF IInv, GroupOK, Holds
  <2>5. idle = IdleBundle(s, at = g.steps[1], dry.bundle)
    BY DEF PreflightZero, IdleBundle
  <2>6. busy = RunBundle(s, dry.bundle)
    BY <1>4, <1>5, <2>4, BundleAfterRuns
  <2>7. \/ End("rejected", missing)
        \/ zero /\ Believes(idle, dry.produced, available)
        \/ ~zero /\ Believes(busy, dry.produced \cup Outputs(s), available)
    BY <1>11 DEF PreflightEffect
  <2>8. available \subseteq dry.available \cup Adds(chain, dry.log, at)
    BY <2>2
  <2> HIDE DEF zero, missing, idle, busy, available, g
  <2>9. zero => Hands(s, at = g.steps[1], Idles(g, chain), dry.bundle, idle)
    BY <1>5, <2>1, <2>3, <2>5, IdleBundleType DEF Hands
  <2>10. ~zero => Hands(s, at = g.steps[1], Idles(g, chain), dry.bundle, busy)
    BY <1>5, <2>1, <2>3, <2>6, RunBundleType DEF Hands
  <2>11. s.kind # "read3d"
    BY <2>1
  <2>12. CASE zero /\ Believes(idle, dry.produced, available)
    <3>1. Hands(chain[at], at = TheGroup(at).steps[1], Idles(TheGroup(at), chain), dry.bundle, idle)
      BY <2>9, <2>12 DEF g
    <3> QED BY <1>1, <2>8, <2>11, <2>12, <3>1, MirrorBelieves
  <2>13. CASE ~zero /\ Believes(busy, dry.produced \cup Outputs(s), available)
    <3>1. Hands(chain[at], at = TheGroup(at).steps[1], Idles(TheGroup(at), chain), dry.bundle, busy)
      BY <2>10, <2>13 DEF g
    <3> QED BY <1>1, <2>8, <2>11, <2>13, <3>1, MirrorBelieves
  <2> QED BY <1>6, <2>7, <2>12, <2>13
<1> QED BY <1>7, <1>8, <1>9, <1>10, <1>11

-----------------------------------------------------------------------------
\* A group at a time.

\* The group that is executed, of m steps from step n, and what lies where.
GroupPlace(n, m) ==
    /\ n \in 1 .. Len(chain) /\ m \in Nat \ {0} /\ Start(groups, at + 1) = n + m
    /\ Len(dry.log) = Len(chain) /\ Len(chain) \in Nat
    /\ \A p \in 1 .. m :
          /\ Group.steps[p] = n + p - 1 /\ n + p - 1 \in 1 .. Len(chain)
          /\ HolderOf(groups, n + p - 1) = Group
          /\ chain[n + p - 1] \in Steps
    /\ Group.steps[1] = n /\ HolderOf(groups, n) = Group
    /\ \A i \in 1 .. Len(chain) : BeliefAt(chain, groups, dry.log, i)
    /\ Runnable(Group, chain)
    /\ \A i \in 1 .. Len(chain) + 1 : Before(dry.log, i) \in Bundles
    /\ \A i \in 1 .. Len(chain) : Before(dry.log, i + 1) = dry.log[i].bundle

LEMMA GroupAt ==
    ASSUME IInv, GroupedInv, MirrorInv, phase = "execute", at \in 1 .. Len(groups),
           NEW n, n = Start(groups, at), NEW m, m = Len(Group.steps)
    PROVE  GroupPlace(n, m)
<1>1. /\ outcome = "done" /\ groups \in Seq(Scan!GroupType) /\ chain \in Seq(Steps)
      /\ T!Cuts(groups, Len(chain)) /\ Runnable(Group, chain) /\ Len(chain) \in Nat
  BY LenProperties DEF IInv, LoopInv, GroupsInv, CompileInv, GroupedInv, Group
<1>2. LiveMirror
  BY DEF MirrorInv
<1>3. /\ n \in 1 .. Len(chain) /\ m \in Nat \ {0} /\ Start(groups, at + 1) = n + m
      /\ T!Last(Group) = n + m - 1 /\ T!Last(Group) \in 1 .. Len(chain)
      /\ \A p \in 1 .. m : /\ Group.steps[p] = n + p - 1
                          /\ HolderOf(groups, Group.steps[p]) = Group
  <2>1. Lies(groups, Len(chain), at)
    BY <1>1, PlaceOfGroup
  <2>2. groups[at] = Group
    BY DEF Group
  <2> QED BY <2>1, <2>2 DEF Lies
<1>4. ASSUME NEW p \in 1 .. m PROVE n + p - 1 \in 1 .. Len(chain)
  <2>1. PICK l \in Nat : l = Len(chain)
    BY <1>1
  <2>2. n \in 1 .. l /\ m \in Nat /\ n + m - 1 \in 1 .. l
    BY <1>3, <2>1
  <2>3. n + p - 1 \in 1 .. l
    BY <2>2
  <2> QED BY <2>1, <2>3
<1>5. 1 \in 1 .. m /\ n + 1 - 1 = n
  BY <1>3
<1>6. \A i \in 1 .. Len(chain) : chain[i] \in Steps
  BY <1>1, ElementOfSeq
<1>7. \A i \in 1 .. Len(chain) : BeliefAt(chain, groups, dry.log, i)
  BY <1>2 DEF LiveMirror, Beliefs
<1>8. \A i \in 1 .. Len(chain) + 1 : Before(dry.log, i) \in Bundles
  BY <1>1, <1>2, BeforeBundle DEF LiveMirror
<1>9. ASSUME NEW i \in 1 .. Len(chain) PROVE Before(dry.log, i + 1) = dry.log[i].bundle
  <2>1. i + 1 # 1 /\ (i + 1) - 1 = i
    BY <1>1
  <2> QED BY <2>1 DEF Before
<1>10. Len(dry.log) = Len(chain)
  BY <1>2 DEF LiveMirror
<1>11. Group.steps[1] = n /\ HolderOf(groups, n) = Group
  BY <1>3, <1>5
<1>12. \A p \in 1 .. m : HolderOf(groups, n + p - 1) = Group
  BY <1>3
<1> QED BY <1>1, <1>3, <1>4, <1>6, <1>7, <1>8, <1>9, <1>10, <1>11, <1>12
       DEF GroupPlace

\* The group ends, with the bundle and the surfaces that the dry run believed in.
LEMMA MirrorLeaves ==
    ASSUME IInv, GroupedInv, MirrorInv, phase = "execute", at \in 1 .. Len(groups),
           NEW bundle, NEW arena, Leaves(bundle, arena),
           bundle = Before(dry.log, Start(groups, at + 1)),
           Reaches(chain, dry.log, arena, Start(groups, at + 1))
    PROVE  MirrorInv'
<1>1. /\ live' = [bundle |-> bundle, arena |-> arena, member |-> 0,
                  carried |-> NoCarried, shared |-> {}]
      /\ at' = at + 1 /\ phase' = "execute"
      /\ chain' = chain /\ groups' = groups /\ dry' = dry
  BY DEF Leaves, scanVars
<1>2. /\ DOMAIN live' = LiveFields /\ live'.bundle = bundle /\ live'.arena = arena
      /\ live'.member = 0
  BY <1>1 DEF LiveFields
<1>3. LiveMirror
  BY DEF MirrorInv
<1>4. Len(groups) \in Nat
  BY LenProperties DEF IInv, GroupsInv
<1>5. at' \in 1 .. Len(groups') + 1 /\ at' # 1
  BY <1>1, <1>4
<1>6. BetweenMirror'
  <2>1. live'.bundle = Before(dry'.log, Start(groups', at'))
    BY <1>1, <1>2
  <2>2. Reaches(chain', dry'.log, live'.arena, Start(groups', at'))
    BY <1>1, <1>2
  <2> QED BY <2>1, <2>2, <1>5 DEF BetweenMirror
<1>7. LiveMirror'
  <2>1. Len(dry'.log) = Len(chain') /\ Beliefs(chain', groups', dry'.log)
    BY <1>1, <1>3 DEF LiveMirror
  <2> QED BY <2>1, <1>2, <1>5, <1>6 DEF LiveMirror
<1> QED BY <1>1, <1>2, <1>7 DEF MirrorInv

\* A group of one step that is not iterated.
LEMMA MirrorSingle ==
    ASSUME IInv, GroupedInv, MirrorInv, BetweenGroups, at \in 1 .. Len(groups), ~Group.iterated,
           NEW n, n = Start(groups, at),
           NEW bundle, NEW arena, Leaves(bundle, arena),
           live.arena \subseteq arena, Adds(chain, dry.log, n) \subseteq arena,
           bundle = dry.log[n].bundle
    PROVE  MirrorInv'
<1>1. phase = "execute" /\ live.member = 0
  BY DEF BetweenGroups
<1>2. PICK m : m = Len(Group.steps)
  OBVIOUS
<1>3. /\ n \in 1 .. Len(chain) /\ Start(groups, at + 1) = n + m /\ m = 1
      /\ Before(dry.log, n + 1) = dry.log[n].bundle
      /\ Len(dry.log) = Len(chain) /\ Len(chain) \in Nat
  BY <1>1, <1>2, GroupAt DEF GroupPlace, Runnable
<1>4. Reaches(chain, dry.log, live.arena, n)
  BY <1>1 DEF MirrorInv, LiveMirror, BetweenMirror
<1>5. n \in Nat /\ n + 1 \in Nat /\ n <= n + 1 /\ (n + 1) - 1 = n /\ n .. n = {n}
  BY <1>3
<1>6. \A j \in n .. (n + 1) - 1 : Adds(chain, dry.log, j) \subseteq arena
  BY <1>5
<1>7. Reaches(chain, dry.log, arena, n + 1)
  BY <1>3, <1>4, <1>5, <1>6, ReachesLater
<1> QED BY <1>1, <1>3, <1>7, MirrorLeaves

LEMMA MirrorAdmitted ==
    ASSUME IInv, MirrorInv, Admitted
    PROVE  MirrorInv'
<1>1. /\ phase = "preflight" /\ at > Len(chain) /\ phase' = "execute" /\ at' = 1
      /\ chain' = chain /\ groups' = groups /\ dry' = dry /\ live' = live
  BY DEF Admitted, scanVars
<1>2. DryMirror /\ NothingRuns /\ DOMAIN live = LiveFields
  BY <1>1 DEF MirrorInv
<1>3. Len(dry.log) = Len(chain)
  <2>1. PICK S : dry.log \in Seq(S)
    BY DEF IInv, DryInv, LogIsSequence
  <2>2. PICK m \in Nat : m = Len(dry.log) /\ at = m + 1
    BY <1>1, <2>1, LenProperties DEF IInv, DryInv
  <2>3. PICK l \in Nat : l = Len(chain)
    BY LenProperties DEF IInv, CompileInv
  <2>4. at <= l + 1 /\ at > l
    BY <1>1, <2>3 DEF IInv, DryInv
  <2> QED BY <2>2, <2>3, <2>4
<1>4. PICK k \in Nat : k = Len(groups)
  BY LenProperties DEF IInv, GroupsInv
<1>5. 1 \in 1 .. Len(groups) + 1
  BY <1>4
<1>6. Start(groups, 1) = 1 /\ Before(dry.log, 1) = EmptyBundle
  BY DEF Start, Before
<1>7. BetweenMirror'
  BY <1>1, <1>2, <1>6 DEF BetweenMirror, DryMirror, NothingRuns
<1>8. LiveMirror'
  BY <1>1, <1>2, <1>3, <1>5, <1>7 DEF LiveMirror, DryMirror, NothingRuns
<1> QED BY <1>1, <1>2, <1>8 DEF MirrorInv

\* What is known when a step that is not iterated is executed.
LEMMA SingleAt ==
    ASSUME IInv, GroupedInv, MirrorInv, NEW kind, Executes(kind),
           NEW n, n = Start(groups, at)
    PROVE  /\ BetweenGroups /\ phase = "execute" /\ live.member = 0
           /\ at \in 1 .. Len(groups) /\ ~Group.iterated /\ n \in 1 .. Len(chain)
           /\ Front = chain[n] /\ Front \in Steps /\ Front.kind = kind
           /\ ~Front.scan.iterated
           /\ live.bundle = Before(dry.log, n) /\ live.bundle \in Bundles
           /\ Hands(Front, TRUE, FALSE, live.bundle, dry.log[n].bundle)
<1>1. BetweenGroups /\ ~Group.iterated /\ Front.kind = kind
  BY DEF Executes
<1>2. phase = "execute" /\ live.member = 0 /\ at <= Len(groups)
  BY <1>1 DEF BetweenGroups
<1>3. LiveMirror /\ BetweenMirror
  BY <1>2 DEF MirrorInv, LiveMirror
<1>4. at \in 1 .. Len(groups)
  <2>1. PICK k \in Nat : k = Len(groups)
    BY LenProperties DEF IInv, GroupsInv
  <2> QED BY <1>2, <1>3, <2>1 DEF LiveMirror
<1>5. PICK m : m = Len(Group.steps)
  OBVIOUS
<1>6. /\ n \in 1 .. Len(chain) /\ Group.steps[1] = n /\ HolderOf(groups, n) = Group
      /\ Len(chain) \in Nat
      /\ \A i \in 1 .. Len(chain) : BeliefAt(chain, groups, dry.log, i)
      /\ Runnable(Group, chain)
      /\ \A i \in 1 .. Len(chain) + 1 : Before(dry.log, i) \in Bundles
  BY <1>2, <1>4, <1>5, GroupAt DEF GroupPlace
<1>7. Front = chain[n] /\ ~Front.scan.iterated
  BY <1>1, <1>6 DEF Front, Runnable
<1>8. Front \in Steps
  BY <1>6, <1>7, ElementOfSeq DEF IInv, CompileInv
<1>9. live.bundle = Before(dry.log, n)
  BY <1>3 DEF BetweenMirror
<1>10. live.bundle \in Bundles
  <2>1. n \in 1 .. Len(chain) + 1
    BY <1>6
  <2> QED BY <1>6, <1>9, <2>1
<1>11. BeliefAt(chain, groups, dry.log, n)
  BY <1>6
<1>12. Hands(Front, TRUE, FALSE, live.bundle, dry.log[n].bundle)
  <2>1. Idles(Group, chain) = FALSE
    BY <1>1 DEF Idles
  <2>2. (n = Group.steps[1]) = TRUE
    BY <1>6
  <2> QED BY <1>6, <1>7, <1>9, <1>11, <2>1, <2>2 DEF BeliefAt
<1> QED BY <1>1, <1>2, <1>4, <1>6, <1>7, <1>8, <1>9, <1>10, <1>12

LEMMA MirrorFails ==
    ASSUME MirrorInv, NEW missing, End("failed", missing)
    PROVE  MirrorInv'
BY MirrorEnds DEF End

LEMMA MirrorRead ==
    ASSUME IInv, GroupedInv, MirrorInv, Read
    PROVE  MirrorInv'
<1>1. PICK n : n = Start(groups, at)
  OBVIOUS
<1>2. Executes("read")
  BY DEF Read
<1>3. CASE Leaves(ImageOnly, live.arena)
  <2>1. /\ BetweenGroups /\ at \in 1 .. Len(groups) /\ ~Group.iterated
        /\ Front = chain[n] /\ Front.kind = "read"
        /\ Hands(Front, TRUE, FALSE, live.bundle, dry.log[n].bundle)
    BY <1>1, <1>2, SingleAt
  <2>2. dry.log[n].bundle = ImageOnly
    BY <2>1 DEF Hands
  <2>3. Adds(chain, dry.log, n) = {}
    BY <2>1 DEF Adds
  <2> QED BY <1>1, <1>3, <2>1, <2>2, <2>3, MirrorSingle
<1> QED BY <1>3, MirrorFails DEF Read

LEMMA MirrorWrite ==
    ASSUME IInv, GroupedInv, MirrorInv, Write
    PROVE  MirrorInv'
<1>1. PICK n : n = Start(groups, at)
  OBVIOUS
<1>2. Executes("write")
  BY DEF Write
<1>3. CASE Leaves(live.bundle, live.arena \cup {Front.names[1]})
  <2>1. /\ BetweenGroups /\ at \in 1 .. Len(groups) /\ ~Group.iterated
        /\ Front = chain[n] /\ Front.kind = "write"
        /\ Hands(Front, TRUE, FALSE, live.bundle, dry.log[n].bundle)
    BY <1>1, <1>2, SingleAt
  <2>2. dry.log[n].bundle = live.bundle
    BY <2>1 DEF Hands
  <2>3. Adds(chain, dry.log, n) = {Front.names[1]}
    BY <2>1 DEF Adds
  <2> QED BY <1>1, <1>3, <2>1, <2>2, <2>3, MirrorSingle
<1> QED BY <1>3, MirrorFails DEF Write

LEMMA MirrorWrite3D ==
    ASSUME IInv, GroupedInv, MirrorInv, Write3D
    PROVE  MirrorInv'
<1>1. PICK n : n = Start(groups, at)
  OBVIOUS
<1>2. Executes("write3d") /\ Leaves(live.bundle, live.arena \cup Stored(Front.names, live.bundle))
  BY DEF Write3D
<1>3. /\ BetweenGroups /\ at \in 1 .. Len(groups) /\ ~Group.iterated
      /\ Front = chain[n] /\ Front.kind = "write3d" /\ live.bundle = Before(dry.log, n)
      /\ Hands(Front, TRUE, FALSE, live.bundle, dry.log[n].bundle)
  BY <1>1, <1>2, SingleAt
<1>4. dry.log[n].bundle = live.bundle
  BY <1>3 DEF Hands
<1>5. Adds(chain, dry.log, n) = Stored(Front.names, live.bundle)
  BY <1>3 DEF Adds
<1> QED BY <1>1, <1>2, <1>3, <1>4, <1>5, MirrorSingle

LEMMA MirrorRead3D ==
    ASSUME IInv, GroupedInv, MirrorInv, Read3D
    PROVE  MirrorInv'
<1>1. PICK n : n = Start(groups, at)
  OBVIOUS
<1> DEFINE there == Front.names[2] \in live.arena
           bundle == [image |-> FALSE, volume |-> TRUE, geometry |-> there]
<1>2. Executes("read3d")
  BY DEF Read3D
<1>3. CASE Leaves(bundle, live.arena)
  <2>1. /\ BetweenGroups /\ phase = "execute" /\ live.member = 0
        /\ at \in 1 .. Len(groups) /\ ~Group.iterated /\ n \in 1 .. Len(chain)
        /\ Front = chain[n] /\ Front \in Steps /\ Front.kind = "read3d"
        /\ Hands(Front, TRUE, FALSE, live.bundle, dry.log[n].bundle)
    BY <1>1, <1>2, SingleAt
  <2>2. n = 1
    BY <2>1 DEF IInv, CompileInv, Link
  <2>3. at = 1
    <3> SUFFICES ASSUME at # 1 PROVE FALSE
      OBVIOUS
    <3>1. PICK j : j = at - 1
      OBVIOUS
    <3>2. PICK l \in Nat : l = Len(groups)
      BY LenProperties DEF IInv, GroupsInv
    <3>3. j \in 1 .. Len(groups) /\ j + 1 = at
      BY <2>1, <3>1, <3>2
    <3>4. groups \in Seq(Scan!GroupType) /\ Len(chain) \in Nat /\ T!Cuts(groups, Len(chain))
      BY <2>1, LenProperties DEF IInv, LoopInv, GroupsInv, CompileInv, GroupedInv
    <3>5. Lies(groups, Len(chain), j)
      BY <3>3, <3>4, PlaceOfGroup
    <3>6. PICK a, b : a = Start(groups, j) /\ b = Len(groups[j].steps)
      OBVIOUS
    <3>7. a \in 1 .. Len(chain) /\ b \in Nat \ {0} /\ Start(groups, at) = a + b
      BY <3>3, <3>5, <3>6 DEF Lies
    <3>8. PICK h \in Nat : h = Len(chain)
      BY <3>4
    <3>9. a \in 1 .. h /\ b \in Nat \ {0} /\ a + b = 1
      BY <1>1, <2>2, <3>7, <3>8
    <3> QED BY <3>9
  <2>4. Opened(chain, dry.log, live.arena) /\ Len(dry.log) = Len(chain)
    BY <2>1, <2>3 DEF MirrorInv, LiveMirror, BetweenMirror
  <2>5. Len(dry.log) > 0
    <3>1. PICK l \in Nat : l = Len(chain)
      BY LenProperties DEF IInv, CompileInv
    <3> QED BY <2>1, <2>4, <3>1
  <2>6. dry.log[n].bundle["geometry"] <=> there
    BY <2>1, <2>2, <2>4, <2>5 DEF Opened
  <2>7. there \in BOOLEAN
    OBVIOUS
  <2> HIDE DEF there
  <2>8. bundle \in Bundles /\ ~bundle["image"] /\ bundle["volume"] /\ (bundle["geometry"] <=> there)
    BY <2>7, RecordBundle
  <2>9. /\ dry.log[n].bundle \in Bundles
        /\ ~dry.log[n].bundle["image"] /\ dry.log[n].bundle["volume"]
    BY <2>1 DEF Hands
  <2> HIDE DEF bundle
  <2>10. dry.log[n].bundle = bundle
    BY <2>6, <2>8, <2>9, SameBundle
  <2>11. Adds(chain, dry.log, n) = {}
    BY <2>1 DEF Adds
  <2> QED BY <1>1, <1>3, <2>1, <2>10, <2>11, MirrorSingle
<1>4. CASE End("failed", {"surface"})
  BY <1>4, MirrorFails
<1>5. Leaves(bundle, live.arena) \/ End("failed", {"surface"})
  BY DEF Read3D
<1> HIDE DEF bundle
<1> QED BY <1>3, <1>4, <1>5

\* What the arguments of a step of the group publish is in the group's arena.
LEMMA GroupAdds ==
    ASSUME NEW p \in Positions
    PROVE  Publishes(ArgumentsOf(chain[Group.steps[p]])) \subseteq Arena
<1>1. ArgumentsOf(chain[Group.steps[p]]) \subseteq GroupArguments(Positions)
  BY DEF GroupArguments
<1> QED BY <1>1 DEF Publishes, Arena

\* What a step that is not iterated leaves, and hands on.
RunArena == Arena \cup ClearedTextures(Front) \cup Outputs(Front)

RunHands ==
    LET After(name, c) == IF PassesThrough(name) THEN live.bundle[c] ELSE name \in RunArena
    IN  [image    |-> \/ live.bundle["image"]
                      \/ "outputTex" \in Outputs(Front)
                      \/ ~IsVolumeDomain(Front.effect.domain) /\ Running(Front) # {},
         volume   |-> After(Front.effect.outputTex3d, "volume"),
         geometry |-> After(Front.effect.outputGeo, "geometry")]

LEMMA RunsAsBelieved ==
    ASSUME Front \in Steps, Front.kind = "effect", live.bundle \in Bundles,
           ~Front.scan.iterated
    PROVE  RunHands = RunBundle(Front, live.bundle)
<1> DEFINE s == Front
           After(name, c) == IF PassesThrough(name) THEN live.bundle[c] ELSE name \in RunArena
<1>1. "outputTex" \in Outputs(s) \/ IsVolumeDomain(s.effect.domain)
  BY PlanCatalogAssumption DEF IsVolumeDomain
<1>2. \A name \in {s.effect.outputTex3d, s.effect.outputGeo} :
        ~PassesThrough(name) => name \in RunArena
  BY MadeOutput DEF RunArena
<1>3. \A c \in Components : live.bundle[c] \in BOOLEAN
  BY DEF Bundles
<1>4. RunHands = [image    |-> \/ live.bundle["image"]
                               \/ "outputTex" \in Outputs(s)
                               \/ ~IsVolumeDomain(s.effect.domain) /\ Running(s) # {},
                  volume   |-> After(s.effect.outputTex3d, "volume"),
                  geometry |-> After(s.effect.outputGeo, "geometry")]
  BY DEF RunHands
<1> HIDE DEF s
<1>5. \A name \in {s.effect.outputTex3d, s.effect.outputGeo} : \A c \in Components :
        After(name, c) = (PassesThrough(name) => live.bundle[c])
  BY <1>2, <1>3
<1>6. /\ After(s.effect.outputTex3d, "volume")
           = (PassesThrough(s.effect.outputTex3d) => live.bundle["volume"])
      /\ After(s.effect.outputGeo, "geometry")
           = (PassesThrough(s.effect.outputGeo) => live.bundle["geometry"])
  BY <1>5 DEF Components
<1>7. (\/ live.bundle["image"]
       \/ "outputTex" \in Outputs(s)
       \/ ~IsVolumeDomain(s.effect.domain) /\ Running(s) # {})
      = (live.bundle["image"] \/ "outputTex" \in Outputs(s))
  BY <1>1
<1> HIDE DEF After
<1>8. RunHands = RunBundle(s, live.bundle)
  BY <1>4, <1>6, <1>7 DEF RunBundle
<1> QED BY <1>8 DEF s

LEMMA RunAdds ==
    ASSUME IInv, GroupedInv, MirrorInv, Executes("effect")
    PROVE  Adds(chain, dry.log, Start(groups, at)) \subseteq RunArena
<1>1. PICK n, m : n = Start(groups, at) /\ m = Len(Group.steps)
  OBVIOUS
<1>2. phase = "execute" /\ at \in 1 .. Len(groups) /\ Front = chain[n] /\ Front.kind = "effect"
  BY <1>1, SingleAt
<1>3. Adds(chain, dry.log, n) = Publishes(ArgumentsOf(Front))
  BY <1>2 DEF Adds
<1>4. 1 \in Positions
  <2>1. m \in Nat \ {0}
    BY <1>1, <1>2, GroupAt DEF GroupPlace
  <2> QED BY <1>1, <2>1 DEF Positions
<1>5. Publishes(ArgumentsOf(Front)) \subseteq Arena
  BY <1>4, GroupAdds DEF Front
<1> QED BY <1>1, <1>3, <1>5 DEF RunArena

LEMMA MirrorRunEffect ==
    ASSUME IInv, GroupedInv, MirrorInv, RunEffect
    PROVE  MirrorInv'
<1>1. PICK n : n = Start(groups, at)
  OBVIOUS
<1>2. Executes("effect")
  BY DEF RunEffect
<1>3. /\ BetweenGroups /\ phase = "execute" /\ live.member = 0
      /\ at \in 1 .. Len(groups) /\ ~Group.iterated
      /\ Front \in Steps /\ Front.kind = "effect" /\ ~Front.scan.iterated
      /\ live.bundle \in Bundles
      /\ Hands(Front, TRUE, FALSE, live.bundle, dry.log[n].bundle)
  BY <1>1, <1>2, SingleAt
<1>4. (\E missing : End("failed", missing)) \/ Leaves(RunHands, RunArena)
  BY DEF RunEffect, RunHands, RunArena, Outputs
<1>5. RunHands = dry.log[n].bundle
  BY <1>3, RunsAsBelieved DEF Hands
<1>6. Adds(chain, dry.log, n) \subseteq RunArena
  BY <1>1, <1>2, RunAdds
<1>7. live.arena \subseteq RunArena
  BY DEF RunArena, Arena
<1>8. CASE Leaves(RunHands, RunArena)
  BY <1>1, <1>3, <1>5, <1>6, <1>7, <1>8, MirrorSingle
<1> QED BY <1>4, <1>8, MirrorFails

\* The steps of an iterated group, and what the dry run believed of each.
LEMMA IteratedAt ==
    ASSUME IInv, GroupedInv, MirrorInv, phase = "execute", at \in 1 .. Len(groups),
           Group.iterated, NEW n, n = Start(groups, at), NEW m, m = Len(Group.steps),
           NEW p \in 1 .. m
    PROVE  LET s == chain[Group.steps[p]]
               b == Before(dry.log, n + p - 1)
           IN  /\ Group.steps[p] = n + p - 1
               /\ s \in Steps /\ s.kind = "effect"
               /\ Adds(chain, dry.log, n + p - 1) \subseteq Arena
               /\ b \in Bundles
               /\ Before(dry.log, n + p)
                    = IF Idles(Group, chain) THEN IdleBundle(s, p = 1, b) ELSE RunBundle(s, b)
<1> DEFINE i == n + p - 1
<1>1. /\ n \in 1 .. Len(chain) /\ m \in Nat \ {0} /\ Len(chain) \in Nat
      /\ \A q \in 1 .. m :
            /\ Group.steps[q] = n + q - 1 /\ n + q - 1 \in 1 .. Len(chain)
            /\ HolderOf(groups, n + q - 1) = Group
            /\ chain[n + q - 1] \in Steps
      /\ Group.steps[1] = n
      /\ \A j \in 1 .. Len(chain) : BeliefAt(chain, groups, dry.log, j)
      /\ Runnable(Group, chain)
      /\ \A j \in 1 .. Len(chain) + 1 : Before(dry.log, j) \in Bundles
      /\ \A j \in 1 .. Len(chain) : Before(dry.log, j + 1) = dry.log[j].bundle
  <2>1. GroupPlace(n, m)
    BY GroupAt
  <2> QED BY <2>1 DEF GroupPlace
<1>2. /\ Group.steps[p] = i /\ i \in 1 .. Len(chain)
      /\ HolderOf(groups, i) = Group /\ chain[i] \in Steps
  BY <1>1
<1>3. n \in Nat /\ p \in Nat
  BY <1>1
<1>4. i + 1 = n + p /\ (i = n <=> p = 1)
  BY <1>3
<1> HIDE DEF i
<1>5. chain[i].kind = "effect"
  BY <1>1, <1>2 DEF Runnable
<1>6. Before(dry.log, i) \in Bundles
  <2>1. i \in 1 .. Len(chain) + 1
    BY <1>1, <1>2
  <2> QED BY <1>1, <2>1
<1>7. Adds(chain, dry.log, i) \subseteq Arena
  <2>1. Adds(chain, dry.log, i) = Publishes(ArgumentsOf(chain[Group.steps[p]]))
    BY <1>2, <1>5 DEF Adds
  <2>2. p \in Positions
    BY DEF Positions
  <2> QED BY <2>1, <2>2, GroupAdds
<1>8. Before(dry.log, n + p) = dry.log[i].bundle
  <2>1. Before(dry.log, i + 1) = dry.log[i].bundle
    BY <1>1, <1>2
  <2> QED BY <1>4, <2>1
<1>9. Hands(chain[i], i = n, Idles(Group, chain), Before(dry.log, i), dry.log[i].bundle)
  <2>1. BeliefAt(chain, groups, dry.log, i)
    BY <1>1, <1>2
  <2> QED BY <1>1, <1>2, <2>1 DEF BeliefAt
<1>10. (i = n) = (p = 1)
  BY <1>4
<1>11. dry.log[i].bundle = IF Idles(Group, chain)
                           THEN IdleBundle(chain[i], p = 1, Before(dry.log, i))
                           ELSE RunBundle(chain[i], Before(dry.log, i))
  BY <1>5, <1>9, <1>10 DEF Hands
<1> QED BY <1>2, <1>5, <1>6, <1>7, <1>8, <1>11 DEF i

\* The group runs as often as the dry run took from its first step.
LEMMA OwnerOfTicks ==
    ASSUME IInv, GroupedInv, MirrorInv, phase = "execute", at \in 1 .. Len(groups),
           Group.iterated
    PROVE  TicksOwner.zero <=> Idles(Group, chain)
<1>1. PICK n, m : n = Start(groups, at) /\ m = Len(Group.steps)
  OBVIOUS
<1>2. m \in Nat \ {0} /\ Runnable(Group, chain)
  BY <1>1, GroupAt DEF GroupPlace
<1>3. \A p \in 1 .. m : chain[Group.steps[p]] \in Steps
  BY <1>1, IteratedAt
<1> DEFINE of(p) == chain[Group.steps[p]]
           iterated == {p \in 1 .. m : of(p).scan.iterated}
           first == IF iterated = {} THEN 1
                    ELSE CHOOSE p \in iterated : \A q \in iterated : p <= q
<1>4. TicksOwner = of(first)
  BY <1>1 DEF TicksOwner
<1>5. Idles(Group, chain) <=> of(1).zero
  BY DEF Idles
<1>6. \A p \in 1 .. m : /\ of(p).zero => of(p).scan.iterated
                        /\ of(p).scan.ticks => ~of(p).zero
  BY <1>3, PlanCatalogAssumption, PlanExecutionAssumption
<1>7. \/ of(1).scan.iterated
      \/ m > 1 /\ of(2).scan.iterated /\ of(2).scan.ticks
  BY <1>1, <1>2 DEF Runnable
<1> HIDE DEF of
<1>8. 1 \in 1 .. m
  BY <1>2
<1>9. CASE of(1).scan.iterated
  <2>1. 1 \in iterated /\ \A q \in iterated : 1 <= q
    BY <1>2, <1>9
  <2>2. first \in iterated /\ \A q \in iterated : first <= q
    BY <2>1
  <2>3. first = 1
    <3>1. PICK f : f = first
      OBVIOUS
    <3>2. f \in iterated /\ \A q \in iterated : f <= q
      BY <2>2, <3>1
    <3>3. f \in 1 .. m /\ f <= 1 /\ 1 <= f
      BY <2>1, <3>2
    <3> QED BY <1>2, <3>1, <3>3
  <2> QED BY <1>4, <1>5, <2>3
<1>10. CASE ~of(1).scan.iterated
  <2>1. m > 1 /\ of(2).scan.iterated /\ of(2).scan.ticks
    BY <1>7, <1>10
  <2>2. 2 \in 1 .. m
    BY <1>2, <2>1
  <2>3. 2 \in iterated /\ \A q \in iterated : 2 <= q
    BY <1>2, <1>10, <2>1, <2>2
  <2>4. first \in iterated /\ \A q \in iterated : first <= q
    BY <2>3
  <2>5. first = 2
    <3>1. PICK f : f = first
      OBVIOUS
    <3>2. f \in iterated /\ \A q \in iterated : f <= q
      BY <2>4, <3>1
    <3>3. f \in 1 .. m /\ f <= 2 /\ 2 <= f
      BY <2>3, <3>2
    <3> QED BY <1>2, <3>1, <3>3
  <2>6. ~of(2).zero
    <3>1. of(2).scan.ticks => ~of(2).zero
      BY <1>6, <2>2
    <3> QED BY <2>1, <3>1
  <2>7. ~of(1).zero
    <3>1. of(1).zero => of(1).scan.iterated
      BY <1>6, <1>8
    <3> QED BY <1>10, <3>1
  <2>8. TicksOwner = of(2)
    BY <1>4, <2>5
  <2> QED BY <1>5, <2>6, <2>7, <2>8
<1> QED BY <1>9, <1>10

\* A group of no ticks hands on what its first step starts.
LEMMA IdleGroup ==
    ASSUME IInv, GroupedInv, MirrorInv, phase = "execute", at \in 1 .. Len(groups),
           Group.iterated, Idles(Group, chain), NEW n, n = Start(groups, at)
    PROVE  Before(dry.log, Start(groups, at + 1))
             = IdleBundle(Front, TRUE, Before(dry.log, n))
<1>1. PICK m : m = Len(Group.steps)
  OBVIOUS
<1>2. n \in 1 .. Len(chain) /\ m \in Nat \ {0} /\ Start(groups, at + 1) = n + m
  BY <1>1, GroupAt DEF GroupPlace
<1>3. n \in Nat
  BY <1>2
<1> DEFINE start == IdleBundle(Front, TRUE, Before(dry.log, n))
           S == {k \in Nat : k + 1 \in 1 .. m => Before(dry.log, n + (k + 1)) = start}
<1>4. \A p \in 1 .. m :
        /\ p = 1 => Before(dry.log, n + p) = IdleBundle(Front, TRUE, Before(dry.log, n + p - 1))
        /\ p # 1 => Before(dry.log, n + p) = Before(dry.log, n + p - 1)
  <2> SUFFICES ASSUME NEW p \in 1 .. m
               PROVE  /\ p = 1 => Before(dry.log, n + p)
                                     = IdleBundle(Front, TRUE, Before(dry.log, n + p - 1))
                      /\ p # 1 => Before(dry.log, n + p) = Before(dry.log, n + p - 1)
    OBVIOUS
  <2>1. PICK front : front = (p = 1)
    OBVIOUS
  <2>2. PICK b : b = Before(dry.log, n + p - 1)
    OBVIOUS
  <2>3. Before(dry.log, n + p) = IdleBundle(chain[Group.steps[p]], front, b)
    BY <1>1, <2>1, <2>2, IteratedAt
  <2>4. p = 1 => front = TRUE /\ chain[Group.steps[p]] = Front
    BY <2>1 DEF Front
  <2>5. p # 1 => front = FALSE
    BY <2>1
  <2>6. \A s : IdleBundle(s, FALSE, b) = b
    BY DEF IdleBundle
  <2> QED BY <2>2, <2>3, <2>4, <2>5, <2>6
<1>5. Before(dry.log, n + 1) = start
  <2>1. 1 \in 1 .. m /\ n + 1 - 1 = n
    BY <1>2, <1>3
  <2> QED BY <1>4, <2>1
<1>6. ASSUME NEW p \in 1 .. m, p # 1
      PROVE  Before(dry.log, n + p) = Before(dry.log, n + p - 1)
  BY <1>4, <1>6
<1> HIDE DEF start
<1>7. 0 \in S
  BY <1>5
<1>8. ASSUME NEW k \in Nat, k \in S PROVE k + 1 \in S
  <2> SUFFICES ASSUME (k + 1) + 1 \in 1 .. m
               PROVE  Before(dry.log, n + ((k + 1) + 1)) = start
    OBVIOUS
  <2>1. k + 1 \in 1 .. m /\ (k + 1) + 1 # 1 /\ n + ((k + 1) + 1) - 1 = n + (k + 1)
    BY <1>2, <1>3
  <2>2. Before(dry.log, n + (k + 1)) = start
    BY <1>8, <2>1
  <2>3. Before(dry.log, n + ((k + 1) + 1)) = Before(dry.log, n + ((k + 1) + 1) - 1)
    BY <1>6, <2>1
  <2> QED BY <2>1, <2>2, <2>3
<1> HIDE DEF S
<1>9. Nat \subseteq S
  BY <1>7, <1>8, T!SetInduction, ScanAssumptions
<1>10. m - 1 \in Nat /\ (m - 1) + 1 = m /\ m \in 1 .. m
  BY <1>2
<1>11. m - 1 \in S
  BY <1>9, <1>10
<1>12. Before(dry.log, n + m) = start
  BY <1>10, <1>11 DEF S
<1> QED BY <1>2, <1>12 DEF start

\* A group hands back what the dry run believed in.
LEMMA MirrorPublishes ==
    ASSUME IInv, GroupedInv, MirrorInv, phase = "execute", at \in 1 .. Len(groups),
           NEW carried, NEW arena, Publish(carried, arena),
           \A c \in Components :
             carried[c] # NoRoute <=> Before(dry.log, Start(groups, at + 1))[c],
           Reaches(chain, dry.log, arena, Start(groups, at + 1))
    PROVE  MirrorInv'
<1> DEFINE bundle == [c \in Components |-> carried[c] # NoRoute]
           later == arena \cup {carried[c] : c \in {x \in Components : ~PassesThrough(carried[x])}}
<1>1. PICK n, m : n = Start(groups, at) /\ m = Len(Group.steps)
  OBVIOUS
<1>2. PICK r : r = Start(groups, at + 1)
  OBVIOUS
<1>3. /\ n \in 1 .. Len(chain) /\ m \in Nat \ {0} /\ r = n + m
      /\ n + m - 1 \in 1 .. Len(chain) /\ Len(dry.log) = Len(chain) /\ Len(chain) \in Nat
      /\ \A i \in 1 .. Len(chain) + 1 : Before(dry.log, i) \in Bundles
  <2>1. /\ n \in 1 .. Len(chain) /\ m \in Nat \ {0} /\ r = n + m
        /\ Len(dry.log) = Len(chain) /\ Len(chain) \in Nat
        /\ \A p \in 1 .. m : n + p - 1 \in 1 .. Len(chain)
        /\ \A i \in 1 .. Len(chain) + 1 : Before(dry.log, i) \in Bundles
    BY <1>1, <1>2, GroupAt DEF GroupPlace
  <2>2. m \in 1 .. m
    BY <2>1
  <2> QED BY <2>1, <2>2
<1>4. r \in Nat /\ r \in 1 .. Len(chain) + 1
  BY <1>3
<1>5. bundle = Before(dry.log, r)
  <2>1. Before(dry.log, r) \in Bundles
    BY <1>3, <1>4
  <2>2. bundle \in Bundles /\ \A c \in Components : bundle[c] <=> Before(dry.log, r)[c]
    BY <1>2 DEF Bundles
  <2>3. \A c \in {"image", "volume", "geometry"} : c \in Components
    BY DEF Components
  <2> HIDE DEF bundle
  <2>4. /\ bundle["image"] <=> Before(dry.log, r)["image"]
        /\ bundle["volume"] <=> Before(dry.log, r)["volume"]
        /\ bundle["geometry"] <=> Before(dry.log, r)["geometry"]
    BY <2>2, <2>3
  <2> QED BY <2>1, <2>2, <2>4, SameBundle
<1>6. Reaches(chain, dry.log, later, r)
  <2>1. arena \subseteq later /\ r <= r
    BY <1>4
  <2>2. \A j \in r .. r - 1 : Adds(chain, dry.log, j) \subseteq later
    <3>1. r .. r - 1 = {}
      BY <1>4
    <3> QED BY <3>1
  <2>3. Reaches(chain, dry.log, arena, r)
    BY <1>2
  <2>4. Len(dry.log) \in Nat
    BY <1>3
  <2> HIDE DEF later
  <2> QED BY <1>4, <2>1, <2>2, <2>3, <2>4, ReachesLater
<1>7. (\E missing : End("failed", missing)) \/ Leaves(bundle, later)
  BY DEF Publish
<1> HIDE DEF bundle, later
<1>8. CASE Leaves(bundle, later)
  BY <1>2, <1>5, <1>6, <1>8, MirrorLeaves
<1> QED BY <1>7, <1>8, MirrorFails

\* What the dry run has added for the steps of a group, their arguments publish.
LEMMA GroupStepsAdd ==
    ASSUME IInv, GroupedInv, MirrorInv, phase = "execute", at \in 1 .. Len(groups),
           Group.iterated,
           NEW j \in Start(groups, at) .. Start(groups, at + 1) - 1
    PROVE  Adds(chain, dry.log, j) \subseteq Arena
<1>1. PICK n, m : n = Start(groups, at) /\ m = Len(Group.steps)
  OBVIOUS
<1>2. n \in 1 .. Len(chain) /\ m \in Nat \ {0} /\ Start(groups, at + 1) = n + m
  BY <1>1, GroupAt DEF GroupPlace
<1>3. PICK p \in 1 .. m : j = n + p - 1
  <2>1. n \in Nat /\ j \in n .. (n + m) - 1
    BY <1>1, <1>2
  <2>2. (j - n) + 1 \in 1 .. m /\ j = n + ((j - n) + 1) - 1
    BY <1>2, <2>1
  <2> QED BY <2>2
<1> QED BY <1>1, <1>3, IteratedAt

\* With the arguments of its steps run, the group adds no surface any more.
LEMMA GroupReaches ==
    ASSUME IInv, GroupedInv, MirrorInv, BetweenGroups, at \in 1 .. Len(groups), Group.iterated
    PROVE  Reaches(chain, dry.log, Arena, Start(groups, at + 1))
<1>1. phase = "execute" /\ live.member = 0
  BY DEF BetweenGroups
<1>2. PICK n, m : n = Start(groups, at) /\ m = Len(Group.steps)
  OBVIOUS
<1>3. /\ n \in 1 .. Len(chain) /\ m \in Nat \ {0} /\ Start(groups, at + 1) = n + m
      /\ Len(dry.log) = Len(chain) /\ Len(chain) \in Nat
  BY <1>1, <1>2, GroupAt DEF GroupPlace
<1>4. n \in Nat /\ n + m \in Nat /\ n <= n + m
  BY <1>3
<1>5. \A j \in n .. (n + m) - 1 : Adds(chain, dry.log, j) \subseteq Arena
  BY <1>1, <1>2, <1>3, GroupStepsAdd
<1>6. Reaches(chain, dry.log, live.arena, n)
  BY <1>1, <1>2 DEF MirrorInv, LiveMirror, BetweenMirror
<1>7. live.arena \subseteq Arena /\ Len(dry.log) \in Nat
  BY <1>3 DEF Arena
<1> QED BY <1>3, <1>4, <1>5, <1>6, <1>7, ReachesLater

\* A group of no ticks hands on what the dry run believed in.
LEMMA ZeroGroupHands ==
    ASSUME IInv, GroupedInv, MirrorInv, BetweenGroups, at \in 1 .. Len(groups),
           Group.iterated, Idles(Group, chain)
    PROVE  \A c \in Components :
             ZeroOutput[c] # NoRoute <=> Before(dry.log, Start(groups, at + 1))[c]
<1>1. phase = "execute" /\ live.member = 0
  BY DEF BetweenGroups
<1>2. PICK n, m : n = Start(groups, at) /\ m = Len(Group.steps)
  OBVIOUS
<1>3. n \in 1 .. Len(chain) /\ m \in Nat \ {0}
  BY <1>1, <1>2, GroupAt DEF GroupPlace
<1>4. Front \in Steps /\ live.bundle \in Bundles /\ live.bundle = Before(dry.log, n)
  <2>1. 1 \in 1 .. m /\ n + 1 - 1 = n
    BY <1>3
  <2>2. Front \in Steps /\ Before(dry.log, n) \in Bundles
    BY <1>1, <1>2, <2>1, IteratedAt DEF Front
  <2>3. live.bundle = Before(dry.log, n)
    BY <1>1, <1>2 DEF MirrorInv, LiveMirror, BetweenMirror
  <2> QED BY <2>2, <2>3
<1>5. \A c \in Components : Incoming[c] # NoRoute <=> live.bundle[c]
  <2>1. \A c \in Components : ThreadRoute[c] # NoRoute
    BY PlanExecutionAssumption DEF Components, ThreadRoute
  <2> QED BY <2>1 DEF Incoming
<1>6. Before(dry.log, Start(groups, at + 1)) = IdleBundle(Front, TRUE, live.bundle)
  BY <1>1, <1>2, <1>4, IdleGroup
<1>7. ASSUME NEW c \in Components
      PROVE  ZeroOutput[c] # NoRoute <=> IdleBundle(Front, TRUE, live.bundle)[c]
  <2>1. CASE ~IsEmpty(live.bundle)
    BY <1>5, <2>1 DEF ZeroOutput, IdleBundle
  <2>2. CASE IsEmpty(live.bundle) /\ Front.effect.domain = "volume-generator"
    <3>1. /\ ~PassesThrough(Front.effect.outputTex3d)
          /\ Front.effect.outputGeo \notin {"inputTex", "inputTex3d"}
      BY <1>4, <2>2, PlanCatalogAssumption, PlanExecutionAssumption
    <3>2. ZeroOutput = [image |-> NoRoute, volume |-> Front.effect.outputTex3d,
                        geometry |-> IF Front.effect.outputGeo = "inputGeo"
                                     THEN NoRoute ELSE Front.effect.outputGeo]
      BY <2>2 DEF ZeroOutput
    <3>3. PICK made \in BOOLEAN : made = ~PassesThrough(Front.effect.outputGeo)
      BY DEF PassesThrough
    <3>4. IdleBundle(Front, TRUE, live.bundle)
            = [image |-> FALSE, volume |-> TRUE, geometry |-> made]
      BY <2>2, <3>3 DEF IdleBundle
    <3>5. PICK b : b = IdleBundle(Front, TRUE, live.bundle)
      OBVIOUS
    <3>6. b["image"] = FALSE /\ b["volume"] = TRUE /\ b["geometry"] = made
      BY <3>4, <3>5, RecordBundle
    <3>7. PICK geo : geo = Front.effect.outputGeo
      OBVIOUS
    <3>8. PICK made3d : made3d = Front.effect.outputTex3d
      OBVIOUS
    <3>9. PICK z : z = ZeroOutput
      OBVIOUS
    <3>10. PICK out : out = IF geo = "inputGeo" THEN NoRoute ELSE geo
      OBVIOUS
    <3>11. z = [image |-> NoRoute, volume |-> made3d, geometry |-> out]
      BY <3>2, <3>7, <3>8, <3>9, <3>10
    <3>12. z["image"] = NoRoute /\ z["volume"] = made3d /\ z["geometry"] = out
      BY <3>11
    <3>13. made3d # NoRoute
      BY <3>1, <3>8 DEF PassesThrough
    <3>14. out # NoRoute <=> made
      BY <3>1, <3>3, <3>7, <3>10 DEF PassesThrough
    <3>15. c = "image" \/ c = "volume" \/ c = "geometry"
      BY DEF Components
    <3> QED BY <3>5, <3>6, <3>9, <3>12, <3>13, <3>14, <3>15
  <2>3. CASE IsEmpty(live.bundle) /\ Front.effect.domain # "volume-generator"
    <3>1. ZeroOutput = [NoCarried EXCEPT !["image"] = "outputTex"]
      BY <2>3 DEF ZeroOutput
    <3>2. IdleBundle(Front, TRUE, live.bundle) = ImageOnly
      BY <2>3 DEF IdleBundle
    <3>3. "outputTex" # NoRoute
      BY PlanExecutionAssumption
    <3>4. c = "image" \/ c = "volume" \/ c = "geometry"
      BY DEF Components
    <3>5. /\ ZeroOutput["image"] = "outputTex" /\ ZeroOutput["volume"] = NoRoute
          /\ ZeroOutput["geometry"] = NoRoute
      BY <3>1 DEF NoCarried, Components
    <3> QED BY <3>2, <3>3, <3>4, <3>5, FixedBundles
  <2> QED BY <2>1, <2>2, <2>3
<1> QED BY <1>6, <1>7

LEMMA MirrorGroupBegins ==
    ASSUME IInv, GroupedInv, MirrorInv, GroupBegins
    PROVE  MirrorInv'
<1>1. BetweenGroups /\ Group.iterated /\ phase = "execute" /\ live.member = 0
      /\ at <= Len(groups)
  BY DEF GroupBegins, BetweenGroups
<1>2. LiveMirror /\ BetweenMirror /\ DOMAIN live = LiveFields
  BY <1>1 DEF MirrorInv, LiveMirror
<1>3. at \in 1 .. Len(groups)
  <2>1. PICK k \in Nat : k = Len(groups)
    BY LenProperties DEF IInv, GroupsInv
  <2> QED BY <1>1, <1>2, <2>1 DEF LiveMirror
<1>4. PICK n, m : n = Start(groups, at) /\ m = Len(Group.steps)
  OBVIOUS
<1>5. /\ n \in 1 .. Len(chain) /\ m \in Nat \ {0} /\ Start(groups, at + 1) = n + m
      /\ Len(chain) \in Nat
  BY <1>1, <1>3, <1>4, GroupAt DEF GroupPlace
<1>6. Front \in Steps /\ Front.kind = "effect" /\ live.bundle \in Bundles
      /\ live.bundle = Before(dry.log, n)
  <2>1. 1 \in 1 .. m /\ n + 1 - 1 = n
    BY <1>5
  <2>2. Front \in Steps /\ Front.kind = "effect" /\ Before(dry.log, n) \in Bundles
    BY <1>1, <1>3, <1>4, <2>1, IteratedAt DEF Front
  <2>3. live.bundle = Before(dry.log, n)
    BY <1>2, <1>4 DEF BetweenMirror
  <2> QED BY <2>2, <2>3
<1>7. Reaches(chain, dry.log, Arena, Start(groups, at + 1))
  BY <1>1, <1>3, GroupReaches
<1>8. \A c \in Components : ThreadRoute[c] # NoRoute
  BY PlanExecutionAssumption DEF Components, ThreadRoute
<1>9. \A c \in Components : Incoming[c] # NoRoute <=> live.bundle[c]
  BY <1>8 DEF Incoming
<1>10. CASE TicksOwner.zero /\ Publish(ZeroOutput, Arena)
  <2>1. Idles(Group, chain)
    BY <1>1, <1>3, <1>10, OwnerOfTicks
  <2>2. \A c \in Components :
          ZeroOutput[c] # NoRoute <=> Before(dry.log, Start(groups, at + 1))[c]
    BY <1>1, <1>3, <2>1, ZeroGroupHands
  <2> QED BY <1>1, <1>3, <1>7, <1>10, <2>2, MirrorPublishes
<1>11. CASE /\ ~TicksOwner.zero
            /\ live' = [live EXCEPT !.arena = Arena, !.member = 1, !.carried = Incoming,
                                    !.shared = IF Group.loop THEN {"global_accum"} ELSE {}]
            /\ UNCHANGED <<chain, flags, scanVars, phase, at, lacking, dry>>
  <2>1. /\ chain' = chain /\ groups' = groups /\ phase' = "execute" /\ at' = at /\ dry' = dry
    BY <1>1, <1>11 DEF scanVars
  <2>2. /\ DOMAIN live' = LiveFields /\ live'.arena = Arena /\ live'.member = 1
        /\ live'.carried = Incoming
    BY <1>2, <1>11 DEF LiveFields
  <2>3. ~Idles(Group, chain)
    BY <1>1, <1>3, <1>11, OwnerOfTicks
  <2>4. Group = groups[at] /\ n + 1 - 1 = n /\ 1 \in 1 .. m + 1
    BY <1>5 DEF Group
  <2>5. \A x \in Components : Present'[x] <=> Before(dry.log, n + 1 - 1)[x]
    BY <1>6, <1>9, <2>2, <2>4 DEF Present
  <2>6. InsideMirror'
    BY <1>1, <1>3, <1>4, <1>7, <2>1, <2>2, <2>3, <2>4, <2>5 DEF InsideMirror
  <2>7. LiveMirror'
    BY <1>2, <1>3, <2>1, <2>2, <2>6 DEF LiveMirror
  <2> QED BY <2>1, <2>2, <2>7 DEF MirrorInv
<1>12. \/ \E missing : End("failed", missing)
       \/ TicksOwner.zero /\ Publish(ZeroOutput, Arena)
       \/ /\ ~TicksOwner.zero
          /\ live' = [live EXCEPT !.arena = Arena, !.member = 1, !.carried = Incoming,
                                  !.shared = IF Group.loop THEN {"global_accum"} ELSE {}]
          /\ UNCHANGED <<chain, flags, scanVars, phase, at, lacking, dry>>
  BY DEF GroupBegins
<1> QED BY <1>10, <1>11, <1>12, MirrorFails

\* What step s of a group hands on in place of what the group carries.
GroupHands(s, next) ==
    LET own == OwnRoutes(s) \cup Outputs(s)
    IN  /\ DOMAIN next = Components
        /\ next["image"] # NoRoute <=> "outputTex" \in Outputs(s) \/ live.carried["image"] # NoRoute
        /\ next["volume"] # NoRoute <=>
              ~PassesThrough(s.effect.outputTex3d) \/ live.carried["volume"] # NoRoute
        /\ next["geometry"] # NoRoute <=>
              ~PassesThrough(s.effect.outputGeo) \/ live.carried["geometry"] # NoRoute

\* What the next step of the group leaves, and hands on.
StepOf == chain[Group.steps[live.member]]

StepShares == live.shared \cup (Outputs(StepOf) \cap (ParticleState \cup {"global_accum"}))

Handed ==
    LET s       == StepOf
        own     == OwnRoutes(s) \cup Outputs(s)
        last    == CHOOSE p \in Running(s) : \A q \in Running(s) : q <= p
        outputs == s.effect.passes[last].outputs
        Selected(name, c) == IF PassesThrough(name) THEN live.carried[c]
                             ELSE IF name \in own \cup StepShares THEN name ELSE NoRoute
    IN  [image    |-> IF "outputTex" \in own THEN "outputTex"
                      ELSE IF IsVolumeDomain(s.effect.domain) THEN live.carried["image"]
                      ELSE outputs[Len(outputs)],
         volume   |-> Selected(s.effect.outputTex3d, "volume"),
         geometry |-> Selected(s.effect.outputGeo, "geometry")]

LEMMA StepHands ==
    ASSUME StepOf \in Steps, StepOf.kind = "effect"
    PROVE  GroupHands(StepOf, Handed)
<1> DEFINE s == StepOf
           own == OwnRoutes(s) \cup Outputs(s)
           shared == StepShares
           last == CHOOSE p \in Running(s) : \A q \in Running(s) : q <= p
           outputs == s.effect.passes[last].outputs
           Selected(name, c) == IF PassesThrough(name) THEN live.carried[c]
                                ELSE IF name \in own \cup shared THEN name ELSE NoRoute
           image == IF "outputTex" \in own THEN "outputTex"
                    ELSE IF IsVolumeDomain(s.effect.domain) THEN live.carried["image"]
                    ELSE outputs[Len(outputs)]
           volume == Selected(s.effect.outputTex3d, "volume")
           geometry == Selected(s.effect.outputGeo, "geometry")
           next == [image |-> image, volume |-> volume, geometry |-> geometry]
<1>1. Handed = next
  BY DEF Handed
<1>0. s \in Steps /\ s.kind = "effect"
  OBVIOUS
<1> HIDE DEF s
<1>2. "outputTex" \in own <=> "outputTex" \in Outputs(s)
  <2>1. "outputTex" \notin s.textures \cup DOMAIN s.binding \cup DOMAIN s.typed
    BY <1>0, PlanExecutionAssumption
  <2>2. \A c \in Components : ThreadRoute[c] # "outputTex"
    BY DEF Components, ThreadRoute
  <2>3. "outputTex" \notin OwnRoutes(s)
    BY <2>1, <2>2 DEF OwnRoutes
  <2> QED BY <2>3
<1>3. \A name \in {s.effect.outputTex3d, s.effect.outputGeo} :
        ~PassesThrough(name) => name \in own /\ name # NoRoute
  <2> SUFFICES ASSUME NEW name \in {s.effect.outputTex3d, s.effect.outputGeo},
                      ~PassesThrough(name)
               PROVE  name \in own /\ name # NoRoute
    OBVIOUS
  <2>1. name \in Outputs(s) \/ name \in s.textures \ ParticleState
    BY <1>0, MadeOutput
  <2>2. name # NoRoute
    BY DEF PassesThrough
  <2> QED BY <2>1, <2>2 DEF OwnRoutes
<1>4. "outputTex" \in Outputs(s) \/ IsVolumeDomain(s.effect.domain)
  BY <1>0, PlanCatalogAssumption DEF IsVolumeDomain
<1>5. "outputTex" # NoRoute
  BY PlanExecutionAssumption
<1> HIDE DEF own, shared, outputs
<1>6. image # NoRoute <=> "outputTex" \in Outputs(s) \/ live.carried["image"] # NoRoute
  BY <1>2, <1>4, <1>5
<1>7. \A name \in {s.effect.outputTex3d, s.effect.outputGeo} : \A c \in Components :
        Selected(name, c) # NoRoute <=> ~PassesThrough(name) \/ live.carried[c] # NoRoute
  BY <1>3
<1>8. volume # NoRoute <=>
        ~PassesThrough(s.effect.outputTex3d) \/ live.carried["volume"] # NoRoute
  BY <1>7 DEF Components
<1>9. geometry # NoRoute <=>
        ~PassesThrough(s.effect.outputGeo) \/ live.carried["geometry"] # NoRoute
  BY <1>7 DEF Components
<1> HIDE DEF image, volume, geometry
<1>10. /\ DOMAIN next = Components /\ next["image"] = image /\ next["volume"] = volume
       /\ next["geometry"] = geometry
  BY DEF Components
<1> HIDE DEF next
<1>11. GroupHands(s, next)
  BY <1>6, <1>8, <1>9, <1>10 DEF GroupHands
<1> QED BY <1>1, <1>11 DEF s

\* What the step hands on is what the dry run believes of it.
LEMMA HandsOn ==
    ASSUME NEW s, NEW b \in Bundles, NEW next, GroupHands(s, next),
           \A x \in Components : live.carried[x] # NoRoute <=> b[x]
    PROVE  \A x \in Components : next[x] # NoRoute <=> RunBundle(s, b)[x]
<1>1. PICK i \in BOOLEAN : i = (b["image"] \/ "outputTex" \in Outputs(s))
  BY DEF Bundles, Components
<1>2. PICK v \in BOOLEAN : v = (PassesThrough(s.effect.outputTex3d) => b["volume"])
  BY DEF Bundles, Components
<1>3. PICK g \in BOOLEAN : g = (PassesThrough(s.effect.outputGeo) => b["geometry"])
  BY DEF Bundles, Components
<1>4. RunBundle(s, b) = [image |-> i, volume |-> v, geometry |-> g]
  BY <1>1, <1>2, <1>3 DEF RunBundle
<1>5. PICK r : r = RunBundle(s, b)
  OBVIOUS
<1>6. r["image"] = i /\ r["volume"] = v /\ r["geometry"] = g
  BY <1>4, <1>5, RecordBundle
<1>7. /\ live.carried["image"] # NoRoute <=> b["image"]
      /\ live.carried["volume"] # NoRoute <=> b["volume"]
      /\ live.carried["geometry"] # NoRoute <=> b["geometry"]
  BY DEF Components
<1>8. /\ next["image"] # NoRoute <=> i
      /\ next["volume"] # NoRoute <=> v
      /\ next["geometry"] # NoRoute <=> g
  BY <1>1, <1>2, <1>3, <1>7 DEF GroupHands
<1> QED BY <1>5, <1>6, <1>8 DEF Components

StepLacks ==
    Need("mesh", ~StepOf.mesh) \cup BindingsLack(StepOf) \cup SeedsLack(StepOf, Present)
      \cup GroupPassesLack(StepOf)
      \cup Need("output", Running(StepOf) # {} \/ "outputTex" \in OwnRoutes(StepOf) \cup Outputs(StepOf))

StepShort == OutputsLack(StepOf.effect.domain, [c \in Components |-> Handed[c] # NoRoute])

LEMMA StepMoves ==
    ASSUME GroupStep
    PROVE  \/ StepLacks # {} /\ End("failed", StepLacks)
           \/ StepShort # {} /\ End("failed", StepShort)
           \/ /\ live' = [live EXCEPT !.member = @ + 1, !.carried = Handed, !.shared = StepShares]
              /\ UNCHANGED <<chain, flags, scanVars, phase, at, lacking, dry>>
BY DEF GroupStep, Handed, StepShares, StepOf, StepLacks, StepShort

LEMMA MirrorGroupStep ==
    ASSUME IInv, GroupedInv, MirrorInv, GroupStep
    PROVE  MirrorInv'
<1>1. /\ phase = "execute" /\ live.member >= 1 /\ live.member <= Len(Group.steps)
      /\ live.member # 0
  <2>1. phase = "execute" /\ live.member >= 1 /\ live.member <= Len(Group.steps)
    BY DEF GroupStep
  <2>2. live.member # 0
    BY <2>1
  <2> QED BY <2>1, <2>2
<1>2. LiveMirror /\ InsideMirror /\ DOMAIN live = LiveFields
  BY <1>1 DEF MirrorInv, LiveMirror
<1>3. at \in 1 .. Len(groups) /\ Group.iterated /\ Group = groups[at] /\ ~Idles(Group, chain)
  BY <1>2 DEF InsideMirror, Group
<1>4. PICK n, m : n = Start(groups, at) /\ m = Len(Group.steps)
  OBVIOUS
<1>5. n \in 1 .. Len(chain) /\ m \in Nat \ {0} /\ Len(chain) \in Nat
  BY <1>1, <1>3, <1>4, GroupAt DEF GroupPlace
<1>6. PICK p \in 1 .. m : p = live.member
  <2>1. live.member \in 1 .. m + 1 /\ live.member <= m
    BY <1>1, <1>2, <1>3, <1>4 DEF InsideMirror
  <2> QED BY <1>5, <2>1
<1>7. PICK s : s = chain[Group.steps[p]]
  OBVIOUS
<1>8. PICK b : b = Before(dry.log, n + p - 1)
  OBVIOUS
<1>9. s \in Steps /\ s.kind = "effect" /\ b \in Bundles /\ Before(dry.log, n + p) = RunBundle(s, b)
  BY <1>1, <1>3, <1>4, <1>7, <1>8, IteratedAt
<1>10. CASE \E missing : End("failed", missing)
  BY <1>10, MirrorFails
<1>11. ASSUME NEW next, NEW shared, GroupHands(s, next),
              live' = [live EXCEPT !.member = @ + 1, !.carried = next, !.shared = shared],
              UNCHANGED <<chain, flags, scanVars, phase, at, lacking, dry>>
       PROVE  MirrorInv'
  <2>1. /\ chain' = chain /\ groups' = groups /\ phase' = "execute" /\ at' = at /\ dry' = dry
    BY <1>1, <1>11 DEF scanVars
  <2>2. /\ DOMAIN live' = LiveFields /\ live'.arena = live.arena /\ live'.member = p + 1
        /\ live'.carried = next
    BY <1>2, <1>6, <1>11 DEF LiveFields
  <2>3. /\ p + 1 # 0 /\ p + 1 \in 1 .. m + 1 /\ n + (p + 1) - 1 = n + p
    BY <1>5
  <2>4. \A x \in Components : live.carried[x] # NoRoute <=> b[x]
    BY <1>2, <1>4, <1>6, <1>8 DEF InsideMirror, Present
  <2>5. \A x \in Components : next[x] # NoRoute <=> RunBundle(s, b)[x]
    BY <1>9, <1>11, <2>4, HandsOn
  <2>6. \A x \in Components : Present'[x] <=> next[x] # NoRoute
    BY <2>2 DEF Present
  <2>7. \A x \in Components : Present'[x] <=> Before(dry.log, n + (p + 1) - 1)[x]
    BY <1>9, <2>3, <2>5, <2>6
  <2>8. Reaches(chain, dry.log, live.arena, Start(groups, at + 1))
    BY <1>2 DEF InsideMirror
  <2>9. InsideMirror'
    BY <1>3, <1>4, <2>1, <2>2, <2>3, <2>7, <2>8 DEF InsideMirror
  <2>10. LiveMirror'
    BY <1>2, <2>1, <2>2, <2>3, <2>9 DEF LiveMirror
  <2> QED BY <2>1, <2>2, <2>10 DEF MirrorInv
<1>12. GroupHands(s, Handed)
  <2>1. s = StepOf
    BY <1>6, <1>7 DEF StepOf
  <2> QED BY <1>9, <2>1, StepHands
<1> QED BY <1>10, <1>11, <1>12, StepMoves

LEMMA MirrorGroupEnds ==
    ASSUME IInv, GroupedInv, MirrorInv, GroupEnds
    PROVE  MirrorInv'
<1>1. /\ phase = "execute" /\ live.member > Len(Group.steps) /\ at <= Len(groups)
      /\ Publish(live.carried, live.arena)
  BY DEF GroupEnds
<1>2. LiveMirror
  BY <1>1 DEF MirrorInv
<1>3. at \in 1 .. Len(groups)
  <2>1. PICK k \in Nat : k = Len(groups)
    BY LenProperties DEF IInv, GroupsInv
  <2> QED BY <1>1, <1>2, <2>1 DEF LiveMirror
<1>4. PICK n, m : n = Start(groups, at) /\ m = Len(Group.steps)
  OBVIOUS
<1>5. n \in 1 .. Len(chain) /\ m \in Nat \ {0} /\ Start(groups, at + 1) = n + m
      /\ Len(chain) \in Nat
  BY <1>1, <1>3, <1>4, GroupAt DEF GroupPlace
<1>6. live.member # 0
  BY <1>1, <1>4, <1>5
<1>7. InsideMirror /\ Group = groups[at]
  BY <1>2, <1>6 DEF LiveMirror, Group
<1>8. live.member = m + 1
  <2>1. live.member \in 1 .. m + 1 /\ live.member > m
    BY <1>1, <1>4, <1>7 DEF InsideMirror
  <2> QED BY <1>5, <2>1
<1>9. n + (m + 1) - 1 = n + m
  BY <1>5
<1>10. \A x \in Components : live.carried[x] # NoRoute <=> Before(dry.log, n + (m + 1) - 1)[x]
  BY <1>4, <1>7, <1>8 DEF InsideMirror, Present
<1>11. \A x \in Components : live.carried[x] # NoRoute <=> Before(dry.log, Start(groups, at + 1))[x]
  BY <1>5, <1>9, <1>10
<1>12. Reaches(chain, dry.log, live.arena, Start(groups, at + 1))
  BY <1>7 DEF InsideMirror
<1> QED BY <1>1, <1>3, <1>11, <1>12, MirrorPublishes

LEMMA MirrorNext == IInv /\ GroupedInv /\ MirrorInv /\ [Next]_vars => MirrorInv'
<1> SUFFICES ASSUME IInv, GroupedInv, MirrorInv, [Next]_vars PROVE MirrorInv'
  OBVIOUS
<1>1. CASE UNCHANGED vars
  <2>1. chain' = chain /\ groups' = groups /\ phase' = phase /\ at' = at /\ dry' = dry /\ live' = live
    BY <1>1 DEF vars, scanVars
  <2> QED BY <2>1
          DEF MirrorInv, NothingRuns, DryMirror, LiveMirror, BetweenMirror, InsideMirror, Present
<1>2. CASE (\E s \in Steps : CompileStep(s)) \/ EndCompile \/ Admit
  BY <1>2, MirrorCompiles
<1>3. CASE \/ PreflightRead \/ PreflightWrite \/ PreflightRead3D
           \/ PreflightWrite3D \/ PreflightEffect
  BY <1>3, MirrorPreflight
<1>4. CASE Admitted
  BY <1>4, MirrorAdmitted
<1>5. CASE Read \/ Write \/ Read3D \/ Write3D \/ RunEffect
  BY <1>5, MirrorRead, MirrorWrite, MirrorRead3D, MirrorWrite3D, MirrorRunEffect
<1>6. CASE GroupBegins \/ GroupStep \/ GroupEnds
  BY <1>6, MirrorGroupBegins, MirrorGroupStep, MirrorGroupEnds
<1>7. CASE ChainEnds
  BY <1>7, MirrorEnds DEF ChainEnds
<1> QED BY <1>1, <1>2, <1>3, <1>4, <1>5, <1>6, <1>7 DEF Next, Ended

LEMMA MirrorHolds ==
    ASSUME IInv, GroupedInv, MirrorInv
    PROVE  DryRunMirrorsExecution
<1> SUFFICES ASSUME phase = "execute", live.member = 0, at > 1
             PROVE  LET done     == groups[at - 1].steps
                        believed == dry.log[done[Len(done)]]
                    IN  /\ believed.bundle = live.bundle
                        /\ believed.available \subseteq live.arena
  BY DEF DryRunMirrorsExecution
<1>1. LiveMirror /\ BetweenMirror
  BY DEF MirrorInv, LiveMirror
<1>2. PICK k : k = at - 1
  OBVIOUS
<1>3. k \in 1 .. Len(groups) /\ k + 1 = at
  <2>1. PICK l \in Nat : l = Len(groups)
    BY LenProperties DEF IInv, GroupsInv
  <2>2. at \in 1 .. l + 1
    BY <1>1, <2>1 DEF LiveMirror
  <2> QED BY <1>2, <2>1, <2>2
<1>4. groups \in Seq(Scan!GroupType) /\ Len(chain) \in Nat /\ T!Cuts(groups, Len(chain))
  BY LenProperties DEF IInv, LoopInv, GroupsInv, CompileInv, GroupedInv
<1>5. Lies(groups, Len(chain), k)
  BY <1>3, <1>4, PlaceOfGroup
<1>6. PICK n, m, done :
        n = Start(groups, k) /\ done = groups[k].steps /\ m = Len(done)
  OBVIOUS
<1>7. /\ n \in 1 .. Len(chain) /\ m \in Nat \ {0} /\ Start(groups, at) = n + m
      /\ \A p \in 1 .. m : done[p] = n + p - 1
      /\ T!Last(groups[k]) = n + m - 1 /\ T!Last(groups[k]) \in 1 .. Len(chain)
  BY <1>3, <1>5, <1>6 DEF Lies
<1>8. PICK i : i = n + m - 1
  OBVIOUS
<1>9. i \in 1 .. Len(chain) /\ i + 1 = n + m /\ done[m] = i /\ i + 1 # 1 /\ (i + 1) - 1 = i
  <2>1. m \in 1 .. m /\ n \in Nat
    BY <1>4, <1>7
  <2>2. done[m] = i /\ i \in 1 .. Len(chain)
    BY <1>7, <1>8, <2>1
  <2>3. i \in Nat \ {0} /\ i + 1 = n + m
    BY <1>7, <1>8, <2>1
  <2> QED BY <2>2, <2>3
<1>10. live.bundle = dry.log[i].bundle
  <2>1. live.bundle = Before(dry.log, i + 1)
    BY <1>1, <1>7, <1>9 DEF BetweenMirror
  <2> QED BY <1>9, <2>1 DEF Before
<1>11. dry.log[i].available \subseteq live.arena
  <2>1. i \in 1 .. Len(dry.log) /\ i \in Nat
    BY <1>1, <1>9 DEF LiveMirror
  <2>2. Reaches(chain, dry.log, live.arena, i + 1)
    BY <1>1, <1>7, <1>9 DEF BetweenMirror
  <2>3. i + 1 <= i + 1 /\ i + 1 .. i = {}
    BY <2>1
  <2>4. dry.log[i].available \subseteq live.arena \cup AddsFrom(chain, dry.log, i + 1, i)
    BY <2>1, <2>2, <2>3 DEF Reaches
  <2>5. AddsFrom(chain, dry.log, i + 1, i) = {}
    BY <2>3 DEF AddsFrom
  <2> QED BY <2>4, <2>5
<1> QED BY <1>2, <1>6, <1>9, <1>10, <1>11

\* MirrorInv holds in every state: what the dry run has logged for the groups
\* that are over is what execution has, inside a group and between groups.
THEOREM MirrorInductive == Spec => []MirrorInv
<1>1. Init => MirrorInv
  BY MirrorInit
<1> QED BY <1>1, MirrorNext, InductiveInvariant, PlansAreGrouped, PTL DEF Spec

\* Whatever the plan, after every group the chain has exactly the bundle that
\* the dry run of the executor believed in, and in the arena every surface
\* that it counted on.
THEOREM DryRunAlwaysMirrors == Spec => []DryRunMirrorsExecution
BY MirrorInductive, InductiveInvariant, PlansAreGrouped, MirrorHolds, PTL

-----------------------------------------------------------------------------
\* What a pass needs, and what the dry run has found for it.

SamplesChain(s, r) == IF r \in DOMAIN s.binding THEN s.binding[r] = "input" ELSE r = "inputTex"

SamplesSurface(s, r) == r \in DOMAIN s.binding /\ s.binding[r] \notin {"null", "input"}

SamplesRoute(s, r) == r \notin DOMAIN s.binding /\ r \notin {"inputTex", "inputTex3d", "inputGeo"}

\* Route r of step s is there.
Given(s, r, image, b, surfaces, routes) ==
    /\ SamplesChain(s, r) => image
    /\ SamplesSurface(s, r) => s.binding[r] \in surfaces
    /\ r \notin DOMAIN s.binding /\ r = "inputTex3d" => b["volume"]
    /\ r \notin DOMAIN s.binding /\ r = "inputGeo" => b["geometry"]
    /\ SamplesRoute(s, r) => r \in routes

LEMMA GivenIsEnough ==
    ASSUME NEW s, NEW r, NEW view
    PROVE  Samples(s, r, view) = {} <=>
             Given(s, r, view.bundle["image"], view.bundle, view.surfaces, view.routes)
<1>1. \A what, there : Need(what, there) = {} <=> there
  BY DEF Need
<1>2. CASE r \in DOMAIN s.binding
  <2>1. /\ SamplesChain(s, r) <=> s.binding[r] = "input"
        /\ SamplesSurface(s, r) <=> s.binding[r] \notin {"null", "input"}
        /\ ~SamplesRoute(s, r)
    BY <1>2 DEF SamplesChain, SamplesSurface, SamplesRoute
  <2>2. CASE s.binding[r] = "null"
    <3>1. Samples(s, r, view) = {}
      BY <1>2, <2>2 DEF Samples
    <3> QED BY <1>2, <2>1, <2>2, <3>1 DEF Given
  <2>3. CASE s.binding[r] = "input"
    <3>1. Samples(s, r, view) = Need("image", view.bundle["image"])
      BY <1>2, <2>3 DEF Samples
    <3>2. Samples(s, r, view) = {} <=> view.bundle["image"]
      BY <1>1, <3>1
    <3>3. ~SamplesSurface(s, r) /\ SamplesChain(s, r)
      BY <2>1, <2>3
    <3> QED BY <1>2, <2>1, <3>2, <3>3 DEF Given
  <2>4. CASE s.binding[r] \notin {"null", "input"}
    <3>1. Samples(s, r, view) = Need("surface", s.binding[r] \in view.surfaces)
      BY <1>2, <2>4 DEF Samples
    <3>2. Samples(s, r, view) = {} <=> s.binding[r] \in view.surfaces
      BY <3>1 DEF Need
    <3>3. SamplesSurface(s, r) /\ ~SamplesChain(s, r)
      BY <2>1, <2>4
    <3> QED BY <1>2, <2>1, <3>2, <3>3 DEF Given
  <2> QED BY <2>2, <2>3, <2>4
<1>3. CASE r \notin DOMAIN s.binding /\ r = "inputTex"
  <2>1. Samples(s, r, view) = Need("image", view.bundle["image"])
    BY <1>3 DEF Samples
  <2>2. SamplesChain(s, r) /\ ~SamplesSurface(s, r) /\ ~SamplesRoute(s, r)
    BY <1>3 DEF SamplesChain, SamplesSurface, SamplesRoute
  <2> QED BY <1>1, <1>3, <2>1, <2>2 DEF Given
<1>4. CASE r \notin DOMAIN s.binding /\ r = "inputTex3d"
  <2>1. Samples(s, r, view) = Need("volume", view.bundle["volume"])
    BY <1>4 DEF Samples
  <2>2. ~SamplesChain(s, r) /\ ~SamplesSurface(s, r) /\ ~SamplesRoute(s, r)
    BY <1>4 DEF SamplesChain, SamplesSurface, SamplesRoute
  <2> QED BY <1>1, <1>4, <2>1, <2>2 DEF Given
<1>5. CASE r \notin DOMAIN s.binding /\ r = "inputGeo"
  <2>1. Samples(s, r, view) = Need("geometry", view.bundle["geometry"])
    BY <1>5 DEF Samples
  <2>2. ~SamplesChain(s, r) /\ ~SamplesSurface(s, r) /\ ~SamplesRoute(s, r)
    BY <1>5 DEF SamplesChain, SamplesSurface, SamplesRoute
  <2> QED BY <1>1, <1>5, <2>1, <2>2 DEF Given
<1>6. CASE SamplesRoute(s, r)
  <2>1. Samples(s, r, view) = Need("route", r \in view.routes)
    BY <1>6 DEF Samples, SamplesRoute
  <2>2. ~SamplesChain(s, r) /\ ~SamplesSurface(s, r) /\ r # "inputTex3d" /\ r # "inputGeo"
    BY <1>6 DEF SamplesChain, SamplesSurface, SamplesRoute
  <2>3. Samples(s, r, view) = {} <=> r \in view.routes
    BY <2>1 DEF Need
  <2> QED BY <1>6, <2>2, <2>3 DEF Given
<1> QED BY <1>2, <1>3, <1>4, <1>5, <1>6 DEF SamplesRoute

\* All but a route is given.
LEMMA LacksRoute ==
    ASSUME NEW s, NEW r, NEW view,
           Given(s, r, view.bundle["image"], view.bundle, view.surfaces, {r})
    PROVE  /\ Samples(s, r, view) \subseteq {"route"}
           /\ Samples(s, r, view) # {} => SamplesRoute(s, r) /\ r \notin view.routes
<1>1. CASE SamplesRoute(s, r)
  <2>1. Samples(s, r, view) = Need("route", r \in view.routes)
    BY <1>1 DEF Samples, SamplesRoute
  <2> QED BY <1>1, <2>1 DEF Need
<1>2. CASE ~SamplesRoute(s, r)
  <2>1. Given(s, r, view.bundle["image"], view.bundle, view.surfaces, view.routes)
    BY <1>2 DEF Given
  <2> QED BY <2>1, GivenIsEnough
<1> QED BY <1>1, <1>2

\* What more surfaces and routes give.
LEMMA GivenMore ==
    ASSUME NEW s, NEW r, NEW image, NEW b, NEW surfaces, NEW routes, NEW more, NEW further,
           Given(s, r, image, b, surfaces, routes), surfaces \subseteq more, routes \subseteq further
    PROVE  Given(s, r, image, b, more, further)
BY DEF Given

\* Arguments find no less in a larger arena.
LEMMA ArgumentsFindMore ==
    ASSUME NEW arguments, NEW available, NEW more, available \subseteq more,
           ArgumentsLack(arguments, available) = {}
    PROVE  ArgumentsLack(arguments, more) = {}
<1> DEFINE earlier(i) == Publishes({arguments[j] : j \in 1 .. i - 1})
           lack(i, a) == IF arguments[i].reads = NoRoute THEN {}
                         ELSE Need("surface", arguments[i].reads \in a \cup earlier(i))
<1>1. \A a : ArgumentsLack(arguments, a) = UNION {lack(i, a) : i \in 1 .. Len(arguments)}
  BY DEF ArgumentsLack
<1>2. \A i : lack(i, available) = {} => lack(i, more) = {}
  BY DEF Need
<1> HIDE DEF lack
<1>3. \A i \in 1 .. Len(arguments) : lack(i, available) = {}
  BY <1>1
<1>4. \A i \in 1 .. Len(arguments) : lack(i, more) = {}
  BY <1>2, <1>3
<1> QED BY <1>1, <1>4

\* What the effects before step i publish.
Producers(c, i) == UNION {Outputs(c[j]) : j \in {k \in 1 .. i - 1 : c[k].kind = "effect"}}

\* The routes of the preflight's view.
DryRoutes(s, g, p, produced, available) ==
    OutputsBefore(s, p) \cup ClearedTextures(s) \cup
      IF g.iterated
      THEN s.textures \cup DOMAIN s.typed \cup ParticleState \cup
             {"selfTex", "feedback"} \cup IF g.loop THEN {"global_accum"} ELSE {}
      ELSE produced \cup available

\* Step i of the group g finds what it needs with the bundle b, but that a
\* route may be one of a group that is over.
FoundAt(c, g, i, b, arena) ==
    LET s         == c[i]
        available == arena \cup Publishes(ArgumentsOf(s))
    IN  /\ s.kind \in {"read", "read3d"} => s.names[1] \in arena
        /\ s.kind = "write" => b["image"]
        /\ s.kind = "effect" => ArgumentsLack(s.arguments, arena) = {}
        /\ s.kind = "effect" /\ ~Idles(g, c) =>
              /\ g.iterated => SeedsLack(s, b) = {}
              /\ \A p \in Running(s) : \A r \in s.effect.passes[p].inputs :
                    Given(s, r, b["image"] \/ "outputTex" \in OutputsBefore(s, p), b, available,
                          DryRoutes(s, g, p, Producers(c, i), available))

LEMMA FoundMore ==
    ASSUME NEW c, NEW g, NEW i, NEW b, NEW arena, NEW later, arena \subseteq later,
           FoundAt(c, g, i, b, arena)
    PROVE  FoundAt(c, g, i, b, later)
<1> DEFINE s == c[i]
           of(a) == a \cup Publishes(ArgumentsOf(s))
<1>1. s.kind = "effect" => ArgumentsLack(s.arguments, later) = {}
  BY ArgumentsFindMore DEF FoundAt
<1>2. ASSUME s.kind = "effect" /\ ~Idles(g, c), NEW p \in Running(s),
             NEW r \in s.effect.passes[p].inputs
      PROVE  Given(s, r, b["image"] \/ "outputTex" \in OutputsBefore(s, p), b, of(later),
                   DryRoutes(s, g, p, Producers(c, i), of(later)))
  <2>1. Given(s, r, b["image"] \/ "outputTex" \in OutputsBefore(s, p), b, of(arena),
              DryRoutes(s, g, p, Producers(c, i), of(arena)))
    BY <1>2 DEF FoundAt
  <2>2. of(arena) \subseteq of(later)
    OBVIOUS
  <2>3. DryRoutes(s, g, p, Producers(c, i), of(arena))
          \subseteq DryRoutes(s, g, p, Producers(c, i), of(later))
    BY <2>2 DEF DryRoutes
  <2> HIDE DEF of, s
  <2> QED BY <2>1, <2>2, <2>3, GivenMore
<1> QED BY <1>1, <1>2 DEF FoundAt

\* The steps from k on find what they need in the arena and what the steps
\* from n on add to it before them.
Finds(c, gs, log, arena, n, k) ==
    \A i \in k .. Len(log) :
        FoundAt(c, HolderOf(gs, i), i, Before(log, i), arena \cup AddsFrom(c, log, n, i - 1))

LEMMA FindsLater ==
    ASSUME NEW c, NEW gs, NEW log, NEW n \in Nat, NEW k \in Nat, NEW r \in Nat, NEW q \in Nat,
           n <= r, k <= q, Len(log) \in Nat, NEW arena, NEW later,
           Finds(c, gs, log, arena, n, k), arena \subseteq later,
           \A j \in n .. r - 1 : Adds(c, log, j) \subseteq later
    PROVE  Finds(c, gs, log, later, r, q)
<1> SUFFICES ASSUME NEW i \in q .. Len(log)
             PROVE  FoundAt(c, HolderOf(gs, i), i, Before(log, i),
                            later \cup AddsFrom(c, log, r, i - 1))
  BY DEF Finds
<1>1. FoundAt(c, HolderOf(gs, i), i, Before(log, i), arena \cup AddsFrom(c, log, n, i - 1))
  <2>1. i \in k .. Len(log)
    OBVIOUS
  <2> QED BY <2>1 DEF Finds
<1>2. ASSUME NEW j \in n .. i - 1
      PROVE  Adds(c, log, j) \subseteq later \cup AddsFrom(c, log, r, i - 1)
  <2>1. j \in n .. r - 1 \/ j \in r .. i - 1
    OBVIOUS
  <2> QED BY <2>1 DEF AddsFrom
<1>3. AddsFrom(c, log, n, i - 1) \subseteq later \cup AddsFrom(c, log, r, i - 1)
  BY <1>2 DEF AddsFrom
<1>4. arena \cup AddsFrom(c, log, n, i - 1) \subseteq later \cup AddsFrom(c, log, r, i - 1)
  BY <1>3
<1> QED BY <1>1, <1>4, FoundMore

-----------------------------------------------------------------------------
\* What the compiler's flags are worth.

LEMMA FlagsBefore ==
    ASSUME IInv, Len(dry.log) \in Nat, NEW i \in 1 .. Len(dry.log) + 1
    PROVE  /\ flags[i].image => Before(dry.log, i)["image"]
           /\ flags[i].volume => Before(dry.log, i)["volume"]
<1>1. CASE i = 1
  BY <1>1 DEF IInv, CompileInv, NoFlags
<1>2. CASE i # 1
  <2>1. PICK j : j = i - 1
    OBVIOUS
  <2>2. j \in 1 .. Len(dry.log) /\ j + 1 = i
    BY <1>2, <2>1
  <2>3. /\ flags[j + 1].image => dry.log[j].bundle["image"]
        /\ flags[j + 1].volume => dry.log[j].bundle["volume"]
    BY <2>2 DEF IInv, DryInv, FlagsAreKept
  <2>4. Before(dry.log, i) = dry.log[j].bundle
    BY <1>2, <2>1 DEF Before
  <2> QED BY <2>2, <2>3, <2>4
<1> QED BY <1>1, <1>2

\* A step that the compiler guarantees an image finds one.
LEMMA GuaranteedIsThere ==
    ASSUME IInv, Len(dry.log) \in Nat, NEW i \in 1 .. Len(chain), i \in 1 .. Len(dry.log) + 1,
           chain[i].kind = "effect", GuaranteedImage(chain[i])
    PROVE  Before(dry.log, i)["image"]
<1>1. Link(i, chain[i], flags[i], flags[i + 1])
  BY DEF IInv, CompileInv
<1>2. flags[i].image
  BY <1>1 DEF Link, GuaranteedImage
<1> QED BY <1>2, FlagsBefore

\* Nor is the output of an effect missing, then or later.
LEMMA DomainKept ==
    ASSUME IInv, Len(dry.log) = Len(chain), Len(chain) \in Nat,
           NEW i \in 1 .. Len(chain), NEW k \in 1 .. Len(chain) + 1, i < k,
           chain[i] \in Steps, chain[i].kind = "effect"
    PROVE  /\ RequiresOutputVolume(chain[i].effect.domain) => Before(dry.log, k)["volume"]
           /\ RequiresOutputImage(chain[i].effect.domain) => Before(dry.log, k)["image"]
<1>1. PICK s : s = chain[i]
  OBVIOUS
<1>2. Link(i, s, flags[i], flags[i + 1])
  BY <1>1 DEF IInv, CompileInv
<1>3. i + 1 \in 1 .. Len(flags) /\ k \in 1 .. Len(flags) /\ i + 1 <= k
  <2>1. PICK l \in Nat : l = Len(chain)
    OBVIOUS
  <2>2. i \in 1 .. l /\ k \in 1 .. l + 1 /\ Len(flags) = l + 1
    BY <2>1 DEF IInv, CompileInv
  <2>3. i + 1 \in 1 .. l + 1 /\ i + 1 <= k
    BY <2>2
  <2> QED BY <2>2, <2>3
<1>4. /\ flags[k].image => Before(dry.log, k)["image"]
      /\ flags[k].volume => Before(dry.log, k)["volume"]
  BY FlagsBefore
<1>5. /\ flags[i + 1].image => flags[k].image
      /\ flags[i + 1].volume => flags[k].volume
  BY <1>3 DEF IInv, CompileInv
<1>6. s.effect.domain \in {"image", "volume-generator", "volume-filter",
                           "volume-renderer", "loop-begin", "loop-end"}
  BY <1>1, PlanCatalogAssumption
<1>7. RequiresOutputVolume(s.effect.domain) => flags[i + 1].volume
  BY <1>1, <1>2, <1>6 DEF Link, RequiresOutputVolume, IsVolumeDomain
<1>8. RequiresOutputImage(s.effect.domain) => flags[i + 1].image
  BY <1>1, <1>2 DEF Link, RequiresOutputImage
<1> QED BY <1>1, <1>4, <1>5, <1>7, <1>8

\* The image that a pass of its own may have to publish, no pass samples.
LEMMA ImageGiven ==
    ASSUME NEW s \in Steps, NEW p \in Running(s), NEW r \in s.effect.passes[p].inputs,
           NEW image, GuaranteedImage(s) => image, SamplesChain(s, r),
           image \/ "outputTex" \in OutputsBefore(s, p)
    PROVE  image
<1>1. r \in ImageRoutes(s)
  BY DEF SamplesChain, ImageRoutes
<1>2. ~GuaranteedImage(s) =>
        ("outputTex" \in OutputsBefore(s, p) => s.effect.passes[p].inputs \cap ImageRoutes(s) = {})
  BY PlanExecutionAssumption
<1> QED BY <1>1, <1>2

\* What an effect that was found in the dry run is given in its passes.
LEMMA FoundIsGiven ==
    ASSUME NEW c, NEW g, NEW i, NEW b, NEW arena, FoundAt(c, g, i, b, arena),
           c[i] \in Steps, c[i].kind = "effect", ~Idles(g, c),
           GuaranteedImage(c[i]) => b["image"],
           NEW p \in Running(c[i]), NEW r \in c[i].effect.passes[p].inputs
    PROVE  Given(c[i], r, b["image"], b, arena \cup Publishes(ArgumentsOf(c[i])),
                 DryRoutes(c[i], g, p, Producers(c, i), arena \cup Publishes(ArgumentsOf(c[i]))))
<1> DEFINE s == c[i]
           more == arena \cup Publishes(ArgumentsOf(s))
           routes == DryRoutes(s, g, p, Producers(c, i), more)
<1>1. Given(s, r, b["image"] \/ "outputTex" \in OutputsBefore(s, p), b, more, routes)
  BY DEF FoundAt
<1> HIDE DEF s, more, routes
<1>2. SamplesChain(s, r) => b["image"]
  <2>1. SamplesChain(s, r) => b["image"] \/ "outputTex" \in OutputsBefore(s, p)
    BY <1>1 DEF Given
  <2> QED BY <2>1, ImageGiven DEF s
<1>3. Given(s, r, b["image"], b, more, routes)
  BY <1>1, <1>2 DEF Given
<1> QED BY <1>3 DEF s, more, routes

LEMMA OwnOutputs ==
    ASSUME NEW s \in Steps, NEW p \in Running(s)
    PROVE  OutputsBefore(s, p) \subseteq Outputs(s)
<1>1. PICK l \in Nat : l = Len(s.effect.passes)
  BY PlanStepsAssumption
<1>2. \A x \in Running(s) : x < l + 1
  BY <1>1 DEF Running, Passes
<1> QED BY <1>1, <1>2 DEF Outputs, OutputsBefore

-----------------------------------------------------------------------------
\* What is ahead of the dry run, and of execution, finds what it needs.

\* The groups of steps before n that are not iterated have left their outputs.
Leave(c, gs, arena, n) ==
    \A j \in 1 .. n - 1 :
        c[j].kind = "effect" /\ ~HolderOf(gs, j).iterated => Outputs(c[j]) \subseteq arena

NoMeshIterates == \A i \in 1 .. Len(chain) : chain[i].mesh => ~HolderOf(groups, i).iterated

DryNeeds ==
    /\ dry.produced \subseteq Producers(chain, at)
    /\ Finds(chain, groups, dry.log, live.arena, 1, 1)

\* Inside a group, its arguments have run.
InsideNeeds ==
    /\ Finds(chain, groups, dry.log, live.arena, Start(groups, at + 1), Start(groups, at))
    /\ \A p \in Positions : Publishes(ArgumentsOf(chain[Group.steps[p]])) \subseteq live.arena
    /\ Group.loop => "global_accum" \in live.shared

LiveNeeds ==
    /\ Leave(chain, groups, live.arena, Start(groups, at))
    /\ live.member = 0 =>
         Finds(chain, groups, dry.log, live.arena, Start(groups, at), Start(groups, at))
    /\ live.member # 0 => InsideNeeds

NeedsInv ==
    /\ phase \in {"compile", "admit"} => dry.produced = {}
    /\ phase \in {"preflight", "execute"} => NoMeshIterates
    /\ phase = "preflight" => DryNeeds
    /\ phase = "execute" => LiveNeeds
    /\ AdmittedChainsRun

LEMMA NeedsInit == Init => NeedsInv
BY DEF Init, NeedsInv, AdmittedChainsRun

LEMMA NeedsEnds ==
    ASSUME phase' \in {"rejected", "done"}
    PROVE  NeedsInv'
BY DEF NeedsInv, AdmittedChainsRun

LEMMA NeedsCompiles ==
    ASSUME IInv, NeedsInv, \/ \E s \in Steps : CompileStep(s)
                           \/ EndCompile \/ Admit
    PROVE  NeedsInv'
<1>1. /\ phase \in {"compile", "admit"} /\ dry' = dry /\ live' = live /\ at' = at
      /\ phase' \in {"compile", "admit", "preflight", "rejected"}
  BY DEF CompileStep, EndCompile, Admit, End
<1>2. dry.log = <<>> /\ dry.produced = {} /\ Len(<<>>) = 0
  BY <1>1, EmptySeq DEF IInv, DryInv, NeedsInv
<1>3. CASE phase' # "preflight"
  BY <1>1, <1>2, <1>3 DEF NeedsInv, AdmittedChainsRun
<1>4. CASE phase' = "preflight"
  <2>1. Admit /\ ~IteratesMesh /\ chain' = chain /\ groups' = groups
    BY <1>4, <1>1 DEF CompileStep, EndCompile, Admit, End, scanVars
  <2>2. NoMeshIterates
    BY <2>1, HolderIsGroup DEF NoMeshIterates, IteratesMesh
  <2>3. NoMeshIterates'
    BY <2>1, <2>2 DEF NoMeshIterates
  <2>4. dry'.produced \subseteq Producers(chain', at')
    BY <1>1, <1>2
  <2>5. Finds(chain', groups', dry'.log, live'.arena, 1, 1)
    <3>1. Len(dry'.log) = 0
      BY <1>1, <1>2
    <3>2. 1 .. 0 = {}
      OBVIOUS
    <3> QED BY <3>1, <3>2 DEF Finds
  <2> QED BY <1>4, <2>3, <2>4, <2>5 DEF NeedsInv, DryNeeds, AdmittedChainsRun
<1> QED BY <1>3, <1>4

\* One step of the dry run.
LEMMA NeedsBelieves ==
    ASSUME IInv, MirrorInv, NeedsInv, phase = "preflight", at <= Len(chain),
           NEW bundle, NEW produced, NEW available, Believes(bundle, produced, available),
           FoundAt(chain, TheGroup(at), at, dry.bundle, dry.available),
           produced \subseteq Producers(chain, at + 1)
    PROVE  NeedsInv'
<1> DEFINE e == [bundle |-> bundle, available |-> available]
           log == Append(dry.log, e)
<1>1. /\ dry' = [bundle |-> bundle, produced |-> produced, available |-> available, log |-> log]
      /\ at' = at + 1 /\ chain' = chain /\ phase' = phase /\ groups' = groups /\ live' = live
  BY DEF Believes, scanVars
<1> HIDE DEF e
<1>2. PICK R : dry.log \in Seq(R)
  BY DEF IInv, DryInv, LogIsSequence
<1>3. PICK m \in Nat : m = Len(dry.log) /\ at = m + 1
  BY <1>2, LenProperties DEF IInv, DryInv
<1>4. PICK S : dry.log \in Seq(S) /\ e \in S
  <2>1. \A i \in 1 .. Len(dry.log) : dry.log[i] \in R \cup {e}
    BY <1>2, ElementOfSeq
  <2>2. dry.log \in Seq(R \cup {e})
    BY <2>1, <1>2
  <2> QED BY <2>2
<1>5. Extends(log, chain, dry.log, m, e)
  BY <1>3, <1>4, LogGrows
<1> HIDE DEF log
<1>6. DryMirror /\ DryNeeds /\ NoMeshIterates
  BY DEF MirrorInv, NeedsInv
<1>7. Finds(chain, groups, log, live.arena, 1, 1)
  <2> SUFFICES ASSUME NEW i \in 1 .. m + 1
               PROVE  FoundAt(chain, HolderOf(groups, i), i, Before(log, i),
                              live.arena \cup AddsFrom(chain, log, 1, i - 1))
    BY <1>5 DEF Finds, Extends
  <2>1. /\ Before(log, i) = Before(dry.log, i)
        /\ AddsFrom(chain, log, 1, i - 1) = AddsFrom(chain, dry.log, 1, i - 1)
    <3>1. i - 1 \in 0 .. m + 1
      OBVIOUS
    <3> QED BY <1>5, <3>1 DEF Extends
  <2>2. CASE i = m + 1
    <3>1. i - 1 = m
      BY <2>2
    <3>2. dry.available \subseteq live.arena \cup AddsFrom(chain, dry.log, 1, i - 1)
      BY <1>3, <1>6, <3>1 DEF DryMirror
    <3>3. dry.bundle = Before(dry.log, i) /\ HolderOf(groups, i) = TheGroup(at) /\ i = at
      BY <1>3, <1>6, <2>2, HolderIsGroup DEF DryMirror
    <3>4. FoundAt(chain, TheGroup(at), at, dry.bundle,
                  live.arena \cup AddsFrom(chain, dry.log, 1, i - 1))
      BY <3>2, FoundMore
    <3> QED BY <2>1, <3>3, <3>4
  <2>3. CASE i \in 1 .. m
    <3>1. FoundAt(chain, HolderOf(groups, i), i, Before(dry.log, i),
                  live.arena \cup AddsFrom(chain, dry.log, 1, i - 1))
      BY <1>3, <1>6, <2>3 DEF DryNeeds, Finds
    <3> QED BY <2>1, <3>1
  <2> QED BY <2>2, <2>3
<1>8. dry'.log = log /\ dry'.produced = produced
  BY <1>1
<1>9. DryNeeds'
  <2>1. dry'.produced \subseteq Producers(chain', at')
    BY <1>1, <1>8
  <2>2. Finds(chain', groups', dry'.log, live'.arena, 1, 1)
    BY <1>1, <1>7, <1>8
  <2> QED BY <2>1, <2>2 DEF DryNeeds
<1>10. NoMeshIterates'
  BY <1>1, <1>6 DEF NoMeshIterates
<1> QED BY <1>1, <1>9, <1>10 DEF NeedsInv, AdmittedChainsRun

\* No step of the chain has published a surface under its name.
LEMMA NoSurfaceProduced ==
    ASSUME NEW c \in Seq(Steps), NEW i \in Nat, i <= Len(c) + 1
    PROVE  Producers(c, i) \cap Surfaces = {}
<1>1. PICK l \in Nat : l = Len(c)
  BY LenProperties
<1>2. ASSUME NEW j \in 1 .. i - 1 PROVE Outputs(c[j]) \cap Surfaces = {}
  <2>1. j \in 1 .. Len(c)
    BY <1>1
  <2>2. c[j] \in Steps
    BY <2>1, ElementOfSeq
  <2> QED BY <2>2, PlanExecutionAssumption
<1> QED BY <1>2 DEF Producers

LEMMA ProducersGrow ==
    ASSUME NEW c, NEW i \in Nat \ {0}
    PROVE  /\ Producers(c, i) \subseteq Producers(c, i + 1)
           /\ c[i].kind = "effect" => Outputs(c[i]) \subseteq Producers(c, i + 1)
<1>1. (i + 1) - 1 = i /\ (1 .. i - 1) \subseteq (1 .. i) /\ i \in 1 .. i
  OBVIOUS
<1> QED BY <1>1 DEF Producers

\* What the dry run of an effect that runs does not lack, the step is given.
LEMMA PassesFound ==
    ASSUME NEW s \in Steps, NEW g, NEW available, PassesLack(s, g, available) = {},
           dry.bundle \in Bundles, NEW producers, dry.produced \subseteq producers,
           producers \cap Surfaces = {},
           NEW p \in Running(s), NEW r \in s.effect.passes[p].inputs
    PROVE  Given(s, r, dry.bundle["image"] \/ "outputTex" \in OutputsBefore(s, p), dry.bundle,
                 available, DryRoutes(s, g, p, producers, available))
<1>1. PICK view : view = PreflightView(s, g, p, available)
  OBVIOUS
<1>2. Samples(s, r, view) = {}
  BY <1>1 DEF PassesLack
<1>3. Given(s, r, view.bundle["image"], view.bundle, view.surfaces, view.routes)
  BY <1>2, GivenIsEnough
<1>4. /\ view.bundle = [dry.bundle EXCEPT !["image"] = @ \/ "outputTex" \in OutputsBefore(s, p)]
      /\ view.surfaces = available \cup (IF g.iterated THEN {}
                                         ELSE dry.produced \cup OutputsBefore(s, p))
      /\ view.routes = DryRoutes(s, g, p, dry.produced, available)
  BY <1>1 DEF PreflightView, DryRoutes
<1>5. PICK image \in BOOLEAN :
        image = (dry.bundle["image"] \/ "outputTex" \in OutputsBefore(s, p))
  BY DEF Bundles, Components
<1>6. /\ view.bundle["image"] = image
      /\ view.bundle["volume"] = dry.bundle["volume"]
      /\ view.bundle["geometry"] = dry.bundle["geometry"]
  <2>1. view.bundle = [dry.bundle EXCEPT !["image"] = image]
    BY <1>4, <1>5
  <2> QED BY <2>1 DEF Bundles, Components
<1>7. view.routes \subseteq DryRoutes(s, g, p, producers, available)
  BY <1>4 DEF DryRoutes
<1>8. SamplesSurface(s, r) => s.binding[r] \in available
  <2> SUFFICES ASSUME SamplesSurface(s, r) PROVE s.binding[r] \in available
    OBVIOUS
  <2>1. s.binding[r] \in view.surfaces
    BY <1>3 DEF Given
  <2>2. s.binding[r] \in Surfaces
    BY PlanExecutionAssumption DEF SamplesSurface
  <2>3. Outputs(s) \cap Surfaces = {}
    BY PlanExecutionAssumption
  <2>4. OutputsBefore(s, p) \cap Surfaces = {}
    BY <2>3, OwnOutputs
  <2> QED BY <1>4, <2>1, <2>2, <2>4
<1>9. Given(s, r, image, dry.bundle, available, DryRoutes(s, g, p, producers, available))
  BY <1>3, <1>6, <1>7, <1>8 DEF Given
<1> QED BY <1>5, <1>9

LEMMA NeedsPreflight ==
    ASSUME IInv, MirrorInv, NeedsInv, \/ PreflightRead \/ PreflightWrite \/ PreflightRead3D
                                      \/ PreflightWrite3D \/ PreflightEffect
    PROVE  NeedsInv'
<1>1. phase = "preflight" /\ at <= Len(chain)
  BY DEF PreflightRead, PreflightWrite, PreflightRead3D, PreflightWrite3D, PreflightEffect,
         InPreflight
<1>2. DryMirror /\ DryNeeds
  BY <1>1 DEF MirrorInv, NeedsInv
<1>3. at \in 1 .. Len(chain) /\ at \in 1 .. Len(dry.log) + 1 /\ Len(dry.log) \in Nat
  <2>1. PICK S : dry.log \in Seq(S)
    BY DEF IInv, DryInv, LogIsSequence
  <2>2. PICK m \in Nat : m = Len(dry.log) /\ at = m + 1
    BY <1>1, <2>1, LenProperties DEF IInv, DryInv
  <2>3. Len(chain) \in Nat
    BY LenProperties DEF IInv, CompileInv
  <2> QED BY <1>1, <2>2, <2>3
<1>4. chain \in Seq(Steps) /\ chain[at] \in Steps /\ at \in Nat \ {0} /\ at <= Len(chain) + 1
  <2>1. PICK l \in Nat : l = Len(chain)
    BY LenProperties DEF IInv, CompileInv
  <2>2. at \in 1 .. l
    BY <1>3, <2>1
  <2>3. chain \in Seq(Steps)
    BY DEF IInv, CompileInv
  <2> QED BY <1>3, <2>1, <2>2, <2>3, ElementOfSeq
<1>5. dry.bundle \in Bundles
  BY <1>2, <1>3, BeforeBundle DEF DryMirror
<1>6. ASSUME NEW missing, End("rejected", missing) PROVE NeedsInv'
  BY <1>6, NeedsEnds DEF End
<1>7. dry.produced \subseteq Producers(chain, at) /\ dry.produced \subseteq Producers(chain, at + 1)
  BY <1>2, <1>4, ProducersGrow DEF DryNeeds
<1>8. CASE PreflightRead
  <2>1. chain[at].kind = "read"
    BY <1>8 DEF PreflightRead, InPreflight
  <2>2. CASE chain[at].names[1] \in dry.available /\ Believes(ImageOnly, dry.produced, dry.available)
    <3>1. FoundAt(chain, TheGroup(at), at, dry.bundle, dry.available)
      BY <2>1, <2>2 DEF FoundAt
    <3> QED BY <1>1, <1>7, <2>2, <3>1, NeedsBelieves
  <2> QED BY <1>6, <1>8, <2>2 DEF PreflightRead
<1>9. CASE PreflightWrite
  <2>1. chain[at].kind = "write"
    BY <1>9 DEF PreflightWrite, InPreflight
  <2>2. CASE /\ dry.bundle["image"]
             /\ Believes(dry.bundle, dry.produced, dry.available \cup {chain[at].names[1]})
    <3>1. FoundAt(chain, TheGroup(at), at, dry.bundle, dry.available)
      BY <2>1, <2>2 DEF FoundAt
    <3> QED BY <1>1, <1>7, <2>2, <3>1, NeedsBelieves
  <2> QED BY <1>6, <1>9, <2>2 DEF PreflightWrite
<1>10. CASE PreflightRead3D
  <2> DEFINE bundle == [image |-> FALSE, volume |-> TRUE,
                        geometry |-> chain[at].names[2] \in dry.available]
  <2>1. chain[at].kind = "read3d"
    BY <1>10 DEF PreflightRead3D, InPreflight
  <2>2. \/ End("rejected", {"surface"})
        \/ chain[at].names[1] \in dry.available /\ Believes(bundle, dry.produced, dry.available)
    BY <1>10 DEF PreflightRead3D
  <2> HIDE DEF bundle
  <2>3. CASE chain[at].names[1] \in dry.available /\ Believes(bundle, dry.produced, dry.available)
    <3>1. FoundAt(chain, TheGroup(at), at, dry.bundle, dry.available)
      BY <2>1, <2>3 DEF FoundAt
    <3> QED BY <1>1, <1>7, <2>3, <3>1, NeedsBelieves
  <2> QED BY <1>6, <2>2, <2>3
<1>11. CASE PreflightWrite3D
  <2>1. /\ chain[at].kind = "write3d"
        /\ Believes(dry.bundle, dry.produced,
                    dry.available \cup Stored(chain[at].names, dry.bundle))
    BY <1>11 DEF PreflightWrite3D, InPreflight
  <2>2. FoundAt(chain, TheGroup(at), at, dry.bundle, dry.available)
    BY <2>1 DEF FoundAt
  <2> QED BY <1>1, <1>7, <2>1, <2>2, NeedsBelieves
<1>12. CASE PreflightEffect
  <2> DEFINE s == chain[at]
             g == TheGroup(at)
             zero == g.iterated /\ chain[g.steps[1]].zero
             available == dry.available \cup Publishes(ArgumentsOf(s))
             missing == PreflightLacks(s, g, zero, available)
             idle == PreflightZero(s, at = g.steps[1])
             busy == BundleAfter(s, g, available)
  <2>1. s.kind = "effect"
    BY <1>12 DEF PreflightEffect, InPreflight
  <2>2. zero = Idles(g, chain)
    BY DEF Idles
  <2>3. \/ End("rejected", missing)
        \/ missing = {} /\ zero /\ Believes(idle, dry.produced, available)
        \/ missing = {} /\ ~zero /\ Believes(busy, dry.produced \cup Outputs(s), available)
    BY <1>12 DEF PreflightEffect
  <2>4. missing = {} =>
          /\ ArgumentsLack(s.arguments, dry.available) = {}
          /\ ~zero => /\ PassesLack(s, g, available) = {}
                      /\ g.iterated => SeedsLack(s, dry.bundle) = {}
    BY DEF PreflightLacks
  <2>5. Producers(chain, at) \cap Surfaces = {}
    BY <1>4, NoSurfaceProduced
  <2> HIDE DEF zero, missing, idle, busy, s, g
  <2>6. missing = {} => FoundAt(chain, g, at, dry.bundle, dry.available)
    <3> SUFFICES ASSUME missing = {} PROVE FoundAt(chain, g, at, dry.bundle, dry.available)
      OBVIOUS
    <3>1. ASSUME ~Idles(g, chain), NEW p \in Running(s), NEW r \in s.effect.passes[p].inputs
          PROVE  Given(s, r, dry.bundle["image"] \/ "outputTex" \in OutputsBefore(s, p),
                       dry.bundle, available,
                       DryRoutes(s, g, p, Producers(chain, at), available))
      <4>1. PassesLack(s, g, available) = {} /\ s \in Steps
        BY <1>4, <2>2, <2>4, <3>1 DEF s
      <4> HIDE DEF available
      <4> QED BY <1>5, <1>7, <2>5, <4>1, PassesFound
    <3> QED BY <2>1, <2>2, <2>4, <3>1 DEF FoundAt, s
  <2>7. dry.produced \cup Outputs(s) \subseteq Producers(chain, at + 1)
    BY <1>4, <1>7, <2>1, ProducersGrow DEF s
  <2> HIDE DEF available
  <2>8. CASE missing = {} /\ zero /\ Believes(idle, dry.produced, available)
    BY <1>1, <1>7, <2>6, <2>8, NeedsBelieves DEF g
  <2>9. CASE missing = {} /\ ~zero /\ Believes(busy, dry.produced \cup Outputs(s), available)
    BY <1>1, <2>6, <2>7, <2>9, NeedsBelieves DEF g
  <2> QED BY <1>6, <2>3, <2>8, <2>9
<1> QED BY <1>8, <1>9, <1>10, <1>11, <1>12

LEMMA NeedsAdmitted ==
    ASSUME IInv, MirrorInv, NeedsInv, Admitted
    PROVE  NeedsInv'
<1>1. /\ phase = "preflight" /\ phase' = "execute" /\ at' = 1
      /\ chain' = chain /\ groups' = groups /\ dry' = dry /\ live' = live
  BY DEF Admitted, scanVars
<1>2. DryNeeds /\ NothingRuns /\ NoMeshIterates
  BY <1>1 DEF MirrorInv, NeedsInv
<1>3. Start(groups, 1) = 1 /\ live.member = 0
  BY <1>2 DEF Start, NothingRuns
<1>4. Leave(chain, groups, live.arena, 1)
  <2>1. 1 .. 1 - 1 = {}
    OBVIOUS
  <2> QED BY <2>1 DEF Leave
<1>5. LiveNeeds'
  <2>1. Leave(chain', groups', live'.arena, Start(groups', at'))
    BY <1>1, <1>3, <1>4
  <2>2. Finds(chain', groups', dry'.log, live'.arena, Start(groups', at'), Start(groups', at'))
    BY <1>1, <1>2, <1>3 DEF DryNeeds
  <2>3. live'.member = 0
    BY <1>1, <1>3
  <2> QED BY <2>1, <2>2, <2>3 DEF LiveNeeds
<1>6. NoMeshIterates'
  BY <1>1, <1>2 DEF NoMeshIterates
<1> QED BY <1>1, <1>5, <1>6 DEF NeedsInv, AdmittedChainsRun

-----------------------------------------------------------------------------
\* Execution finds what the dry run found.

\* The group ends, and the steps after it find what they need.
LEMMA NeedsLeaves ==
    ASSUME NeedsInv, phase = "execute", NEW bundle, NEW arena, Leaves(bundle, arena),
           Leave(chain, groups, arena, Start(groups, at + 1)),
           Finds(chain, groups, dry.log, arena, Start(groups, at + 1), Start(groups, at + 1))
    PROVE  NeedsInv'
<1>1. /\ live' = [bundle |-> bundle, arena |-> arena, member |-> 0,
                  carried |-> NoCarried, shared |-> {}]
      /\ at' = at + 1 /\ phase' = "execute"
      /\ chain' = chain /\ groups' = groups /\ dry' = dry
  BY DEF Leaves, scanVars
<1>2. live'.arena = arena /\ live'.member = 0
  BY <1>1
<1>3. NoMeshIterates'
  BY <1>1 DEF NeedsInv, NoMeshIterates
<1>4. LiveNeeds'
  <2>1. Leave(chain', groups', live'.arena, Start(groups', at'))
    BY <1>1, <1>2
  <2>2. Finds(chain', groups', dry'.log, live'.arena, Start(groups', at'), Start(groups', at'))
    BY <1>1, <1>2
  <2> QED BY <1>2, <2>1, <2>2 DEF LiveNeeds
<1> QED BY <1>1, <1>3, <1>4 DEF NeedsInv, AdmittedChainsRun

\* A group of one step that is not iterated.
LEMMA NeedsSingle ==
    ASSUME IInv, GroupedInv, MirrorInv, NeedsInv, NEW kind, Executes(kind),
           NEW bundle, NEW arena, Leaves(bundle, arena), live.arena \subseteq arena,
           Adds(chain, dry.log, Start(groups, at)) \subseteq arena,
           kind = "effect" => Outputs(Front) \subseteq arena
    PROVE  NeedsInv'
<1>1. PICK n, m : n = Start(groups, at) /\ m = Len(Group.steps)
  OBVIOUS
<1>2. /\ phase = "execute" /\ live.member = 0 /\ at \in 1 .. Len(groups) /\ ~Group.iterated
      /\ Front = chain[n] /\ Front.kind = kind
  BY <1>1, SingleAt
<1>3. /\ n \in 1 .. Len(chain) /\ Start(groups, at + 1) = n + m /\ m = 1
      /\ Len(dry.log) = Len(chain) /\ Len(chain) \in Nat
  BY <1>1, <1>2, GroupAt DEF GroupPlace, Runnable
<1>4. n \in Nat /\ n + 1 \in Nat /\ n <= n + 1 /\ (n + 1) - 1 = n /\ n .. n = {n}
  BY <1>3
<1>5. LiveNeeds
  BY <1>2 DEF NeedsInv
<1>6. Finds(chain, groups, dry.log, live.arena, n, n) /\ Leave(chain, groups, live.arena, n)
  BY <1>1, <1>2, <1>5 DEF LiveNeeds
<1>7. \A j \in n .. (n + 1) - 1 : Adds(chain, dry.log, j) \subseteq arena
  BY <1>1, <1>4
<1>8. Finds(chain, groups, dry.log, arena, n + 1, n + 1)
  BY <1>3, <1>4, <1>6, <1>7, FindsLater
<1>9. Leave(chain, groups, arena, n + 1)
  <2> SUFFICES ASSUME NEW j \in 1 .. (n + 1) - 1, chain[j].kind = "effect",
                      ~HolderOf(groups, j).iterated
               PROVE  Outputs(chain[j]) \subseteq arena
    BY DEF Leave
  <2>1. j = n \/ j \in 1 .. n - 1
    BY <1>4
  <2>2. CASE j = n
    BY <1>2, <2>2
  <2>3. CASE j \in 1 .. n - 1
    BY <1>6, <2>3 DEF Leave
  <2> QED BY <2>1, <2>2, <2>3
<1> QED BY <1>2, <1>3, <1>8, <1>9, NeedsLeaves

\* A step that is not iterated finds what it needs.
LEMMA SingleFinds ==
    ASSUME IInv, GroupedInv, MirrorInv, NeedsInv, NEW kind, Executes(kind)
    PROVE  FoundAt(chain, Group, Start(groups, at), live.bundle, live.arena)
<1>1. PICK n, m : n = Start(groups, at) /\ m = Len(Group.steps)
  OBVIOUS
<1>2. /\ phase = "execute" /\ live.member = 0 /\ at \in 1 .. Len(groups)
      /\ live.bundle = Before(dry.log, n)
  BY <1>1, SingleAt
<1>3. /\ n \in 1 .. Len(chain) /\ HolderOf(groups, n) = Group
      /\ Len(dry.log) = Len(chain) /\ Len(chain) \in Nat
  BY <1>1, <1>2, GroupAt DEF GroupPlace
<1>4. Finds(chain, groups, dry.log, live.arena, n, n)
  BY <1>1, <1>2 DEF NeedsInv, LiveNeeds
<1>5. n \in n .. Len(dry.log) /\ n .. n - 1 = {}
  <2>1. PICK l \in Nat : l = Len(chain)
    BY <1>3
  <2>2. n \in 1 .. l
    BY <1>3, <2>1
  <2> QED BY <1>3, <2>1, <2>2
<1>6. AddsFrom(chain, dry.log, n, n - 1) = {}
  BY <1>5 DEF AddsFrom
<1>7. FoundAt(chain, HolderOf(groups, n), n, Before(dry.log, n),
              live.arena \cup AddsFrom(chain, dry.log, n, n - 1))
  BY <1>4, <1>5 DEF Finds
<1>8. live.arena \cup {} = live.arena
  OBVIOUS
<1> QED BY <1>1, <1>2, <1>3, <1>6, <1>7, <1>8

LEMMA NeedsRead ==
    ASSUME IInv, GroupedInv, MirrorInv, NeedsInv, Read
    PROVE  NeedsInv'
<1>1. PICK n : n = Start(groups, at)
  OBVIOUS
<1>2. Executes("read")
  BY DEF Read
<1>3. Front = chain[n] /\ Front.kind = "read"
  BY <1>1, <1>2, SingleAt
<1>4. FoundAt(chain, Group, n, live.bundle, live.arena)
  BY <1>1, <1>2, SingleFinds
<1>5. Leaves(ImageOnly, live.arena)
  BY <1>3, <1>4 DEF Read, FoundAt
<1>6. Adds(chain, dry.log, n) = {}
  BY <1>3 DEF Adds
<1> QED BY <1>1, <1>2, <1>5, <1>6, NeedsSingle

LEMMA NeedsRead3D ==
    ASSUME IInv, GroupedInv, MirrorInv, NeedsInv, Read3D
    PROVE  NeedsInv'
<1> DEFINE bundle == [image |-> FALSE, volume |-> TRUE,
                      geometry |-> Front.names[2] \in live.arena]
<1>1. PICK n : n = Start(groups, at)
  OBVIOUS
<1>2. Executes("read3d")
  BY DEF Read3D
<1>3. Front = chain[n] /\ Front.kind = "read3d"
  BY <1>1, <1>2, SingleAt
<1>4. FoundAt(chain, Group, n, live.bundle, live.arena)
  BY <1>1, <1>2, SingleFinds
<1>5. Front.names[1] \in live.arena
  BY <1>3, <1>4 DEF FoundAt
<1>6. Leaves(bundle, live.arena)
  BY <1>5 DEF Read3D
<1>7. Adds(chain, dry.log, n) = {}
  BY <1>3 DEF Adds
<1> HIDE DEF bundle
<1> QED BY <1>1, <1>2, <1>6, <1>7, NeedsSingle

LEMMA NeedsWrite ==
    ASSUME IInv, GroupedInv, MirrorInv, NeedsInv, Write
    PROVE  NeedsInv'
<1>1. PICK n : n = Start(groups, at)
  OBVIOUS
<1>2. Executes("write")
  BY DEF Write
<1>3. Front = chain[n] /\ Front.kind = "write"
  BY <1>1, <1>2, SingleAt
<1>4. FoundAt(chain, Group, n, live.bundle, live.arena)
  BY <1>1, <1>2, SingleFinds
<1>5. Leaves(live.bundle, live.arena \cup {Front.names[1]})
  BY <1>3, <1>4 DEF Write, FoundAt
<1>6. Adds(chain, dry.log, n) = {Front.names[1]}
  BY <1>3 DEF Adds
<1> QED BY <1>1, <1>2, <1>5, <1>6, NeedsSingle

LEMMA NeedsWrite3D ==
    ASSUME IInv, GroupedInv, MirrorInv, NeedsInv, Write3D
    PROVE  NeedsInv'
<1>1. PICK n : n = Start(groups, at)
  OBVIOUS
<1>2. Executes("write3d") /\ Leaves(live.bundle, live.arena \cup Stored(Front.names, live.bundle))
  BY DEF Write3D
<1>3. Front = chain[n] /\ Front.kind = "write3d" /\ live.bundle = Before(dry.log, n)
  BY <1>1, <1>2, SingleAt
<1>4. Adds(chain, dry.log, n) = Stored(Front.names, live.bundle)
  BY <1>3 DEF Adds
<1> QED BY <1>1, <1>2, <1>4, NeedsSingle

-----------------------------------------------------------------------------
\* The two gaps of the dry run.

RouteGap(missing) ==
    /\ live.member = 0 /\ missing = {"route"}
    /\ \E p \in Running(Front) : Front.effect.passes[p].inputs \cap (GroupRoutes \ Arena) # {}

SurfaceGap(missing) ==
    /\ live.member > 0 /\ missing = {"surface"}
    /\ \E r \in DOMAIN StepOf.binding :
          /\ StepOf.binding[r] \notin {"null", "input"} \cup live.arena
          /\ \A p \in Running(StepOf) : r \notin StepOf.effect.passes[p].inputs

LEMMA NeedsFails ==
    ASSUME NEW missing, End("failed", missing), RouteGap(missing) \/ SurfaceGap(missing)
    PROVE  NeedsInv'
<1>1. /\ phase' = "failed" /\ lacking' = missing /\ live' = live /\ at' = at
      /\ chain' = chain /\ groups' = groups
  BY DEF End, scanVars
<1>2. Front' = Front /\ Group' = Group
  BY <1>1 DEF Front, Group
<1>3. StepOf' = StepOf /\ Positions' = Positions
  BY <1>1, <1>2 DEF StepOf, Positions
<1>4. \A i : TheGroup(i)' = TheGroup(i)
  BY <1>1 DEF TheGroup
<1>5. GroupRoutes' = GroupRoutes
  BY <1>1, <1>4 DEF GroupRoutes
<1>6. Arena' = Arena
  BY <1>1, <1>2, <1>3 DEF Arena, GroupArguments
<1>7. CASE RouteGap(missing)
  <2>1. SamplesGroupRoute'
    BY <1>1, <1>2, <1>5, <1>6, <1>7 DEF RouteGap, SamplesGroupRoute
  <2> QED BY <1>1, <2>1 DEF NeedsInv, AdmittedChainsRun
<1>8. CASE SurfaceGap(missing)
  <2>1. BindsUnsampledSurface'
    BY <1>1, <1>2, <1>3, <1>8 DEF SurfaceGap, StepOf, BindsUnsampledSurface
  <2> QED BY <1>1, <2>1 DEF NeedsInv, AdmittedChainsRun
<1> QED BY <1>7, <1>8

\* What a step that is not iterated samples.
RunNamed(p) == Arena \cup ClearedTextures(Front) \cup OutputsBefore(Front, p)

RunView(p) == [bundle |-> live.bundle, surfaces |-> RunNamed(p), routes |-> RunNamed(p)]

RunLacks ==
    ArgumentsLack(Front.arguments, live.arena)
      \cup UNION {UNION {Samples(Front, r, RunView(p)) : r \in Front.effect.passes[p].inputs} :
                    p \in Running(Front)}

LEMMA RunMoves ==
    ASSUME RunEffect
    PROVE  LET short == OutputsLack(Front.effect.domain, RunHands)
           IN  \/ RunLacks # {} /\ End("failed", RunLacks)
               \/ short # {} /\ End("failed", short)
               \/ Leaves(RunHands, RunArena)
BY DEF RunEffect, RunHands, RunArena, RunLacks, RunView, RunNamed, Outputs

\* A route that such a step lacks is one of a group before it.
LEMMA RunLacksRoutes ==
    ASSUME IInv, GroupedInv, MirrorInv, NeedsInv, Executes("effect"), RunLacks # {}
    PROVE  RouteGap(RunLacks)
<1>1. PICK n, m : n = Start(groups, at) /\ m = Len(Group.steps)
  OBVIOUS
<1>2. /\ phase = "execute" /\ live.member = 0 /\ at \in 1 .. Len(groups) /\ ~Group.iterated
      /\ n \in 1 .. Len(chain) /\ Front = chain[n] /\ Front \in Steps /\ Front.kind = "effect"
      /\ live.bundle = Before(dry.log, n)
  BY <1>1, SingleAt
<1>3. Len(dry.log) = Len(chain) /\ Len(chain) \in Nat
  BY <1>1, <1>2, GroupAt DEF GroupPlace
<1>4. FoundAt(chain, Group, n, live.bundle, live.arena)
  BY <1>1, SingleFinds
<1>5. ~Idles(Group, chain)
  BY <1>2 DEF Idles
<1>6. GuaranteedImage(Front) => live.bundle["image"]
  <2>1. n \in 1 .. Len(dry.log) + 1 /\ Len(dry.log) \in Nat
    BY <1>2, <1>3
  <2> QED BY <1>2, <2>1, GuaranteedIsThere
<1> DEFINE own == live.arena \cup Publishes(ArgumentsOf(Front))
<1>7. own \subseteq Arena
  <2>1. 1 \in Positions
    <3>1. m \in Nat \ {0}
      BY <1>1, <1>2, GroupAt DEF GroupPlace
    <3> QED BY <1>1, <3>1 DEF Positions
  <2>2. Publishes(ArgumentsOf(Front)) \subseteq Arena
    BY <2>1, GroupAdds DEF Front
  <2> QED BY <2>2 DEF Arena
<1> HIDE DEF own
<1>8. ASSUME NEW p \in Running(Front), NEW r \in Front.effect.passes[p].inputs
      PROVE  /\ Samples(Front, r, RunView(p)) \subseteq {"route"}
             /\ Samples(Front, r, RunView(p)) # {} => r \in GroupRoutes \ Arena
  <2>1. Given(Front, r, live.bundle["image"], live.bundle, own,
              DryRoutes(Front, Group, p, Producers(chain, n), own))
    BY <1>2, <1>4, <1>5, <1>6, FoundIsGiven DEF own
  <2>2. PICK view : view = RunView(p)
    OBVIOUS
  <2>3. view.bundle = live.bundle /\ view.surfaces = RunNamed(p) /\ view.routes = RunNamed(p)
    BY <2>2 DEF RunView
  <2>4. own \subseteq RunNamed(p)
    BY <1>7 DEF RunNamed
  <2>5. Given(Front, r, view.bundle["image"], view.bundle, view.surfaces, {r})
    BY <2>1, <2>3, <2>4 DEF Given
  <2>6. /\ Samples(Front, r, view) \subseteq {"route"}
        /\ Samples(Front, r, view) # {} => SamplesRoute(Front, r) /\ r \notin RunNamed(p)
    <3>1. /\ Samples(Front, r, view) \subseteq {"route"}
          /\ Samples(Front, r, view) # {} => SamplesRoute(Front, r) /\ r \notin view.routes
      BY <2>5, LacksRoute, Zenon
    <3> QED BY <2>3, <3>1
  <2>7. SamplesRoute(Front, r) /\ r \notin RunNamed(p) => r \in GroupRoutes \ Arena
    <3> SUFFICES ASSUME SamplesRoute(Front, r), r \notin RunNamed(p)
                 PROVE  r \in GroupRoutes /\ r \notin Arena
      OBVIOUS
    <3>1. r \in DryRoutes(Front, Group, p, Producers(chain, n), own)
      BY <2>1 DEF Given
    <3>2. r \notin Arena /\ r \notin ClearedTextures(Front) /\ r \notin OutputsBefore(Front, p)
      BY DEF RunNamed
    <3>3. r \in Producers(chain, n)
      BY <1>2, <1>7, <3>1, <3>2 DEF DryRoutes
    <3>4. PICK j \in 1 .. n - 1 : chain[j].kind = "effect" /\ r \in Outputs(chain[j])
      BY <3>3 DEF Producers
    <3>5. j \in 1 .. Len(chain)
      <4>1. PICK l \in Nat : l = Len(chain)
        BY <1>3
      <4> QED BY <1>2, <4>1
    <3>6. Leave(chain, groups, live.arena, n)
      BY <1>1, <1>2 DEF NeedsInv, LiveNeeds
    <3>7. ~HolderOf(groups, j).iterated => r \in Arena
      BY <3>4, <3>6 DEF Leave, Arena
    <3>8. TheGroup(j).iterated
      BY <3>2, <3>7, HolderIsGroup
    <3>9. j \in {i \in 1 .. Len(chain) : chain[i].kind = "effect" /\ TheGroup(i).iterated}
      BY <3>4, <3>5, <3>8
    <3> QED BY <3>2, <3>4, <3>9 DEF GroupRoutes
  <2> QED BY <2>2, <2>6, <2>7
<1>9. ArgumentsLack(Front.arguments, live.arena) = {}
  BY <1>2, <1>4 DEF FoundAt
<1>10. \A x \in RunLacks : \E p \in Running(Front) : \E r \in Front.effect.passes[p].inputs :
         x \in Samples(Front, r, RunView(p))
  BY <1>9 DEF RunLacks
<1>11. PICK x : x \in RunLacks
  OBVIOUS
<1>12. PICK p \in Running(Front) : \E r \in Front.effect.passes[p].inputs :
         x \in Samples(Front, r, RunView(p))
  BY <1>10, <1>11
<1>13. PICK r \in Front.effect.passes[p].inputs : x \in Samples(Front, r, RunView(p))
  BY <1>12
<1>14. RunLacks = {"route"}
  <2>1. \A y \in RunLacks : y = "route"
    BY <1>8, <1>10
  <2> QED BY <1>11, <2>1
<1>15. r \in GroupRoutes \ Arena
  BY <1>8, <1>13
<1> QED BY <1>2, <1>14, <1>15 DEF RouteGap

LEMMA NeedsRunEffect ==
    ASSUME IInv, GroupedInv, MirrorInv, NeedsInv, RunEffect
    PROVE  NeedsInv'
<1>1. PICK n, m : n = Start(groups, at) /\ m = Len(Group.steps)
  OBVIOUS
<1>2. Executes("effect")
  BY DEF RunEffect
<1>3. /\ phase = "execute" /\ at \in 1 .. Len(groups) /\ n \in 1 .. Len(chain)
      /\ Front = chain[n] /\ Front \in Steps /\ Front.kind = "effect" /\ ~Front.scan.iterated
      /\ live.bundle \in Bundles
      /\ Hands(Front, TRUE, FALSE, live.bundle, dry.log[n].bundle)
  BY <1>1, <1>2, SingleAt
<1>4. /\ Len(dry.log) = Len(chain) /\ Len(chain) \in Nat
      /\ Before(dry.log, n + 1) = dry.log[n].bundle
  BY <1>1, <1>3, GroupAt DEF GroupPlace
<1>5. RunHands = Before(dry.log, n + 1)
  BY <1>3, <1>4, RunsAsBelieved DEF Hands
<1>6. OutputsLack(Front.effect.domain, RunHands) = {}
  <2>1. n + 1 \in 1 .. Len(chain) + 1 /\ n < n + 1
    BY <1>3, <1>4
  <2>2. /\ RequiresOutputVolume(Front.effect.domain) => RunHands["volume"]
        /\ RequiresOutputImage(Front.effect.domain) => RunHands["image"]
    BY <1>3, <1>4, <1>5, <2>1, DomainKept
  <2> QED BY <2>2 DEF OutputsLack, Need
<1>7. CASE RunLacks # {} /\ End("failed", RunLacks)
  BY <1>2, <1>7, RunLacksRoutes, NeedsFails
<1>8. CASE Leaves(RunHands, RunArena)
  <2>1. live.arena \subseteq RunArena /\ Outputs(Front) \subseteq RunArena
    BY DEF RunArena, Arena
  <2>2. Adds(chain, dry.log, Start(groups, at)) \subseteq RunArena
    BY <1>2, RunAdds
  <2> QED BY <1>2, <1>8, <2>1, <2>2, NeedsSingle
<1> QED BY <1>6, <1>7, <1>8, RunMoves

-----------------------------------------------------------------------------
\* Iterated groups.

\* A step of a group, and what the dry run has found for it.
LEMMA GroupFinds ==
    ASSUME IInv, GroupedInv, MirrorInv, phase = "execute", at \in 1 .. Len(groups),
           Group.iterated, NEW n, n = Start(groups, at), NEW p \in Positions,
           NEW k, NEW arena, Finds(chain, groups, dry.log, arena, k, n)
    PROVE  /\ n + p - 1 \in 1 .. Len(chain) /\ n + p - 1 \in 1 .. Len(dry.log) + 1
           /\ Len(dry.log) = Len(chain) /\ Len(chain) \in Nat
           /\ chain[Group.steps[p]] = chain[n + p - 1]
           /\ chain[n + p - 1] \in Steps /\ chain[n + p - 1].kind = "effect"
           /\ HolderOf(groups, n + p - 1) = Group
           /\ FoundAt(chain, Group, n + p - 1, Before(dry.log, n + p - 1),
                      arena \cup AddsFrom(chain, dry.log, k, (n + p - 1) - 1))
<1> DEFINE i == n + p - 1
<1>1. PICK m : m = Len(Group.steps)
  OBVIOUS
<1>2. p \in 1 .. m
  BY <1>1 DEF Positions
<1>3. /\ n \in 1 .. Len(chain) /\ m \in Nat \ {0} /\ Len(dry.log) = Len(chain)
      /\ Len(chain) \in Nat
      /\ i \in 1 .. Len(chain) /\ HolderOf(groups, i) = Group
  BY <1>1, <1>2, GroupAt DEF GroupPlace
<1>4. Group.steps[p] = i /\ chain[Group.steps[p]] \in Steps /\ chain[Group.steps[p]].kind = "effect"
  BY <1>1, <1>2, IteratedAt
<1>5. i \in n .. Len(dry.log) /\ i \in 1 .. Len(dry.log) + 1
  <2>1. PICK l \in Nat : l = Len(chain)
    BY <1>3
  <2>2. n \in 1 .. l /\ p \in 1 .. m /\ i = n + p - 1 /\ i \in 1 .. l /\ m \in Nat
    BY <1>1, <1>2, <1>3, <2>1
  <2>3. i \in n .. l /\ i \in 1 .. l + 1
    BY <2>2
  <2> QED BY <1>3, <2>1, <2>3
<1>6. FoundAt(chain, HolderOf(groups, i), i, Before(dry.log, i),
              arena \cup AddsFrom(chain, dry.log, k, i - 1))
  BY <1>5 DEF Finds
<1>7. FoundAt(chain, Group, i, Before(dry.log, i),
              arena \cup AddsFrom(chain, dry.log, k, i - 1))
  BY <1>3, <1>6
<1>8. chain[Group.steps[p]] = chain[i] /\ chain[i] \in Steps /\ chain[i].kind = "effect"
  BY <1>4
<1> HIDE DEF i
<1> QED BY <1>3, <1>5, <1>7, <1>8 DEF i

\* Once its steps are done, a group has left nothing that others must find.
LEMMA GroupLeaves ==
    ASSUME IInv, GroupedInv, MirrorInv, phase = "execute", at \in 1 .. Len(groups),
           Group.iterated, NEW arena, Leave(chain, groups, arena, Start(groups, at))
    PROVE  Leave(chain, groups, arena, Start(groups, at + 1))
<1>1. PICK n, m : n = Start(groups, at) /\ m = Len(Group.steps)
  OBVIOUS
<1>2. /\ n \in 1 .. Len(chain) /\ m \in Nat \ {0} /\ Start(groups, at + 1) = n + m
      /\ \A p \in 1 .. m : HolderOf(groups, n + p - 1) = Group
  BY <1>1, GroupAt DEF GroupPlace
<1> SUFFICES ASSUME NEW j \in 1 .. (n + m) - 1, chain[j].kind = "effect",
                    ~HolderOf(groups, j).iterated
             PROVE  Outputs(chain[j]) \subseteq arena
  BY <1>2 DEF Leave
<1>3. n \in Nat
  BY <1>2
<1>4. ~(n <= j)
  <2> SUFFICES ASSUME n <= j PROVE FALSE
    OBVIOUS
  <2>1. (j - n) + 1 \in 1 .. m /\ j = n + ((j - n) + 1) - 1
    BY <1>2, <1>3
  <2>2. HolderOf(groups, j) = Group
    BY <1>2, <2>1
  <2> QED BY <2>2
<1>5. j \in 1 .. n - 1
  BY <1>2, <1>3, <1>4
<1> QED BY <1>1, <1>5 DEF Leave

\* With its arguments run, the steps of the group and those after it find
\* what they need.
LEMMA GroupStarts ==
    ASSUME IInv, GroupedInv, MirrorInv, NeedsInv, BetweenGroups, at \in 1 .. Len(groups),
           Group.iterated
    PROVE  /\ Finds(chain, groups, dry.log, Arena, Start(groups, at + 1), Start(groups, at))
           /\ Finds(chain, groups, dry.log, Arena, Start(groups, at + 1), Start(groups, at + 1))
           /\ Leave(chain, groups, Arena, Start(groups, at))
<1>1. phase = "execute" /\ live.member = 0
  BY DEF BetweenGroups
<1>2. PICK n, m : n = Start(groups, at) /\ m = Len(Group.steps)
  OBVIOUS
<1>3. /\ n \in 1 .. Len(chain) /\ m \in Nat \ {0} /\ Start(groups, at + 1) = n + m
      /\ Len(dry.log) = Len(chain) /\ Len(chain) \in Nat
  BY <1>1, <1>2, GroupAt DEF GroupPlace
<1>4. n \in Nat /\ n + m \in Nat /\ n <= n + m /\ n <= n /\ Len(dry.log) \in Nat
  BY <1>3
<1>5. /\ Finds(chain, groups, dry.log, live.arena, n, n)
      /\ Leave(chain, groups, live.arena, n)
  BY <1>1, <1>2 DEF NeedsInv, LiveNeeds
<1>6. \A j \in n .. (n + m) - 1 : Adds(chain, dry.log, j) \subseteq Arena
  BY <1>1, <1>2, <1>3, GroupStepsAdd
<1>7. live.arena \subseteq Arena
  BY DEF Arena
<1>8. Finds(chain, groups, dry.log, Arena, n + m, n)
  BY <1>4, <1>5, <1>6, <1>7, FindsLater
<1>9. Finds(chain, groups, dry.log, Arena, n + m, n + m)
  BY <1>4, <1>5, <1>6, <1>7, FindsLater
<1>10. Leave(chain, groups, Arena, n)
  BY <1>5, <1>7 DEF Leave
<1> QED BY <1>2, <1>3, <1>8, <1>9, <1>10

LEMMA GroupFindsArguments ==
    ASSUME IInv, GroupedInv, MirrorInv, NeedsInv, BetweenGroups, at \in 1 .. Len(groups),
           Group.iterated
    PROVE  GroupArgumentsLack = {}
<1>1. phase = "execute" /\ live.member = 0
  BY DEF BetweenGroups
<1>2. PICK n, m : n = Start(groups, at) /\ m = Len(Group.steps)
  OBVIOUS
<1>3. /\ n \in 1 .. Len(chain) /\ m \in Nat \ {0}
      /\ Finds(chain, groups, dry.log, live.arena, n, n)
  BY <1>1, <1>2, GroupAt DEF NeedsInv, LiveNeeds, GroupPlace
<1>4. ASSUME NEW p \in Positions
      PROVE  ArgumentsLack(chain[Group.steps[p]].arguments,
                           live.arena \cup Publishes(GroupArguments(1 .. p - 1))) = {}
  <2> DEFINE earlier == Publishes(GroupArguments(1 .. p - 1))
             added == AddsFrom(chain, dry.log, n, (n + p - 1) - 1)
  <2>1. /\ chain[Group.steps[p]] = chain[n + p - 1]
        /\ chain[n + p - 1].kind = "effect"
        /\ FoundAt(chain, Group, n + p - 1, Before(dry.log, n + p - 1), live.arena \cup added)
    BY <1>1, <1>2, <1>3, GroupFinds
  <2>2. ArgumentsLack(chain[Group.steps[p]].arguments, live.arena \cup added) = {}
    BY <2>1 DEF FoundAt
  <2>3. ASSUME NEW j \in n .. (n + p - 1) - 1 PROVE Adds(chain, dry.log, j) \subseteq earlier
    <3>1. n \in Nat /\ p \in 1 .. m /\ m \in Nat
      BY <1>2, <1>3 DEF Positions
    <3>2. PICK q : q = (j - n) + 1
      OBVIOUS
    <3>3. q \in 1 .. p - 1 /\ q \in 1 .. m /\ j = n + q - 1
      BY <3>1, <3>2
    <3>4. q \in Positions
      BY <1>2, <3>3 DEF Positions
    <3>5. chain[Group.steps[q]] = chain[j] /\ chain[j].kind = "effect"
      BY <1>1, <1>2, <1>3, <3>3, <3>4, GroupFinds
    <3>6. Adds(chain, dry.log, j) = Publishes(ArgumentsOf(chain[Group.steps[q]]))
      BY <3>5 DEF Adds
    <3>7. ArgumentsOf(chain[Group.steps[q]]) \subseteq GroupArguments(1 .. p - 1)
      BY <3>3 DEF GroupArguments
    <3> QED BY <3>6, <3>7 DEF Publishes
  <2>4. added \subseteq earlier
    BY <2>3 DEF AddsFrom
  <2>5. live.arena \cup added \subseteq live.arena \cup earlier
    BY <2>4
  <2> HIDE DEF added, earlier
  <2>6. ArgumentsLack(chain[Group.steps[p]].arguments, live.arena \cup earlier) = {}
    BY <2>2, <2>5, ArgumentsFindMore
  <2> QED BY <2>6 DEF earlier
<1> QED BY <1>4 DEF GroupArgumentsLack

\* The group hands back what it must, and ends.
LEMMA NeedsPublishes ==
    ASSUME IInv, GroupedInv, MirrorInv, NeedsInv, phase = "execute", at \in 1 .. Len(groups),
           Group.iterated, NEW carried, NEW arena, Publish(carried, arena),
           \A c \in Components :
             carried[c] # NoRoute <=> Before(dry.log, Start(groups, at + 1))[c],
           Leave(chain, groups, arena, Start(groups, at)),
           Finds(chain, groups, dry.log, arena, Start(groups, at + 1), Start(groups, at + 1))
    PROVE  NeedsInv'
<1> DEFINE bundle == [c \in Components |-> carried[c] # NoRoute]
           later == arena \cup {carried[c] : c \in {x \in Components : ~PassesThrough(carried[x])}}
<1>1. PICK n, m, r : n = Start(groups, at) /\ m = Len(Group.steps) /\ r = Start(groups, at + 1)
  OBVIOUS
<1>2. /\ n \in 1 .. Len(chain) /\ m \in Nat \ {0} /\ r = n + m
      /\ n + m - 1 \in 1 .. Len(chain) /\ Len(dry.log) = Len(chain) /\ Len(chain) \in Nat
  <2>1. /\ n \in 1 .. Len(chain) /\ m \in Nat \ {0} /\ r = n + m
        /\ Len(dry.log) = Len(chain) /\ Len(chain) \in Nat
        /\ \A p \in 1 .. m : n + p - 1 \in 1 .. Len(chain)
    BY <1>1, GroupAt DEF GroupPlace
  <2>2. m \in 1 .. m
    BY <2>1
  <2> QED BY <2>1, <2>2
<1>3. r \in Nat /\ r \in 1 .. Len(chain) + 1 /\ n < r /\ n \in Nat
  BY <1>2
<1>4. Front = chain[n] /\ Front \in Steps /\ Front.kind = "effect"
  <2>1. 1 \in 1 .. m /\ n + 1 - 1 = n
    BY <1>2, <1>3
  <2> QED BY <1>1, <2>1, IteratedAt DEF Front
<1>5. RequiresOutputVolume(Front.effect.domain) => bundle["volume"]
  <2>1. RequiresOutputVolume(Front.effect.domain) => Before(dry.log, r)["volume"]
    BY <1>2, <1>3, <1>4, DomainKept
  <2>2. "volume" \in Components
    BY DEF Components
  <2> QED BY <1>1, <2>1, <2>2
<1>6. Leaves(bundle, later)
  BY <1>5 DEF Publish, Need
<1>7. arena \subseteq later
  OBVIOUS
<1> HIDE DEF bundle, later
<1>8. Finds(chain, groups, dry.log, later, r, r)
  <2>1. r <= r /\ Len(dry.log) \in Nat /\ r .. r - 1 = {}
    BY <1>2, <1>3
  <2>2. \A j \in r .. r - 1 : Adds(chain, dry.log, j) \subseteq later
    BY <2>1
  <2> QED BY <1>1, <1>3, <1>7, <2>1, <2>2, FindsLater
<1>9. Leave(chain, groups, later, n)
  BY <1>1, <1>7 DEF Leave
<1>10. Leave(chain, groups, later, r)
  BY <1>1, <1>9, GroupLeaves
<1> QED BY <1>1, <1>6, <1>8, <1>10, NeedsLeaves

LEMMA NeedsGroupBegins ==
    ASSUME IInv, GroupedInv, MirrorInv, NeedsInv, GroupBegins
    PROVE  NeedsInv'
<1>1. BetweenGroups /\ Group.iterated /\ phase = "execute" /\ live.member = 0
      /\ at <= Len(groups)
  BY DEF GroupBegins, BetweenGroups
<1>2. LiveMirror /\ BetweenMirror /\ DOMAIN live = LiveFields
  BY <1>1 DEF MirrorInv, LiveMirror
<1>3. at \in 1 .. Len(groups)
  <2>1. PICK k \in Nat : k = Len(groups)
    BY LenProperties DEF IInv, GroupsInv
  <2> QED BY <1>1, <1>2, <2>1 DEF LiveMirror
<1>4. PICK n, m : n = Start(groups, at) /\ m = Len(Group.steps)
  OBVIOUS
<1>5. /\ n \in 1 .. Len(chain) /\ m \in Nat \ {0} /\ Group.steps[1] = n
      /\ Len(dry.log) = Len(chain) /\ Len(chain) \in Nat /\ Runnable(Group, chain)
  BY <1>1, <1>3, <1>4, GroupAt DEF GroupPlace
<1>6. Front \in Steps /\ Front.kind = "effect" /\ Front = chain[n]
  <2>1. 1 \in 1 .. m
    BY <1>5
  <2> QED BY <1>1, <1>3, <1>4, <1>5, <2>1, IteratedAt DEF Front
<1>7. GroupArgumentsLack = {}
  BY <1>1, <1>3, GroupFindsArguments
<1>8. Group.loop => live.bundle["image"]
  <2> SUFFICES ASSUME Group.loop PROVE live.bundle["image"]
    OBVIOUS
  <2>1. Front.effect.domain = "loop-begin"
    BY <1>5, <1>6, PlanCatalogAssumption DEF Runnable, Front
  <2>2. n \in 1 .. Len(dry.log) + 1 /\ Len(dry.log) \in Nat
    BY <1>5
  <2>3. Before(dry.log, n)["image"]
    BY <1>5, <1>6, <2>1, <2>2, GuaranteedIsThere DEF GuaranteedImage
  <2> QED BY <1>2, <1>4, <2>3 DEF BetweenMirror
<1>9. /\ Finds(chain, groups, dry.log, Arena, Start(groups, at + 1), Start(groups, at))
      /\ Finds(chain, groups, dry.log, Arena, Start(groups, at + 1), Start(groups, at + 1))
      /\ Leave(chain, groups, Arena, Start(groups, at))
  BY <1>1, <1>3, GroupStarts
<1>10. CASE TicksOwner.zero /\ Publish(ZeroOutput, Arena)
  <2>1. Idles(Group, chain)
    BY <1>1, <1>3, <1>10, OwnerOfTicks
  <2>2. \A c \in Components :
          ZeroOutput[c] # NoRoute <=> Before(dry.log, Start(groups, at + 1))[c]
    BY <1>1, <1>3, <2>1, ZeroGroupHands
  <2> QED BY <1>1, <1>3, <1>9, <1>10, <2>2, NeedsPublishes
<1>11. CASE /\ live' = [live EXCEPT !.arena = Arena, !.member = 1, !.carried = Incoming,
                                    !.shared = IF Group.loop THEN {"global_accum"} ELSE {}]
            /\ UNCHANGED <<chain, flags, scanVars, phase, at, lacking, dry>>
  <2>1. /\ chain' = chain /\ groups' = groups /\ phase' = "execute" /\ at' = at /\ dry' = dry
    BY <1>1, <1>11 DEF scanVars
  <2>2. /\ live'.arena = Arena /\ live'.member = 1
        /\ Group.loop => "global_accum" \in live'.shared
    BY <1>2, <1>11 DEF LiveFields
  <2>3. Group' = Group /\ Positions' = Positions
    BY <2>1 DEF Group, Positions
  <2>4. \A p \in Positions : Publishes(ArgumentsOf(chain[Group.steps[p]])) \subseteq Arena
    BY GroupAdds
  <2>5. InsideNeeds'
    <3>1. Finds(chain', groups', dry'.log, live'.arena, Start(groups', at' + 1), Start(groups', at'))
      BY <1>9, <2>1, <2>2
    <3>2. \A p \in Positions' :
            Publishes(ArgumentsOf(chain'[(Group').steps[p]])) \subseteq live'.arena
      BY <2>1, <2>2, <2>3, <2>4
    <3>3. (Group').loop => "global_accum" \in live'.shared
      BY <2>2, <2>3
    <3> QED BY <3>1, <3>2, <3>3 DEF InsideNeeds
  <2>6. LiveNeeds'
    <3>1. Leave(chain', groups', live'.arena, Start(groups', at'))
      BY <1>9, <2>1, <2>2
    <3> QED BY <2>2, <2>5, <3>1 DEF LiveNeeds
  <2>7. NoMeshIterates'
    BY <1>1, <2>1 DEF NeedsInv, NoMeshIterates
  <2> QED BY <2>1, <2>6, <2>7 DEF NeedsInv, AdmittedChainsRun
<1>12. \/ TicksOwner.zero /\ Publish(ZeroOutput, Arena)
       \/ /\ live' = [live EXCEPT !.arena = Arena, !.member = 1, !.carried = Incoming,
                                  !.shared = IF Group.loop THEN {"global_accum"} ELSE {}]
          /\ UNCHANGED <<chain, flags, scanVars, phase, at, lacking, dry>>
  BY <1>7, <1>8 DEF GroupBegins
<1> QED BY <1>10, <1>11, <1>12

\* A step of a group that lacks anything lacks a surface no pass of it samples.
LEMMA StepLacksSurfaces ==
    ASSUME IInv, GroupedInv, MirrorInv, NeedsInv, phase = "execute",
           live.member >= 1, live.member <= Len(Group.steps), StepLacks # {}
    PROVE  SurfaceGap(StepLacks)
<1>1. LiveMirror /\ LiveNeeds /\ NoMeshIterates
  BY DEF MirrorInv, NeedsInv
<1>2. live.member # 0
  OBVIOUS
<1>3. InsideMirror /\ InsideNeeds
  BY <1>1, <1>2 DEF LiveMirror, LiveNeeds
<1>4. /\ at \in 1 .. Len(groups) /\ Group = groups[at] /\ Group.iterated
      /\ ~Idles(Group, chain)
  BY <1>3 DEF InsideMirror, Group
<1>5. PICK n, m : n = Start(groups, at) /\ m = Len(Group.steps)
  OBVIOUS
<1>6. /\ n \in 1 .. Len(chain) /\ m \in Nat \ {0} /\ Start(groups, at + 1) = n + m
      /\ \A i \in 1 .. Len(chain) + 1 : Before(dry.log, i) \in Bundles
  BY <1>4, <1>5, GroupAt DEF GroupPlace
<1>7. live.member \in 1 .. m /\ live.member \in Positions
  <2>1. live.member \in 1 .. m + 1 /\ live.member <= m
    BY <1>3, <1>4, <1>5 DEF InsideMirror
  <2> QED BY <1>5, <1>6, <2>1 DEF Positions
<1>8. PICK i : i = n + live.member - 1
  OBVIOUS
<1>9. Finds(chain, groups, dry.log, live.arena, n + m, n)
  BY <1>3, <1>5, <1>6 DEF InsideNeeds
<1>10. /\ i \in 1 .. Len(chain) /\ i \in 1 .. Len(dry.log) + 1
       /\ Len(dry.log) = Len(chain) /\ Len(chain) \in Nat
       /\ StepOf = chain[i] /\ chain[i] \in Steps /\ chain[i].kind = "effect"
       /\ HolderOf(groups, i) = Group
       /\ FoundAt(chain, Group, i, Before(dry.log, i),
                  live.arena \cup AddsFrom(chain, dry.log, n + m, i - 1))
  <2>1. n = Start(groups, at)
    BY <1>5
  <2>2. PICK p : p = live.member
    OBVIOUS
  <2>3. p \in Positions /\ i = n + p - 1 /\ StepOf = chain[Group.steps[p]]
    BY <1>7, <1>8, <2>2 DEF StepOf
  <2>4. PICK k : k = n + m
    OBVIOUS
  <2>5. PICK arena : arena = live.arena
    OBVIOUS
  <2>6. Finds(chain, groups, dry.log, arena, k, n)
    BY <1>9, <2>4, <2>5
  <2>7. /\ n + p - 1 \in 1 .. Len(chain) /\ n + p - 1 \in 1 .. Len(dry.log) + 1
        /\ Len(dry.log) = Len(chain) /\ Len(chain) \in Nat
        /\ chain[Group.steps[p]] = chain[n + p - 1]
        /\ chain[n + p - 1] \in Steps /\ chain[n + p - 1].kind = "effect"
        /\ HolderOf(groups, n + p - 1) = Group
        /\ FoundAt(chain, Group, n + p - 1, Before(dry.log, n + p - 1),
                   arena \cup AddsFrom(chain, dry.log, k, (n + p - 1) - 1))
    BY <1>4, <2>1, <2>3, <2>6, GroupFinds, ZenonT(30)
  <2> QED BY <2>3, <2>4, <2>5, <2>7
<1>11. AddsFrom(chain, dry.log, n + m, i - 1) = {}
  <2>1. n + m .. i - 1 = {}
    BY <1>6, <1>7, <1>8
  <2> QED BY <2>1 DEF AddsFrom
<1>12. PICK b : b = Before(dry.log, i)
  OBVIOUS
<1>13. FoundAt(chain, Group, i, b, live.arena)
  <2>1. live.arena \cup {} = live.arena
    OBVIOUS
  <2> QED BY <1>10, <1>11, <1>12, <2>1
<1>14. Present = b
  <2>1. Present \in Bundles /\ b \in Bundles
    <3>1. Present \in Bundles
      BY DEF Present, Bundles
    <3>2. i \in 1 .. Len(chain) + 1
      BY <1>10
    <3> QED BY <1>6, <1>12, <3>1, <3>2
  <2>2. \A x \in Components : Present[x] <=> b[x]
    BY <1>3, <1>5, <1>8, <1>12 DEF InsideMirror
  <2>3. "image" \in Components /\ "volume" \in Components /\ "geometry" \in Components
    BY DEF Components
  <2> QED BY <2>1, <2>2, <2>3, SameBundle
<1>15. GuaranteedImage(StepOf) => b["image"]
  <2>1. Len(dry.log) \in Nat
    BY <1>10
  <2> QED BY <1>10, <1>12, <2>1, GuaranteedIsThere
<1>16. Publishes(ArgumentsOf(StepOf)) \subseteq live.arena
  BY <1>3, <1>7 DEF InsideNeeds, StepOf
<1>17. live.arena \cup Publishes(ArgumentsOf(StepOf)) = live.arena
  BY <1>16
<1>18. ASSUME NEW p \in Running(StepOf), NEW r \in StepOf.effect.passes[p].inputs
       PROVE  Given(StepOf, r, b["image"], b, live.arena,
                    DryRoutes(StepOf, Group, p, Producers(chain, i), live.arena))
  <2>1. Given(StepOf, r, b["image"], b, live.arena \cup Publishes(ArgumentsOf(StepOf)),
              DryRoutes(StepOf, Group, p, Producers(chain, i),
                        live.arena \cup Publishes(ArgumentsOf(StepOf))))
    BY <1>4, <1>10, <1>13, <1>15, FoundIsGiven
  <2> QED BY <1>17, <2>1
<1>19. ~StepOf.mesh
  BY <1>1, <1>4, <1>10 DEF NoMeshIterates
<1>20. SeedsLack(StepOf, Present) = {}
  BY <1>4, <1>10, <1>13, <1>14 DEF FoundAt
<1>21. GroupPassesLack(StepOf) = {}
  <2> DEFINE routes(p) == OwnRoutes(StepOf) \cup live.shared \cup ParticleState
                            \cup {"selfTex", "feedback"} \cup OutputsBefore(StepOf, p)
             view(p) == [bundle |-> Present, surfaces |-> live.arena, routes |-> routes(p)]
  <2>1. ASSUME NEW p \in Running(StepOf), NEW r \in StepOf.effect.passes[p].inputs
        PROVE  Samples(StepOf, r, view(p)) = {}
    <3>1. DryRoutes(StepOf, Group, p, Producers(chain, i), live.arena) \subseteq routes(p)
      <4>1. ClearedTextures(StepOf) \subseteq StepOf.textures
        BY <1>10, PlanExecutionAssumption
      <4>2. Group.loop => "global_accum" \in live.shared
        BY <1>3 DEF InsideNeeds
      <4>3. StepOf.textures \subseteq routes(p) /\ DOMAIN StepOf.typed \subseteq routes(p)
        BY DEF OwnRoutes
      <4> QED BY <1>4, <4>1, <4>2, <4>3 DEF DryRoutes
    <3>2. PICK v : v = view(p)
      OBVIOUS
    <3>3. v.bundle = b /\ v.surfaces = live.arena /\ v.routes = routes(p)
      BY <1>14, <3>2
    <3> HIDE DEF view, routes
    <3>4. Given(StepOf, r, b["image"], b, live.arena, routes(p))
      BY <1>18, <3>1, GivenMore
    <3>5. Given(StepOf, r, v.bundle["image"], v.bundle, v.surfaces, v.routes)
      BY <3>3, <3>4
    <3>6. Samples(StepOf, r, v) = {}
      BY <3>5, GivenIsEnough
    <3> QED BY <3>2, <3>6
  <2>2. GroupPassesLack(StepOf)
          = UNION {UNION {Samples(StepOf, r, view(p)) : r \in StepOf.effect.passes[p].inputs} :
                     p \in Running(StepOf)}
    BY DEF GroupPassesLack
  <2> HIDE DEF view, routes
  <2> QED BY <2>1, <2>2
<1>22. Running(StepOf) # {}
  BY <1>10, PlanExecutionAssumption
<1>23. StepLacks = BindingsLack(StepOf)
  BY <1>19, <1>20, <1>21, <1>22 DEF StepLacks, Need
<1>24. ASSUME NEW r \in DOMAIN StepOf.binding, StepOf.binding[r] = "input"
       PROVE  Present["image"]
  <2>1. CASE GuaranteedImage(StepOf)
    BY <1>14, <1>15, <2>1
  <2>2. CASE ~GuaranteedImage(StepOf)
    <3>1. PICK p \in Running(StepOf) : r \in StepOf.effect.passes[p].inputs
      BY <1>10, <1>24, <2>2, PlanExecutionAssumption
    <3>2. SamplesChain(StepOf, r)
      BY <1>24 DEF SamplesChain
    <3>3. b["image"]
      BY <1>18, <3>1, <3>2 DEF Given
    <3> QED BY <1>14, <3>3
  <2> QED BY <2>1, <2>2
<1>25. ASSUME NEW r \in DOMAIN StepOf.binding, StepOf.binding[r] \notin {"null", "input"},
              NEW p \in Running(StepOf), r \in StepOf.effect.passes[p].inputs
       PROVE  StepOf.binding[r] \in live.arena
  BY <1>18, <1>25 DEF Given, SamplesSurface
<1> DEFINE lack(r) == CASE StepOf.binding[r] = "null"  -> {}
                        [] StepOf.binding[r] = "input" -> Need("image", Present["image"])
                        [] OTHER -> Need("surface", StepOf.binding[r] \in live.arena)
<1>26. BindingsLack(StepOf) = UNION {lack(r) : r \in DOMAIN StepOf.binding}
  BY DEF BindingsLack
<1>27. ASSUME NEW r \in DOMAIN StepOf.binding, NEW x \in lack(r)
       PROVE  /\ x = "surface"
              /\ StepOf.binding[r] \notin {"null", "input"} \cup live.arena
  <2>1. CASE StepOf.binding[r] = "null"
    BY <1>27, <2>1
  <2>2. CASE StepOf.binding[r] = "input"
    <3>1. lack(r) = Need("image", Present["image"])
      BY <2>2
    <3>2. Present["image"]
      BY <1>24, <2>2
    <3> QED BY <1>27, <3>1, <3>2 DEF Need
  <2>3. CASE StepOf.binding[r] \notin {"null", "input"}
    <3>1. lack(r) = Need("surface", StepOf.binding[r] \in live.arena)
      BY <2>3
    <3> QED BY <1>27, <2>3, <3>1 DEF Need
  <2> QED BY <2>1, <2>2, <2>3
<1> HIDE DEF lack
<1>28. PICK x : x \in StepLacks
  OBVIOUS
<1>29. PICK r \in DOMAIN StepOf.binding : x \in lack(r)
  BY <1>23, <1>26, <1>28
<1>30. StepLacks = {"surface"}
  <2>1. \A y \in StepLacks : y = "surface"
    BY <1>23, <1>26, <1>27
  <2> QED BY <1>28, <2>1
<1>31. /\ StepOf.binding[r] \notin {"null", "input"} \cup live.arena
       /\ \A p \in Running(StepOf) : r \notin StepOf.effect.passes[p].inputs
  BY <1>25, <1>27, <1>29
<1>32. live.member > 0
  BY <1>6, <1>7
<1> QED BY <1>30, <1>31, <1>32 DEF SurfaceGap

\* Inside a group nothing changes that the steps ahead need.
LEMMA NeedsGoesOn ==
    ASSUME NeedsInv, phase = "execute", live.member # 0,
           chain' = chain, groups' = groups, phase' = "execute", at' = at, dry' = dry,
           live'.arena = live.arena, live'.member # 0, live.shared \subseteq live'.shared
    PROVE  NeedsInv'
<1>1. NoMeshIterates /\ LiveNeeds /\ InsideNeeds
  BY DEF NeedsInv, LiveNeeds
<1>2. Group' = Group /\ Positions' = Positions
  BY DEF Group, Positions
<1>3. NoMeshIterates'
  BY <1>1 DEF NoMeshIterates
<1>4. InsideNeeds'
  <2>1. Finds(chain', groups', dry'.log, live'.arena, Start(groups', at' + 1), Start(groups', at'))
    BY <1>1 DEF InsideNeeds
  <2>2. \A p \in Positions' :
          Publishes(ArgumentsOf(chain'[(Group').steps[p]])) \subseteq live'.arena
    BY <1>1, <1>2 DEF InsideNeeds
  <2>3. (Group').loop => "global_accum" \in live'.shared
    BY <1>1, <1>2 DEF InsideNeeds
  <2> QED BY <2>1, <2>2, <2>3 DEF InsideNeeds
<1>5. LiveNeeds'
  <2>1. Leave(chain', groups', live'.arena, Start(groups', at'))
    BY <1>1 DEF LiveNeeds
  <2> QED BY <1>4, <2>1 DEF LiveNeeds
<1> QED BY <1>3, <1>5 DEF NeedsInv, AdmittedChainsRun

LEMMA NeedsGroupStep ==
    ASSUME IInv, GroupedInv, MirrorInv, NeedsInv, GroupStep
    PROVE  NeedsInv'
<1>1. /\ phase = "execute" /\ live.member >= 1 /\ live.member <= Len(Group.steps)
      /\ live.member # 0
  <2>1. phase = "execute" /\ live.member >= 1 /\ live.member <= Len(Group.steps)
    BY DEF GroupStep
  <2>2. live.member # 0
    BY <2>1
  <2> QED BY <2>1, <2>2
<1>2. LiveMirror /\ InsideMirror /\ DOMAIN live = LiveFields
  BY <1>1 DEF MirrorInv, LiveMirror
<1>3. at \in 1 .. Len(groups) /\ Group.iterated /\ ~Idles(Group, chain)
  BY <1>2 DEF InsideMirror, Group
<1>4. PICK n, m : n = Start(groups, at) /\ m = Len(Group.steps)
  OBVIOUS
<1>5. /\ n \in 1 .. Len(chain) /\ m \in Nat \ {0} /\ Len(dry.log) = Len(chain)
      /\ Len(chain) \in Nat /\ \A q \in 1 .. m : n + q - 1 \in 1 .. Len(chain)
  BY <1>1, <1>3, <1>4, GroupAt DEF GroupPlace
<1>6. PICK p \in 1 .. m : p = live.member
  <2>1. live.member \in 1 .. m + 1 /\ live.member <= m
    BY <1>1, <1>2, <1>3, <1>4 DEF InsideMirror
  <2> QED BY <1>5, <2>1
<1>7. PICK i : i = n + p - 1
  OBVIOUS
<1>8. /\ i \in 1 .. Len(chain) /\ n + p \in 1 .. Len(chain) + 1 /\ i < n + p
  <2>1. i \in 1 .. Len(chain)
    BY <1>5, <1>7
  <2>2. n + p = i + 1 /\ i \in Nat
    BY <1>5, <1>7
  <2> QED BY <1>5, <2>1, <2>2
<1>9. PICK b : b = Before(dry.log, n + p - 1)
  OBVIOUS
<1>10. /\ StepOf = chain[i] /\ StepOf \in Steps /\ StepOf.kind = "effect" /\ b \in Bundles
       /\ Before(dry.log, n + p) = RunBundle(StepOf, b)
  <2>1. Group.steps[p] = n + p - 1
    BY <1>1, <1>3, <1>4, GroupAt DEF GroupPlace
  <2>2. StepOf = chain[Group.steps[p]]
    BY <1>6 DEF StepOf
  <2> QED BY <1>1, <1>3, <1>4, <1>7, <1>9, <2>1, <2>2, IteratedAt
<1>11. GroupHands(StepOf, Handed)
  BY <1>10, StepHands
<1>12. \A x \in Components : live.carried[x] # NoRoute <=> b[x]
  BY <1>2, <1>4, <1>6, <1>9 DEF InsideMirror, Present
<1>13. \A x \in Components : Handed[x] # NoRoute <=> Before(dry.log, n + p)[x]
  BY <1>10, <1>11, <1>12, HandsOn
<1>14. StepShort = {}
  <2>1. /\ RequiresOutputVolume(StepOf.effect.domain) => Before(dry.log, n + p)["volume"]
        /\ RequiresOutputImage(StepOf.effect.domain) => Before(dry.log, n + p)["image"]
    BY <1>5, <1>8, <1>10, DomainKept
  <2>2. /\ RequiresOutputVolume(StepOf.effect.domain) => Handed["volume"] # NoRoute
        /\ RequiresOutputImage(StepOf.effect.domain) => Handed["image"] # NoRoute
    BY <1>13, <2>1 DEF Components
  <2> DEFINE bundle == [c \in Components |-> Handed[c] # NoRoute]
  <2>3. /\ RequiresOutputVolume(StepOf.effect.domain) => bundle["volume"]
        /\ RequiresOutputImage(StepOf.effect.domain) => bundle["image"]
    BY <2>2 DEF Components
  <2>4. StepShort = OutputsLack(StepOf.effect.domain, bundle)
    BY DEF StepShort
  <2> HIDE DEF bundle
  <2> QED BY <2>3, <2>4 DEF OutputsLack, Need
<1>15. CASE StepLacks # {} /\ End("failed", StepLacks)
  BY <1>1, <1>15, StepLacksSurfaces, NeedsFails
<1>16. CASE /\ live' = [live EXCEPT !.member = @ + 1, !.carried = Handed, !.shared = StepShares]
            /\ UNCHANGED <<chain, flags, scanVars, phase, at, lacking, dry>>
  <2>1. /\ chain' = chain /\ groups' = groups /\ phase' = "execute" /\ at' = at /\ dry' = dry
    BY <1>1, <1>16 DEF scanVars
  <2>2. live'.arena = live.arena /\ live'.member = p + 1 /\ live'.shared = StepShares
    BY <1>2, <1>6, <1>16 DEF LiveFields
  <2>3. p + 1 # 0
    BY <1>5
  <2>4. live.shared \subseteq StepShares
    BY DEF StepShares
  <2> QED BY <1>1, <2>1, <2>2, <2>3, <2>4, NeedsGoesOn
<1> QED BY <1>14, <1>15, <1>16, StepMoves

LEMMA NeedsGroupEnds ==
    ASSUME IInv, GroupedInv, MirrorInv, NeedsInv, GroupEnds
    PROVE  NeedsInv'
<1>1. /\ phase = "execute" /\ live.member > Len(Group.steps) /\ at <= Len(groups)
      /\ Publish(live.carried, live.arena)
  BY DEF GroupEnds
<1>2. LiveMirror
  BY <1>1 DEF MirrorInv
<1>3. at \in 1 .. Len(groups)
  <2>1. PICK k \in Nat : k = Len(groups)
    BY LenProperties DEF IInv, GroupsInv
  <2> QED BY <1>1, <1>2, <2>1 DEF LiveMirror
<1>4. PICK n, m : n = Start(groups, at) /\ m = Len(Group.steps)
  OBVIOUS
<1>5. /\ n \in 1 .. Len(chain) /\ m \in Nat \ {0} /\ Start(groups, at + 1) = n + m
      /\ Len(dry.log) = Len(chain) /\ Len(chain) \in Nat
  BY <1>1, <1>3, <1>4, GroupAt DEF GroupPlace
<1>6. live.member # 0
  BY <1>1, <1>4, <1>5
<1>7. InsideMirror /\ Group = groups[at] /\ Group.iterated
  BY <1>2, <1>6 DEF LiveMirror, InsideMirror, Group
<1>8. live.member = m + 1
  <2>1. live.member \in 1 .. m + 1 /\ live.member > m
    BY <1>1, <1>4, <1>7 DEF InsideMirror
  <2> QED BY <1>5, <2>1
<1>9. n + (m + 1) - 1 = n + m
  BY <1>5
<1>10. \A x \in Components : live.carried[x] # NoRoute <=> Before(dry.log, n + (m + 1) - 1)[x]
  BY <1>4, <1>7, <1>8 DEF InsideMirror, Present
<1>11. \A x \in Components : live.carried[x] # NoRoute <=> Before(dry.log, Start(groups, at + 1))[x]
  BY <1>5, <1>9, <1>10
<1>12. LiveNeeds /\ InsideNeeds
  BY <1>1, <1>6 DEF NeedsInv, LiveNeeds
<1>13. /\ Leave(chain, groups, live.arena, n)
       /\ Finds(chain, groups, dry.log, live.arena, n + m, n)
  BY <1>4, <1>5, <1>12 DEF LiveNeeds, InsideNeeds
<1>14. Finds(chain, groups, dry.log, live.arena, n + m, n + m)
  <2>1. n \in Nat /\ n + m \in Nat /\ n <= n + m /\ n + m <= n + m /\ Len(dry.log) \in Nat
    BY <1>5
  <2>2. n + m .. (n + m) - 1 = {}
    BY <2>1
  <2>3. \A j \in n + m .. (n + m) - 1 : Adds(chain, dry.log, j) \subseteq live.arena
    BY <2>2
  <2> QED BY <1>13, <2>1, <2>3, FindsLater
<1> QED BY <1>1, <1>3, <1>4, <1>5, <1>7, <1>11, <1>13, <1>14, NeedsPublishes

LEMMA NeedsNext == IInv /\ GroupedInv /\ MirrorInv /\ NeedsInv /\ [Next]_vars => NeedsInv'
<1> SUFFICES ASSUME IInv, GroupedInv, MirrorInv, NeedsInv, [Next]_vars PROVE NeedsInv'
  OBVIOUS
<1>1. CASE UNCHANGED vars
  <2>1. /\ chain' = chain /\ groups' = groups /\ phase' = phase /\ at' = at /\ dry' = dry
        /\ live' = live /\ lacking' = lacking
    BY <1>1 DEF vars, scanVars
  <2>2. Front' = Front /\ Group' = Group
    BY <2>1 DEF Front, Group
  <2>3. Positions' = Positions
    BY <2>1, <2>2 DEF Positions
  <2>4. \A i : TheGroup(i)' = TheGroup(i)
    BY <2>1 DEF TheGroup
  <2>5. GroupRoutes' = GroupRoutes
    BY <2>1, <2>4 DEF GroupRoutes
  <2>6. Arena' = Arena
    BY <2>1, <2>2, <2>3 DEF Arena, GroupArguments
  <2>7. AdmittedChainsRun'
    <3>1. SamplesGroupRoute => SamplesGroupRoute'
      BY <2>1, <2>2, <2>5, <2>6 DEF SamplesGroupRoute
    <3>2. BindsUnsampledSurface => BindsUnsampledSurface'
      BY <2>1, <2>2 DEF BindsUnsampledSurface
    <3> QED BY <2>1, <3>1, <3>2 DEF NeedsInv, AdmittedChainsRun
  <2>8. InsideNeeds => InsideNeeds'
    BY <2>1, <2>2, <2>3 DEF InsideNeeds
  <2>9. LiveNeeds => LiveNeeds'
    BY <2>1, <2>8 DEF LiveNeeds
  <2>10. (NoMeshIterates => NoMeshIterates') /\ (DryNeeds => DryNeeds')
    BY <2>1 DEF NoMeshIterates, DryNeeds
  <2> QED BY <2>1, <2>7, <2>9, <2>10 DEF NeedsInv
<1>2. CASE (\E s \in Steps : CompileStep(s)) \/ EndCompile \/ Admit
  BY <1>2, NeedsCompiles
<1>3. CASE \/ PreflightRead \/ PreflightWrite \/ PreflightRead3D
           \/ PreflightWrite3D \/ PreflightEffect
  BY <1>3, NeedsPreflight
<1>4. CASE Admitted
  BY <1>4, NeedsAdmitted
<1>5. CASE Read \/ Write \/ Read3D \/ Write3D \/ RunEffect
  BY <1>5, NeedsRead, NeedsWrite, NeedsRead3D, NeedsWrite3D, NeedsRunEffect
<1>6. CASE GroupBegins \/ GroupStep \/ GroupEnds
  BY <1>6, NeedsGroupBegins, NeedsGroupStep, NeedsGroupEnds
<1>7. CASE ChainEnds
  BY <1>7, NeedsEnds DEF ChainEnds, End
<1> QED BY <1>1, <1>2, <1>3, <1>4, <1>5, <1>6, <1>7 DEF Next, Ended

\* NeedsInv holds in every state: whatever is ahead, of the dry run or of
\* execution, finds the bundle, surfaces and routes that it samples.
THEOREM NeedsInductive == Spec => []NeedsInv
<1>1. Init => NeedsInv
  BY NeedsInit
<1> QED BY <1>1, NeedsNext, InductiveInvariant, PlansAreGrouped, MirrorInductive, PTL DEF Spec

\* Whatever the plan, a chain that the dry run of the executor admits fails
\* only where the dry run does not look: a step samples a route of a group
\* before it, or a step of a group binds a surface that no pass of it samples.
THEOREM AdmittedChainsAlwaysRun == Spec => []AdmittedChainsRun
<1>1. NeedsInv => AdmittedChainsRun
  BY DEF NeedsInv
<1> QED BY <1>1, NeedsInductive, PTL
====
