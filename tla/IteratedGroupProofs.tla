------------------------ MODULE IteratedGroupProofs ------------------------
(***************************************************************************)
(* Proofs about IteratedGroup, for every group of steps and any number of  *)
(* ticks: what a pass samples is the right earlier rendering, what a group *)
(* hands back can be published, and what is rendered together has one      *)
(* size.                                                                   *)
(***************************************************************************)
EXTENDS IteratedGroup, NaturalsInduction, WellFoundedInduction,
        SequenceTheorems, TLAPS

\* The renderings of a route, by one step or by all.
Renderings(p, route) == {k \in 1 .. Len(log) : log[k].position = p /\ Wrote(k, route)}

AllRenderings(route) == {k \in 1 .. Len(log) : Wrote(k, route)}

Running == phase \in {"step", "pass"}

\* What the memory of the group keeps, for all steps and for one.
Common(route) == route \in ParticleState \/ (group.loop /\ route = "global_accum")

LogIsSequence == \E S : log \in Seq(S)

\* No rendering is of a later tick, or of a later step of this one.
LogOK ==
    /\ LogIsSequence
    /\ \A k \in 1 .. Len(log) :
          /\ log[k].position \in Positions
          /\ log[k].tick \in Nat
          /\ Len(log[k].outputs) \in Nat \ {0}
          /\ \/ log[k].tick < at.tick
             \/ /\ log[k].tick = at.tick
                /\ \/ log[k].position < Position
                   \/ log[k].position = Position /\ phase # "step"

\* Common surfaces are the latest of any step, kept ones of their own step.
SharedOK ==
    /\ \A r \in DOMAIN shared :
          Common(r) /\ shared[r] = Latest(AllRenderings(r), r, Cleared)
    /\ \A r : Common(r) /\ AllRenderings(r) # {} => r \in DOMAIN shared
    /\ group.loop => "global_accum" \in DOMAIN shared

KeptOK(p) ==
    \A r : ~Common(r) /\ r \notin ThreadRoutes \cup BoundRoutes(group.steps[p]) =>
      /\ r \in DOMAIN states[p].resources =>
            /\ states[p].resources[r] = Latest(Renderings(p, r), r, Cleared)
            /\ Renderings(p, r) # {} \/ Declared(p, r)
      /\ Renderings(p, r) # {} => r \in DOMAIN states[p].resources

\* selfTex is the result of the last tick that the step has finished.
SelfTexOK(p) ==
    LET finished == IF p < Position THEN at.tick + 1 ELSE at.tick
    IN  states[p].selfTex # NoSurface =>
          states[p].selfTex = IF finished = 0 THEN Cleared ELSE ResultOf(p, finished - 1)

StatesOK ==
    /\ states = [p \in Positions |-> [resources |-> states[p].resources,
                                      selfTex |-> states[p].selfTex]]
    /\ \A p \in Positions : KeptOK(p) /\ SelfTexOK(p)

\* The running step has what is bound and threaded in and what it declares,
\* and its output is its last rendering.
BindingOK ==
    /\ \A c \in Components :
          ThreadRoute[c] \in DOMAIN State.resources =>
            State.resources[ThreadRoute[c]] = carried[c].surface
    /\ \A r \in DOMAIN Step.surfaces : Step.surfaces[r] = "input" =>
          r \in DOMAIN State.resources /\ State.resources[r] = carried["image"].surface
    /\ \A r \in DOMAIN Step.typed : Has(carried, Step.typed[r]) =>
          r \in DOMAIN State.resources /\ State.resources[r] = carried[Step.typed[r]].surface
    /\ Step.textures \ ParticleState \subseteq DOMAIN State.resources
    /\ output.surface = IF InTick(Position, at.tick) = {} THEN NoSurface
                        ELSE LastRendered(LastOf(InTick(Position, at.tick)))

\* A pass that is not skipped has left its outputs, and the last of one is the
\* output.
PassesOK ==
    /\ \A j \in 1 .. Len(Step.passes) : j < at.pass /\ ~CanBeSkipped(Step.passes[j]) =>
          \A r \in Routes(Step.passes[j]) : Renderings(Position, r) # {}
    /\ output.surface # NoSurface =>
          \E p \in PassesOf(Step) : output.route = LastSlot(p)

\* A component came in as it is or was rendered under a route of the group.
BundleOK(bundle) ==
    /\ DOMAIN bundle = Components
    /\ \A c \in Components : Has(bundle, c) =>
          \/ bundle[c] = input[c] /\ Has(input, c)
          \/ bundle[c].surface # Incoming(c) /\ bundle[c].route \in NewRoutes(group)[c]
    /\ \A c \in {"image", "volume"} : Has(input, c) => Has(bundle, c)

AtOK ==
    /\ at = Moment(at.tick, at.position, at.pass, at.again)
    /\ at.tick \in Nat /\ Position \in Positions /\ at.pass \in Nat \ {0}

\* What is carried is what a step of a tick is to find, or the tick to end with.
Threads(bundle, t, p) == \A c \in Components : bundle[c].surface = Threaded(t)[p][c]

Fixed == group \in Groups /\ \E present \in Inputs : input = IncomingBundle(present)

RunOK ==
    /\ AtOK /\ LogOK /\ SharedOK /\ StatesOK
    /\ Threads(carried, at.tick, Position) /\ BundleOK(carried)

DoneOK ==
    /\ \E c \in Components : Has(carried, c)
    /\ BundleOK(carried)
    /\ Ticks > 0 => Threads(carried, Ticks - 1, Len(group.steps) + 1)

IInv ==
    /\ Fixed
    /\ phase \in {"start", "step", "pass", "done", "thrown"}
    /\ phase = "start" => log = <<>> /\ at = Moment(0, 1, 1, 0)
    /\ Running => RunOK
    /\ phase = "pass" => BindingOK /\ PassesOK
    /\ phase = "done" => DoneOK

-----------------------------------------------------------------------------
\* Surfaces and the latest of a set of renderings.

\* Induction over the naturals, for a set in place of a predicate.
LEMMA SetInduction ==
    ASSUME NEW S, 0 \in S, \A n \in Nat : n \in S => n + 1 \in S
    PROVE  Nat \subseteq S
<1> DEFINE T == Nat \ S
           R == OpToRel(<, Nat)
<1>1. R = {ss \in Nat \X Nat : ss[1] < ss[2]}
  BY DEF OpToRel
<1>2. SUFFICES ASSUME T # {} PROVE FALSE
  OBVIOUS
<1>3. IsWellFoundedOn(R, Nat)
  BY NatLessThanWellFounded
<1>4. T \subseteq Nat
  OBVIOUS
<1> HIDE DEF R, T
<1>5. PICK x \in T : \A y \in T : ~(<<y, x>> \in R)
  BY <1>2, <1>3, <1>4, WFMin
<1> USE DEF T
<1>6. x \in Nat /\ x # 0 /\ x - 1 \in Nat /\ x = (x - 1) + 1
  OBVIOUS
<1>7. x - 1 \in T
  BY <1>6
<1>8. <<x - 1, x>> \in R
  BY <1>1, <1>6
<1> QED
  BY <1>5, <1>7, <1>8

LEMMA SurfacesDiffer ==
    ASSUME NEW k, NEW r, NEW c
    PROVE  /\ Rendered(k, r) # NoSurface /\ Rendered(k, r) # Cleared
           /\ Rendered(k, r) # Incoming(c)
           /\ Cleared # NoSurface /\ Cleared # Incoming(c) /\ Incoming(c) # NoSurface
BY DEF Rendered, NoSurface, Cleared, Incoming

LEMMA Maximum ==
    ASSUME NEW n \in Nat, NEW S \in SUBSET (1 .. n), S # {}
    PROVE  \E k \in S : \A j \in S : j <= k
<1> DEFINE Attains(m) == \A X \in SUBSET (1 .. m) : X # {} => \E k \in X : \A j \in X : j <= k
           T == {m \in Nat : Attains(m)}
<1>1. 0 \in T
  <2>1. \A X \in SUBSET (1 .. 0) : X = {}
    OBVIOUS
  <2>2. Attains(0)
    BY <2>1
  <2> HIDE DEF Attains
  <2> QED BY <2>2
<1>2. ASSUME NEW m \in Nat, m \in T PROVE m + 1 \in T
  <2>1. Attains(m)
    BY <1>2
  <2>2. ASSUME NEW X \in SUBSET (1 .. m + 1), X # {}
        PROVE  \E k \in X : \A j \in X : j <= k
    <3>1. CASE m + 1 \in X
      BY <3>1
    <3>2. CASE m + 1 \notin X
      <4>1. X \in SUBSET (1 .. m)
        BY <3>2
      <4> QED BY <2>1, <2>2, <4>1
    <3> QED BY <3>1, <3>2
  <2>3. Attains(m + 1)
    BY <2>2
  <2> HIDE DEF Attains
  <2> QED BY <2>3
<1> HIDE DEF T, Attains
<1>3. n \in T
  BY <1>1, <1>2, SetInduction
<1>4. Attains(n)
  BY <1>3 DEF T
<1> QED BY <1>4 DEF Attains

LEMMA LastIs ==
    ASSUME NEW n \in Nat, NEW S \in SUBSET (1 .. n) PROVE LastOf(S \cup {n + 1}) = n + 1
<1> DEFINE X == S \cup {n + 1}
<1>1. n + 1 \in X /\ \A j \in X : j <= n + 1
  OBVIOUS
<1>2. \A k \in X : (\A j \in X : j <= k) => k = n + 1
  OBVIOUS
<1> HIDE DEF X
<1>3. LastOf(X) = n + 1
  BY <1>1, <1>2 DEF LastOf
<1> QED BY <1>3 DEF X

LEMMA LatestIs ==
    ASSUME NEW n \in Nat, NEW S \in SUBSET (1 .. n), NEW r, NEW otherwise
    PROVE  /\ S = {} => Latest(S, r, otherwise) = otherwise
           /\ S # {} => \E k \in S : Latest(S, r, otherwise) = Rendered(k, r)
           /\ Latest(S \cup {n + 1}, r, otherwise) = Rendered(n + 1, r)
<1>1. S = {} => Latest(S, r, otherwise) = otherwise
  BY DEF Latest
<1>2. ASSUME S # {} PROVE \E k \in S : Latest(S, r, otherwise) = Rendered(k, r)
  <2>1. \E k \in S : \A j \in S : j <= k
    BY <1>2, Maximum
  <2>2. LastOf(S) \in S
    BY <2>1 DEF LastOf
  <2> QED BY <1>2, <2>2 DEF Latest
<1>3. Latest(S \cup {n + 1}, r, otherwise) = Rendered(n + 1, r)
  <2>1. LastOf(S \cup {n + 1}) = n + 1
    BY LastIs
  <2> QED BY <2>1 DEF Latest
<1> QED BY <1>1, <1>2, <1>3

-----------------------------------------------------------------------------
\* The surfaces that thread through a tick.

\* The first n steps of a tick, from what came into the group.
Continues(f, n, t) ==
    f = [p \in 1 .. n + 1 |-> IF p = 1 THEN [c \in Components |-> input[c].surface]
                              ELSE LeftBy(p - 1, t, f[p - 1])]

LEMMA SomeContinues ==
    ASSUME NEW t, NEW n \in Nat PROVE \E f : Continues(f, n, t)
<1> DEFINE S == {m \in Nat : \E f : Continues(f, m, t)}
<1>1. 0 \in S
  <2> DEFINE f == [p \in 1 .. 1 |-> [c \in Components |-> input[c].surface]]
  <2>1. Continues(f, 0, t)
    BY DEF Continues
  <2> QED BY <2>1
<1>2. ASSUME NEW m \in Nat, m \in S PROVE m + 1 \in S
  <2>1. PICK f : Continues(f, m, t)
    BY <1>2
  <2> DEFINE g == [p \in 1 .. (m + 1) + 1 |->
                     IF p = m + 2 THEN LeftBy(m + 1, t, f[m + 1]) ELSE f[p]]
  <2>2. \A p \in 1 .. m + 1 : g[p] = f[p]
    OBVIOUS
  <2>3. ASSUME NEW p \in 1 .. (m + 1) + 1
        PROVE  g[p] = IF p = 1 THEN [c \in Components |-> input[c].surface]
                      ELSE LeftBy(p - 1, t, g[p - 1])
    <3>1. CASE p = m + 2
      <4>1. g[p] = LeftBy(m + 1, t, f[m + 1]) /\ p # 1 /\ p - 1 = m + 1
        BY <3>1
      <4>2. g[p - 1] = f[m + 1]
        BY <2>2, <4>1
      <4> QED BY <4>1, <4>2
    <3>2. CASE p # m + 2
      <4>1. p \in 1 .. m + 1 /\ g[p] = f[p]
        BY <3>2
      <4>2. f[p] = IF p = 1 THEN [c \in Components |-> input[c].surface]
                   ELSE LeftBy(p - 1, t, f[p - 1])
        BY <2>1, <4>1 DEF Continues
      <4>3. p # 1 => g[p - 1] = f[p - 1]
        BY <4>1, <2>2
      <4> QED BY <4>1, <4>2, <4>3
    <3> QED BY <3>1, <3>2
  <2>4. g = [p \in 1 .. (m + 1) + 1 |-> g[p]]
    OBVIOUS
  <2> HIDE DEF g
  <2>5. Continues(g, m + 1, t)
    BY <2>3, <2>4 DEF Continues
  <2> QED BY <2>5
<1> HIDE DEF S
<1>3. n \in S
  BY <1>1, <1>2, SetInduction
<1> QED BY <1>3 DEF S

LEMMA ThreadedUnfolds ==
    Len(group.steps) \in Nat => \A t : Continues(Threaded(t), Len(group.steps), t)
<1> SUFFICES ASSUME Len(group.steps) \in Nat, NEW t
             PROVE  Continues(Threaded(t), Len(group.steps), t)
  OBVIOUS
<1>1. \E f : Continues(f, Len(group.steps), t)
  BY SomeContinues
<1>2. Threaded(t) = CHOOSE f : Continues(f, Len(group.steps), t)
  BY DEF Threaded, Continues
<1> QED BY <1>1, <1>2

LEMMA ThreadedUnfoldsNext ==
    (Len(group.steps) \in Nat => \A t : Continues(Threaded(t), Len(group.steps), t))'
BY ThreadedUnfolds, PTL

-----------------------------------------------------------------------------
\* How the history grows: what was rendered before stays as it was.

Writes(e, route) == \E i \in 1 .. Len(e.outputs) : e.outputs[i] = route

LEMMA LogGrows ==
    ASSUME LogIsSequence, NEW e, log' = Append(log, e)
    PROVE  /\ LogIsSequence' /\ Len(log) \in Nat /\ Len(log') = Len(log) + 1
           /\ log'[Len(log) + 1] = e
           /\ \A k \in 1 .. Len(log) : log'[k] = log[k]
<1>1. PICK S : log \in Seq(S)
  BY DEF LogIsSequence
<1>2. log \in Seq(S \cup {e}) /\ log' \in Seq(S \cup {e})
  BY <1>1
<1>3. LogIsSequence'
  BY <1>2 DEF LogIsSequence
<1> QED BY <1>1, <1>2, <1>3

LEMMA RenderingsGrow ==
    ASSUME LogIsSequence, NEW e, log' = Append(log, e), NEW p, NEW t, NEW r
    PROVE  LET with(set, added) == IF added THEN set \cup {Len(log) + 1} ELSE set
           IN  /\ ByStep(p, t, r)' =
                    with(ByStep(p, t, r), e.position = p /\ e.tick <= t /\ Writes(e, r))
               /\ ByGroup(p, t, r)' =
                    with(ByGroup(p, t, r),
                         (e.tick < t \/ (e.tick = t /\ e.position <= p)) /\ Writes(e, r))
               /\ Renderings(p, r)' = with(Renderings(p, r), e.position = p /\ Writes(e, r))
               /\ AllRenderings(r)' = with(AllRenderings(r), Writes(e, r))
               /\ InTick(p, t)' = with(InTick(p, t), e.position = p /\ e.tick = t)
<1>1. PICK n : n = Len(log)
  OBVIOUS
<1>2. n \in Nat /\ Len(log') = n + 1 /\ log'[n + 1] = e /\ \A k \in 1 .. n : log'[k] = log[k]
  BY <1>1, LogGrows
<1>3. \A k \in 1 .. n : Wrote(k, r)' <=> Wrote(k, r)
  BY <1>2 DEF Wrote
<1>4. Wrote(n + 1, r)' <=> Writes(e, r)
  BY <1>2 DEF Wrote, Writes
<1>5. \A k : k \in 1 .. Len(log') <=> k \in 1 .. n \/ k = n + 1
  BY <1>2
<1>6. ByStep(p, t, r)' = IF e.position = p /\ e.tick <= t /\ Writes(e, r)
                         THEN ByStep(p, t, r) \cup {n + 1} ELSE ByStep(p, t, r)
  <2> SUFFICES ASSUME NEW k
               PROVE  k \in ByStep(p, t, r)' <=>
                        \/ k \in ByStep(p, t, r)
                        \/ k = n + 1 /\ e.position = p /\ e.tick <= t /\ Writes(e, r)
    OBVIOUS
  <2> QED BY <1>1, <1>2, <1>3, <1>4, <1>5 DEF ByStep
<1>7. ByGroup(p, t, r)' = IF (e.tick < t \/ (e.tick = t /\ e.position <= p)) /\ Writes(e, r)
                          THEN ByGroup(p, t, r) \cup {n + 1} ELSE ByGroup(p, t, r)
  <2> SUFFICES ASSUME NEW k
               PROVE  k \in ByGroup(p, t, r)' <=>
                        \/ k \in ByGroup(p, t, r)
                        \/ /\ k = n + 1 /\ Writes(e, r)
                           /\ e.tick < t \/ (e.tick = t /\ e.position <= p)
    OBVIOUS
  <2> QED BY <1>1, <1>2, <1>3, <1>4, <1>5 DEF ByGroup
<1>8. Renderings(p, r)' = IF e.position = p /\ Writes(e, r)
                          THEN Renderings(p, r) \cup {n + 1} ELSE Renderings(p, r)
  <2> SUFFICES ASSUME NEW k
               PROVE  k \in Renderings(p, r)' <=>
                        \/ k \in Renderings(p, r)
                        \/ k = n + 1 /\ e.position = p /\ Writes(e, r)
    OBVIOUS
  <2> QED BY <1>1, <1>2, <1>3, <1>4, <1>5 DEF Renderings
<1>9. AllRenderings(r)' = IF Writes(e, r) THEN AllRenderings(r) \cup {n + 1} ELSE AllRenderings(r)
  <2> SUFFICES ASSUME NEW k
               PROVE  k \in AllRenderings(r)' <=>
                        k \in AllRenderings(r) \/ (k = n + 1 /\ Writes(e, r))
    OBVIOUS
  <2> QED BY <1>1, <1>2, <1>3, <1>4, <1>5 DEF AllRenderings
<1>10. InTick(p, t)' = IF e.position = p /\ e.tick = t THEN InTick(p, t) \cup {n + 1}
                       ELSE InTick(p, t)
  <2> SUFFICES ASSUME NEW k
               PROVE  k \in InTick(p, t)' <=>
                        \/ k \in InTick(p, t)
                        \/ k = n + 1 /\ e.position = p /\ e.tick = t
    OBVIOUS
  <2> QED BY <1>1, <1>2, <1>5 DEF InTick
<1> QED BY <1>1, <1>6, <1>7, <1>8, <1>9, <1>10

LEMMA InTickHasLast ==
    ASSUME Len(log) \in Nat, NEW p, NEW t, InTick(p, t) # {}
    PROVE  LastOf(InTick(p, t)) \in InTick(p, t)
<1>1. InTick(p, t) \in SUBSET (1 .. Len(log))
  BY DEF InTick
<1>2. \E k \in InTick(p, t) : \A j \in InTick(p, t) : j <= k
  BY <1>1, Maximum
<1> QED BY <1>2 DEF LastOf

\* A result that the new rendering has no part in.
LEMMA PastResultStays ==
    ASSUME LogIsSequence, group' = group, NEW e, log' = Append(log, e), NEW p, NEW t,
           ~(e.position = p /\ (e.tick <= t \/ e.tick = t))
    PROVE  ResultOf(p, t)' = ResultOf(p, t)
<1>1. ByStep(p, t, "outputTex")' = ByStep(p, t, "outputTex") /\ InTick(p, t)' = InTick(p, t)
  BY RenderingsGrow
<1>2. Declared(p, "outputTex")' <=> Declared(p, "outputTex")
  BY DEF Declared
<1>3. ASSUME InTick(p, t) # {}
      PROVE  LastRendered(LastOf(InTick(p, t)))' = LastRendered(LastOf(InTick(p, t)))
  <2>1. PICK k : k = LastOf(InTick(p, t))
    OBVIOUS
  <2>2. k \in 1 .. Len(log)
    <3>1. Len(log) \in Nat
      BY LogGrows
    <3>2. k \in InTick(p, t)
      BY <1>3, <2>1, <3>1, InTickHasLast
    <3> QED BY <3>2 DEF InTick
  <2>3. log'[k] = log[k]
    BY <2>2, LogGrows
  <2>4. k = LastOf(InTick(p, t))'
    BY <1>1, <2>1 DEF LastOf
  <2> QED BY <2>1, <2>3, <2>4 DEF LastRendered
<1> QED BY <1>1, <1>2, <1>3 DEF ResultOf

LEMMA PastStepStays ==
    ASSUME LogIsSequence, group' = group, NEW e, log' = Append(log, e),
           NEW q \in Nat, NEW t \in Nat, e.position \in Nat, e.tick \in Nat,
           t < e.tick \/ (t = e.tick /\ q < e.position), NEW b
    PROVE  LeftBy(q, t, b)' = LeftBy(q, t, b)
<1>1. ~(e.position = q /\ (e.tick <= t \/ e.tick = t))
  OBVIOUS
<1>2. ~(e.tick < t \/ (e.tick = t /\ e.position <= q))
  OBVIOUS
<1>3. ResultOf(q, t)' = ResultOf(q, t)
  BY <1>1, PastResultStays
<1>4. \A r : ByStep(q, t, r)' = ByStep(q, t, r) /\ ByGroup(q, t, r)' = ByGroup(q, t, r)
  BY <1>1, <1>2, RenderingsGrow
<1>5. \A r : Declared(q, r)' <=> Declared(q, r)
  BY DEF Declared
<1> QED BY <1>3, <1>4, <1>5 DEF LeftBy

LEMMA PastThreadStays ==
    ASSUME group' = group, input' = input, Len(group.steps) \in Nat, NEW t,
           NEW m \in 1 .. Len(group.steps) + 1,
           \A q \in 1 .. m - 1 : \A b : LeftBy(q, t, b)' = LeftBy(q, t, b)
    PROVE  \A q \in 1 .. m : Threaded(t)'[q] = Threaded(t)[q]
<1>1. PICK n : n = Len(group.steps)
  OBVIOUS
<1>2. PICK f : f = Threaded(t)
  OBVIOUS
<1>3. PICK g : g = Threaded(t)'
  OBVIOUS
<1>4. f = [p \in 1 .. n + 1 |-> IF p = 1 THEN [c \in Components |-> input[c].surface]
                                ELSE LeftBy(p - 1, t, f[p - 1])]
  BY <1>1, <1>2, ThreadedUnfolds DEF Continues
<1>5. g = [p \in 1 .. n + 1 |-> IF p = 1 THEN [c \in Components |-> input[c].surface]
                                ELSE LeftBy(p - 1, t, g[p - 1])']
  BY <1>1, <1>3, ThreadedUnfoldsNext DEF Continues
<1> DEFINE S == {q \in Nat : q + 1 \in 1 .. m => g[q + 1] = f[q + 1]}
<1>6. 0 \in S
  <2>1. 1 \in 1 .. n + 1
    BY <1>1
  <2> QED BY <1>4, <1>5, <2>1
<1>7. ASSUME NEW q \in Nat, q \in S PROVE q + 1 \in S
  <2> SUFFICES ASSUME (q + 1) + 1 \in 1 .. m PROVE g[(q + 1) + 1] = f[(q + 1) + 1]
    OBVIOUS
  <2>1. q + 1 \in 1 .. m /\ g[q + 1] = f[q + 1]
    BY <1>7
  <2>2. (q + 1) + 1 \in 1 .. n + 1 /\ (q + 1) + 1 # 1 /\ ((q + 1) + 1) - 1 = q + 1
        /\ q + 1 \in 1 .. m - 1
    BY <1>1
  <2>3. f[(q + 1) + 1] = LeftBy(q + 1, t, f[q + 1])
    BY <1>4, <2>2
  <2>4. g[(q + 1) + 1] = LeftBy(q + 1, t, g[q + 1])'
    BY <1>5, <2>2
  <2>5. LeftBy(q + 1, t, f[q + 1])' = LeftBy(q + 1, t, f[q + 1])
    BY <2>2
  <2> QED BY <2>1, <2>3, <2>4, <2>5
<1> HIDE DEF S
<1>8. Nat \subseteq S
  BY <1>6, <1>7, SetInduction
<1>9. ASSUME NEW q \in 1 .. m PROVE g[q] = f[q]
  <2>1. q - 1 \in Nat /\ (q - 1) + 1 = q
    OBVIOUS
  <2>2. q - 1 \in S
    BY <1>8, <2>1
  <2> QED BY <2>1, <2>2 DEF S
<1> QED BY <1>2, <1>3, <1>9

\* While nothing is rendered the history is the same.
LEMMA SameHistory ==
    ASSUME group' = group, input' = input, log' = log
    PROVE  /\ \A p, r : Renderings(p, r)' = Renderings(p, r)
           /\ \A r : AllRenderings(r)' = AllRenderings(r)
           /\ \A p, t, r : ByStep(p, t, r)' = ByStep(p, t, r)
           /\ \A p, t, r : ByGroup(p, t, r)' = ByGroup(p, t, r)
           /\ \A p, t : InTick(p, t)' = InTick(p, t)
           /\ \A p, t : ResultOf(p, t)' = ResultOf(p, t)
           /\ \A p, t, b : LeftBy(p, t, b)' = LeftBy(p, t, b)
           /\ \A p, r : Declared(p, r)' <=> Declared(p, r)
           /\ \A r : Common(r)' <=> Common(r)
<1>1. /\ \A p, r : Renderings(p, r)' = Renderings(p, r)
      /\ \A r : AllRenderings(r)' = AllRenderings(r)
  BY DEF Renderings, AllRenderings, Wrote
<1>2. /\ \A p, t, r : ByStep(p, t, r)' = ByStep(p, t, r)
      /\ \A p, t, r : ByGroup(p, t, r)' = ByGroup(p, t, r)
      /\ \A p, t : InTick(p, t)' = InTick(p, t)
  BY DEF ByStep, ByGroup, InTick, Wrote
<1>3. /\ \A p, r : Declared(p, r)' <=> Declared(p, r)
      /\ \A r : Common(r)' <=> Common(r)
  BY DEF Declared, Common
<1>4. ASSUME NEW p, NEW t PROVE ResultOf(p, t)' = ResultOf(p, t)
  <2>1. LastRendered(LastOf(InTick(p, t)))' = LastRendered(LastOf(InTick(p, t)))
    <3>1. PICK k : k = LastOf(InTick(p, t))
      OBVIOUS
    <3>2. k = LastOf(InTick(p, t))'
      BY <1>2, <3>1 DEF LastOf
    <3> QED BY <3>1, <3>2 DEF LastRendered
  <2> QED BY <1>2, <1>3, <2>1 DEF ResultOf
<1>5. ASSUME NEW p, NEW t, NEW b PROVE LeftBy(p, t, b)' = LeftBy(p, t, b)
  BY <1>2, <1>3, <1>4 DEF LeftBy
<1> QED BY <1>1, <1>2, <1>3, <1>4, <1>5

LEMMA SameThread ==
    ASSUME group' = group, input' = input, log' = log, Len(group.steps) \in Nat
    PROVE  \A t : \A q \in 1 .. Len(group.steps) + 1 : Threaded(t)'[q] = Threaded(t)[q]
<1> SUFFICES ASSUME NEW t
             PROVE  \A q \in 1 .. Len(group.steps) + 1 : Threaded(t)'[q] = Threaded(t)[q]
  OBVIOUS
<1>1. PICK m : m = Len(group.steps) + 1
  OBVIOUS
<1>2. m \in 1 .. Len(group.steps) + 1
  BY <1>1
<1>3. \A q \in 1 .. m - 1 : \A b : LeftBy(q, t, b)' = LeftBy(q, t, b)
  BY SameHistory
<1> QED BY <1>1, <1>2, <1>3, PastThreadStays

-----------------------------------------------------------------------------
\* What the assumptions say of the running group.

LEMMA GroupFacts ==
    ASSUME group \in Groups
    PROVE  /\ Len(group.steps) \in Nat /\ 1 \in Positions /\ Positions = 1 .. Len(group.steps)
           /\ \A p \in Positions : group.steps[p] \in AllSteps /\ p \in Nat
<1>1. group.steps \in Seq(AllSteps) /\ group.steps # <<>>
  BY GroupsAssumption
<1>2. Len(group.steps) \in Nat
  BY <1>1
<1>3. Len(group.steps) # 0
  BY <1>1
<1>4. \A p \in Positions : group.steps[p] \in AllSteps /\ p \in Nat
  BY <1>1 DEF Positions
<1> QED BY <1>2, <1>3, <1>4 DEF Positions

LEMMA RunningStep ==
    ASSUME group \in Groups, AtOK
    PROVE  Step \in AllSteps /\ Position \in Positions /\ Position \in Nat /\ at.tick \in Nat
BY GroupFacts DEF AtOK, Step, Position

LEMMA InputFacts ==
    ASSUME NEW present \in Inputs, input = IncomingBundle(present)
    PROVE  /\ DOMAIN input = Components
           /\ \A c \in Components :
                 IF c \in present THEN input[c].surface = Incoming(c) /\ input[c].route = ThreadRoute[c]
                 ELSE input[c].surface = NoSurface
BY DEF IncomingBundle, Nothing

LEMMA ThreadNames ==
    /\ ThreadRoute["image"] = "inputTex" /\ ThreadRoute["volume"] = "inputTex3d"
    /\ ThreadRoute["geometry"] = "inputGeo"
    /\ ThreadRoutes = {"inputTex", "inputTex3d", "inputGeo"}
    /\ \A c \in Components : ThreadRoute[c] \in ThreadRoutes /\ PassesThrough(ThreadRoute[c])
    /\ \A c, d \in Components : ThreadRoute[c] = ThreadRoute[d] => c = d
    /\ \A r : PassesThrough(r) <=> r = NoRoute \/ r \in ThreadRoutes
<1>1. /\ ThreadRoute["image"] = "inputTex" /\ ThreadRoute["volume"] = "inputTex3d"
      /\ ThreadRoute["geometry"] = "inputGeo"
  BY DEF ThreadRoute
<1>2. \A c : c \in Components <=> c = "image" \/ c = "volume" \/ c = "geometry"
  BY DEF Components
<1>3. ThreadRoutes = {"inputTex", "inputTex3d", "inputGeo"}
  BY <1>1, <1>2 DEF ThreadRoutes
<1>4. \A r : PassesThrough(r) <=> r = NoRoute \/ r \in ThreadRoutes
  BY <1>3 DEF PassesThrough
<1>5. \A c, d \in Components : ThreadRoute[c] = ThreadRoute[d] => c = d
  BY <1>1, <1>2
<1>6. \A c \in Components : ThreadRoute[c] \in ThreadRoutes /\ PassesThrough(ThreadRoute[c])
  BY <1>4 DEF ThreadRoutes
<1> QED BY <1>1, <1>3, <1>4, <1>5, <1>6

LEMMA PassFacts ==
    ASSUME group \in Groups, AtOK, HasPass
    PROVE  /\ ThePass \in PassesOf(Step) /\ at.pass \in 1 .. Len(Step.passes)
           /\ Step.passes[at.pass] = ThePass
           /\ Len(ThePass.outputs) \in Nat \ {0}
           /\ ThePass.repeats \subseteq Nat
           /\ Routes(ThePass) \cap (BoundRoutes(Step) \cup Reserved) = {}
           /\ LastSlot(ThePass) \in Routes(ThePass) /\ ThePass.outputs[1] \in Routes(ThePass)
           /\ group.loop \/ "global_accum" \notin Routes(ThePass)
<1>1. Step \in AllSteps /\ Len(Step.passes) \in Nat
  BY RunningStep, RoutesAssumption
<1>2. at.pass \in 1 .. Len(Step.passes)
  BY <1>1 DEF AtOK, HasPass
<1>3. ThePass \in PassesOf(Step) /\ Step.passes[at.pass] = ThePass
  BY <1>2 DEF PassesOf, ThePass
<1>4. /\ Len(ThePass.outputs) \in Nat \ {0}
      /\ ThePass.repeats \subseteq Nat
      /\ Routes(ThePass) \cap (BoundRoutes(Step) \cup Reserved) = {}
  BY <1>1, <1>3, RoutesAssumption
<1>5. LastSlot(ThePass) \in Routes(ThePass) /\ ThePass.outputs[1] \in Routes(ThePass)
  BY <1>4 DEF LastSlot, Routes
<1>6. Step \in {group.steps[i] : i \in 1 .. Len(group.steps)}
  BY RunningStep DEF Step, Positions
<1>7. group.loop \/ "global_accum" \notin Routes(ThePass)
  BY <1>3, <1>6, GroupsAssumption
<1> QED BY <1>2, <1>3, <1>4, <1>5, <1>7

\* Of everything rendered nothing is of a later tick or of no step.
LEMMA WholeHistory ==
    ASSUME group \in Groups, AtOK, LogOK
    PROVE  /\ \A p, r : ByStep(p, at.tick, r) = Renderings(p, r)
           /\ \A r : ByGroup(Len(group.steps), at.tick, r) = AllRenderings(r)
           /\ \A p, r : Renderings(p, r) \in SUBSET (1 .. Len(log))
           /\ \A r : AllRenderings(r) \in SUBSET (1 .. Len(log))
           /\ Len(log) \in Nat
<1>1. at.tick \in Nat /\ Len(group.steps) \in Nat /\ Positions = 1 .. Len(group.steps)
  BY GroupFacts DEF AtOK
<1>2. Len(log) \in Nat
  BY DEF LogOK, LogIsSequence
<1>3. \A k \in 1 .. Len(log) :
        log[k].position \in 1 .. Len(group.steps) /\ log[k].tick \in Nat /\ log[k].tick <= at.tick
  BY <1>1 DEF LogOK
<1>4. ASSUME NEW p, NEW r PROVE ByStep(p, at.tick, r) = Renderings(p, r)
  BY <1>3 DEF ByStep, Renderings
<1>5. ASSUME NEW r PROVE ByGroup(Len(group.steps), at.tick, r) = AllRenderings(r)
  <2>1. \A k \in 1 .. Len(log) :
          \/ log[k].tick < at.tick
          \/ log[k].tick = at.tick /\ log[k].position <= Len(group.steps)
    BY <1>1, <1>3
  <2> QED BY <2>1 DEF ByGroup, AllRenderings
<1> QED BY <1>2, <1>4, <1>5 DEF Renderings, AllRenderings

-----------------------------------------------------------------------------
\* What the step leaves when its passes are through.

KeptRoute(r) == ~Common(r) /\ r \notin ThreadRoutes \cup BoundRoutes(Step)

LEMMA OutputRoutes ==
    ASSUME group \in Groups, AtOK
    PROVE  /\ KeptRoute("outputTex")
           /\ \A r \in {Step.outputTex3d, Step.outputGeo} :
                PassesThrough(r) \/ (KeptRoute(r) /\ ~IsShared(r) /\ r # "outputTex")
<1>1. Step \in AllSteps
  BY RunningStep
<1>2. ~Common("outputTex")
  BY RoutesAssumption DEF Common
<1>3. "outputTex" \notin ThreadRoutes
  BY ThreadNames
<1>4. "outputTex" \notin BoundRoutes(Step)
  BY <1>1, RoutesAssumption
<1>5. ASSUME NEW r \in {Step.outputTex3d, Step.outputGeo}, ~PassesThrough(r)
      PROVE  KeptRoute(r) /\ ~IsShared(r) /\ r # "outputTex"
  <2>1. r \notin BoundRoutes(Step) \cup ParticleState \cup {"global_accum", "outputTex"}
    BY <1>1, RoutesAssumption
  <2>2. r \notin ThreadRoutes
    BY <1>5, ThreadNames
  <2> QED BY <2>1, <2>2 DEF KeptRoute, Common, IsShared
<1> QED BY <1>2, <1>3, <1>4, <1>5 DEF KeptRoute

LEMMA ResourceOf ==
    ASSUME group \in Groups, AtOK, LogOK, StatesOK, BindingOK, NEW r, KeptRoute(r)
    PROVE  /\ r \in DOMAIN State.resources <=>
                ByStep(Position, at.tick, r) # {} \/ Declared(Position, r)
           /\ r \in DOMAIN State.resources =>
                State.resources[r] = Latest(ByStep(Position, at.tick, r), r, Cleared)
<1>1. Position \in Positions
  BY RunningStep
<1>2. KeptOK(Position)
  BY <1>1 DEF StatesOK
<1>3. /\ r \in DOMAIN State.resources =>
            /\ State.resources[r] = Latest(Renderings(Position, r), r, Cleared)
            /\ Renderings(Position, r) # {} \/ Declared(Position, r)
      /\ Renderings(Position, r) # {} => r \in DOMAIN State.resources
  BY <1>2 DEF KeptOK, KeptRoute, State, Step
<1>4. Declared(Position, r) => r \in DOMAIN State.resources
  BY DEF Declared, BindingOK, KeptRoute, Common, Step
<1>5. ByStep(Position, at.tick, r) = Renderings(Position, r)
  BY WholeHistory
<1> QED BY <1>3, <1>4, <1>5

LEMMA StepResultIs ==
    ASSUME group \in Groups, AtOK, LogOK, StatesOK, BindingOK
    PROVE  StepResult.surface = ResultOf(Position, at.tick)
<1>1. KeptRoute("outputTex")
  BY OutputRoutes
<1>2. CASE "outputTex" \in DOMAIN State.resources
  BY <1>1, <1>2, ResourceOf DEF StepResult, ResultOf
<1>3. CASE "outputTex" \notin DOMAIN State.resources
  <2>1. ByStep(Position, at.tick, "outputTex") = {} /\ ~Declared(Position, "outputTex")
    BY <1>1, <1>3, ResourceOf
  <2>2. StepResult.surface = output.surface
    BY <1>3 DEF StepResult
  <2> QED BY <2>1, <2>2 DEF ResultOf, BindingOK
<1> QED BY <1>2, <1>3

LEMMA SelectedIs ==
    ASSUME group \in Groups, AtOK, LogOK, SharedOK, StatesOK, BindingOK,
           NEW name \in {Step.outputTex3d, Step.outputGeo}, NEW incoming, ~PassesThrough(name)
    PROVE  LET set == ByStep(Position, at.tick, name)
           IN  SelectOutput(name, incoming) =
                 IF set # {} \/ Declared(Position, name)
                 THEN [surface |-> Latest(set, name, Cleared), route |-> name]
                 ELSE Nothing
<1>1. KeptRoute(name) /\ ~IsShared(name)
  BY OutputRoutes
<1>2. name \notin DOMAIN shared
  BY <1>1 DEF SharedOK, KeptRoute
<1>3. CASE name \in DOMAIN State.resources
  BY <1>1, <1>2, <1>3, ResourceOf DEF SelectOutput
<1>4. CASE name \notin DOMAIN State.resources
  BY <1>1, <1>2, <1>4, ResourceOf DEF SelectOutput
<1> QED BY <1>3, <1>4

\* The bundle that a step hands on is the one that the history calls for.
LEMMA NextBundleIs ==
    ASSUME group \in Groups, AtOK, LogOK, SharedOK, StatesOK, BindingOK,
           NEW b, \A c \in Components : carried[c].surface = b[c]
    PROVE  \A c \in Components : NextBundle[c].surface = LeftBy(Position, at.tick, b)[c]
<1>1. \A c : c \in Components <=> c = "image" \/ c = "volume" \/ c = "geometry"
  BY DEF Components
<1>2. NextBundle["image"].surface = LeftBy(Position, at.tick, b)["image"]
  <2>1. KeptRoute("outputTex")
    BY OutputRoutes
  <2>2. "outputTex" \in DOMAIN State.resources <=>
          ByStep(Position, at.tick, "outputTex") # {} \/ Declared(Position, "outputTex")
    BY <2>1, ResourceOf
  <2>3. StepResult.surface = ResultOf(Position, at.tick)
    BY StepResultIs
  <2>4. carried["image"].surface = b["image"]
    BY <1>1
  <2> QED BY <2>2, <2>3, <2>4 DEF NextBundle, LeftBy, Step
<1>3. ASSUME NEW name \in {Step.outputTex3d, Step.outputGeo}, NEW c \in Components
      PROVE  SelectOutput(name, carried[c]).surface =
               IF PassesThrough(name) THEN b[c]
               ELSE Latest(IF IsShared(name) THEN ByGroup(Position, at.tick, name)
                           ELSE ByStep(Position, at.tick, name),
                           name, IF Declared(Position, name) THEN Cleared ELSE NoSurface)
  <2>1. CASE PassesThrough(name)
    BY <2>1 DEF SelectOutput
  <2>2. CASE ~PassesThrough(name)
    <3> DEFINE set == ByStep(Position, at.tick, name)
    <3>1. ~IsShared(name)
      BY <2>2, OutputRoutes
    <3>2. set \in SUBSET (1 .. Len(log)) /\ Len(log) \in Nat
      BY WholeHistory
    <3>3. SelectOutput(name, carried[c]) =
            IF set # {} \/ Declared(Position, name)
            THEN [surface |-> Latest(set, name, Cleared), route |-> name] ELSE Nothing
      BY <2>2, SelectedIs
    <3>4. set = {} => Latest(set, name, Cleared) = Cleared /\ Latest(set, name, NoSurface) = NoSurface
      BY DEF Latest
    <3>5. set # {} => Latest(set, name, Cleared) = Latest(set, name, NoSurface)
      BY DEF Latest
    <3> HIDE DEF set
    <3>6. SelectOutput(name, carried[c]).surface =
            Latest(set, name, IF Declared(Position, name) THEN Cleared ELSE NoSurface)
      <4>1. CASE set # {}
        BY <3>3, <3>5, <4>1
      <4>2. CASE set = {}
        BY <3>3, <3>4, <4>2 DEF Nothing
      <4> QED BY <4>1, <4>2
    <3> QED BY <2>2, <3>1, <3>6 DEF set
  <2> QED BY <2>1, <2>2
<1>4. NextBundle["volume"].surface = LeftBy(Position, at.tick, b)["volume"]
  <2>1. "volume" \in Components /\ Step.outputTex3d \in {Step.outputTex3d, Step.outputGeo}
    BY <1>1
  <2> QED BY <1>3, <2>1 DEF NextBundle, LeftBy, Step
<1>5. NextBundle["geometry"].surface = LeftBy(Position, at.tick, b)["geometry"]
  <2>1. "geometry" \in Components /\ Step.outputGeo \in {Step.outputTex3d, Step.outputGeo}
    BY <1>1
  <2> QED BY <1>3, <2>1 DEF NextBundle, LeftBy, Step
<1> QED BY <1>1, <1>2, <1>4, <1>5

-----------------------------------------------------------------------------
\* The steps that render nothing.

LEMMA ThrowKeeps == ASSUME IInv, Throw PROVE IInv'
BY DEF IInv, Throw, Fixed, Running

LEMMA SameTicks == group' = group => Ticks' = Ticks
BY DEF Ticks, IterationOwner, Positions

LEMMA InputIsOK == ASSUME Fixed PROVE BundleOK(input)
<1>1. PICK present \in Inputs : input = IncomingBundle(present)
  BY DEF Fixed
<1> QED BY <1>1, InputFacts DEF BundleOK

LEMMA StutterKeeps == ASSUME IInv, UNCHANGED vars PROVE IInv'
<1>1. UNCHANGED <<group, input, phase, at, states, shared, carried, output, log>>
  BY DEF vars
<1>2. Positions' = Positions /\ Position' = Position /\ Step' = Step /\ State' = State
  BY <1>1 DEF Positions, Position, Step, State
<1>3. CASE Running
  <2>1. AtOK /\ LogOK /\ SharedOK /\ StatesOK /\ Threads(carried, at.tick, Position) /\ BundleOK(carried)
    BY <1>3 DEF IInv, RunOK
  <2>2. AtOK' /\ LogOK'
    BY <1>1, <1>2, <2>1 DEF AtOK, LogOK, LogIsSequence
  <2>3. SharedOK'
    <3>1. \A r : Latest(AllRenderings(r), r, Cleared)' = Latest(AllRenderings(r), r, Cleared)
      BY <1>1, SameHistory
    <3> QED BY <1>1, <2>1, <3>1, SameHistory DEF SharedOK
  <2>4. StatesOK'
    <3>1. \A p \in Positions : KeptOK(p)'
      BY <1>1, <2>1, SameHistory DEF StatesOK, KeptOK
    <3>2. \A p \in Positions : SelfTexOK(p)'
      BY <1>1, <1>2, <2>1, SameHistory DEF StatesOK, SelfTexOK
    <3> QED BY <1>1, <1>2, <2>1, <3>1, <3>2 DEF StatesOK
  <2>5. Threads(carried, at.tick, Position)'
    <3>1. Len(group.steps) \in Nat /\ Position \in 1 .. Len(group.steps) + 1
      BY <2>1, GroupFacts DEF AtOK, IInv, Fixed
    <3> QED BY <1>1, <1>2, <2>1, <3>1, SameThread DEF Threads
  <2>6. BundleOK(carried)'
    BY <1>1, <2>1 DEF BundleOK, Has
  <2>7. RunOK'
    BY <2>2, <2>3, <2>4, <2>5, <2>6 DEF RunOK
  <2>8. phase = "pass" => BindingOK' /\ PassesOK'
    <3>1. \A k : LastRendered(k)' = LastRendered(k)
      BY <1>1 DEF LastRendered
    <3>2. LastOf(InTick(Position, at.tick))' = LastOf(InTick(Position, at.tick))
      BY <1>1, <1>2, SameHistory
    <3>3. BindingOK => BindingOK'
      BY <1>1, <1>2, <3>1, <3>2, SameHistory DEF BindingOK, Has
    <3>4. PassesOK => PassesOK'
      BY <1>1, <1>2, SameHistory DEF PassesOK
    <3> QED BY <3>3, <3>4 DEF IInv
  <2> QED BY <1>1, <1>3, <2>7, <2>8 DEF IInv, Fixed, Running
<1>4. CASE phase = "done"
  <2>1. DoneOK
    BY <1>4 DEF IInv
  <2>2. Ticks' = Ticks
    BY <1>1, SameTicks
  <2>3. Len(group.steps) \in Nat /\ Len(group.steps) + 1 \in 1 .. Len(group.steps) + 1
    BY GroupFacts DEF IInv, Fixed
  <2>4. DoneOK'
    BY <1>1, <2>1, <2>2, <2>3, SameThread DEF DoneOK, Threads, BundleOK, Has
  <2> QED BY <1>1, <1>4, <2>4 DEF IInv, Fixed, Running
<1>5. CASE ~Running /\ phase # "done"
  BY <1>1, <1>5 DEF IInv, Fixed, Running
<1> QED BY <1>3, <1>4, <1>5

LEMMA ZeroTicksKeeps == ASSUME IInv, ZeroTicks PROVE IInv'
<1> USE DEF ZeroTicks
<1>1. Fixed' /\ phase' = "done"
  BY DEF IInv, Fixed
<1>2. ~(Ticks' > 0)
  BY SameTicks
<1>3. PICK present \in Inputs : input = IncomingBundle(present)
  BY DEF IInv, Fixed
<1>4. \A c : c \in Components <=> c = "image" \/ c = "volume" \/ c = "geometry"
  BY DEF Components
<1>5. group.steps[1] \in AllSteps /\ group.steps[1] \in {group.steps[i] : i \in 1 .. Len(group.steps)}
  BY GroupFacts DEF IInv, Fixed, Positions
<1>6. (\E c \in Components : Has(carried, c))' /\ BundleOK(carried)'
  <2>1. CASE \E c \in Components : Has(input, c)
    <3>1. carried' = input /\ input' = input
      BY <2>1
    <3>2. BundleOK(input)
      BY InputIsOK DEF IInv
    <3> QED BY <2>1, <3>1, <3>2 DEF BundleOK, Has
  <2>2. CASE ~(\E c \in Components : Has(input, c)) /\ group.steps[1].domain = "volume-generator"
    <3> DEFINE s == group.steps[1]
    <3>1. carried' = [image    |-> Nothing,
                      volume   |-> [surface |-> Cleared, route |-> s.outputTex3d],
                      geometry |-> IF s.outputGeo \in {NoRoute, "inputGeo"} THEN Nothing
                                   ELSE [surface |-> Cleared, route |-> s.outputGeo]]
      BY <2>2
    <3>2. s.outputTex3d \in NewRoutes(group)["volume"]
      BY <1>5, <2>2, DomainsAssumption DEF NewRoutes
    <3>3. s.outputGeo \notin {NoRoute, "inputGeo"} => s.outputGeo \in NewRoutes(group)["geometry"]
      BY <1>5, DomainsAssumption DEF NewRoutes
    <3>4. input' = input /\ group' = group
      OBVIOUS
    <3>5. DOMAIN carried' = Components
      BY <3>1 DEF Components
    <3>6. Cleared # NoSurface /\ \A c : Cleared # Incoming(c)
      BY SurfacesDiffer
    <3>7. Has(carried, "volume")'
      BY <3>1, <3>6 DEF Has
    <3>8. ASSUME NEW c \in Components, Has(carried, c)'
          PROVE  carried'[c].surface # Incoming(c) /\ carried'[c].route \in NewRoutes(group)[c]
      BY <1>4, <3>1, <3>2, <3>3, <3>6, <3>8 DEF Has, Nothing
    <3> QED BY <1>4, <2>2, <3>4, <3>5, <3>7, <3>8 DEF BundleOK, Has
  <2>3. CASE ~(\E c \in Components : Has(input, c)) /\ group.steps[1].domain # "volume-generator"
    <3>1. carried' = [image |-> [surface |-> Cleared, route |-> "outputTex"],
                      volume |-> Nothing, geometry |-> Nothing]
      BY <2>3
    <3>2. "outputTex" \in NewRoutes(group)["image"]
      BY DEF NewRoutes
    <3>4. input' = input /\ group' = group
      OBVIOUS
    <3>5. DOMAIN carried' = Components
      BY <3>1 DEF Components
    <3>6. Cleared # NoSurface /\ \A c : Cleared # Incoming(c)
      BY SurfacesDiffer
    <3>7. Has(carried, "image")'
      BY <3>1, <3>6 DEF Has
    <3>8. ASSUME NEW c \in Components, Has(carried, c)'
          PROVE  carried'[c].surface # Incoming(c) /\ carried'[c].route \in NewRoutes(group)[c]
      BY <1>4, <3>1, <3>2, <3>6, <3>8 DEF Has, Nothing
    <3> QED BY <1>4, <2>3, <3>4, <3>5, <3>7, <3>8 DEF BundleOK, Has
  <2> QED BY <2>1, <2>2, <2>3
<1> QED BY <1>1, <1>2, <1>6 DEF IInv, DoneOK, Running

LEMMA GroupBeginsKeeps == ASSUME IInv, GroupBegins PROVE IInv'
<1>1. CASE group.loop /\ ~Has(input, "image")
  BY <1>1, ThrowKeeps DEF GroupBegins
<1>2. CASE ~(group.loop /\ ~Has(input, "image"))
  <2>1. /\ phase = "start" /\ phase' = "step"
        /\ states' = [p \in Positions |->
                        [resources |-> <<>>,
                         selfTex |-> IF UsesSelfTex(group.steps[p]) THEN Cleared ELSE NoSurface]]
        /\ shared' = IF group.loop THEN Store(<<>>, "global_accum", Cleared) ELSE <<>>
        /\ carried' = input /\ UNCHANGED <<group, input, at, output, log>>
    BY <1>2 DEF GroupBegins
  <2>2. log' = <<>> /\ at' = Moment(0, 1, 1, 0) /\ Fixed' /\ Fixed /\ group \in Groups
    BY <2>1 DEF IInv, Fixed
  <2>3. at'.tick = 0 /\ at'.position = 1 /\ at'.pass = 1 /\ at'.again = 0
    BY <2>2 DEF Moment
  <2>4. Len(group.steps) \in Nat /\ 1 \in Positions
    BY <2>2, GroupFacts
  <2>5. Positions' = Positions
    BY <2>1 DEF Positions
  <2>6. AtOK'
    BY <2>2, <2>3, <2>4, <2>5 DEF AtOK, Position
  <2>7. LogOK'
    <3>1. <<>> \in Seq({})
      OBVIOUS
    <3>2. LogIsSequence'
      BY <2>2, <3>1 DEF LogIsSequence
    <3>3. Len(log') = 0
      BY <2>2
    <3> QED BY <3>2, <3>3 DEF LogOK
  <2>8. /\ \A r : AllRenderings(r)' = {}
        /\ \A p, r : Renderings(p, r)' = {}
    <3>1. Len(log') = 0
      BY <2>2
    <3> QED BY <3>1 DEF AllRenderings, Renderings
  <2>9. SharedOK'
    <3>1. \A r : Latest(AllRenderings(r), r, Cleared)' = Cleared
      BY <2>8 DEF Latest
    <3>2. DOMAIN shared' = IF group.loop THEN {"global_accum"} ELSE {}
      BY <2>1 DEF Store
    <3>3. \A r \in DOMAIN shared' : group.loop /\ r = "global_accum" /\ shared'[r] = Cleared
      BY <2>1, <3>2 DEF Store
    <3> QED BY <2>1, <2>8, <3>1, <3>2, <3>3 DEF SharedOK, Common
  <2>10. StatesOK'
    <3>1. \A p \in Positions : DOMAIN states'[p].resources = {}
      BY <2>1
    <3>2. \A p \in Positions : KeptOK(p)'
      BY <2>8, <3>1 DEF KeptOK
    <3>3. ASSUME NEW p \in Positions PROVE SelfTexOK(p)'
      <4>1. ~(p < at'.position)
        BY <2>3 DEF Positions
      <4> QED BY <2>1, <2>3, <4>1 DEF SelfTexOK, Position
    <3> QED BY <2>1, <2>5, <3>2, <3>3 DEF StatesOK
  <2>11. Threads(carried, at.tick, Position)'
    <3>1. Continues(Threaded(0), Len(group.steps), 0)'
      BY <2>1, <2>4, ThreadedUnfoldsNext
    <3>2. 1 \in 1 .. Len(group.steps) + 1
      BY <2>4
    <3>3. Threaded(0)'[1] = [c \in Components |-> input[c].surface]
      BY <2>1, <3>1, <3>2 DEF Continues
    <3> QED BY <2>1, <2>3, <3>3 DEF Threads, Position
  <2>12. BundleOK(carried)'
    BY <2>1, <2>2, InputIsOK DEF BundleOK, Has
  <2> QED BY <2>1, <2>2, <2>6, <2>7, <2>9, <2>10, <2>11, <2>12 DEF IInv, RunOK
<1> QED BY <1>1, <1>2

\* What seeding a step leaves under a route.
LEMMA SeededFacts ==
    ASSUME NEW s \in AllSteps, NEW resources, NEW bundle
    PROVE  LET seeded == Seeded(s, resources, bundle)
           IN  /\ \A c \in Components :
                    /\ ThreadRoute[c] \in DOMAIN seeded =>
                          seeded[ThreadRoute[c]] = bundle[c].surface
                    /\ Has(bundle, c) => ThreadRoute[c] \in DOMAIN seeded
               /\ \A r \in DOMAIN s.surfaces : s.surfaces[r] = "input" =>
                    r \in DOMAIN seeded /\ seeded[r] = bundle["image"].surface
               /\ \A r \in DOMAIN s.typed : Has(bundle, s.typed[r]) =>
                    r \in DOMAIN seeded /\ seeded[r] = bundle[s.typed[r]].surface
               /\ s.textures \ ParticleState \subseteq DOMAIN seeded
               /\ \A r : r \notin ThreadRoutes \cup BoundRoutes(s) =>
                    /\ r \in DOMAIN seeded <=>
                          r \in DOMAIN resources \/ r \in s.textures \ ParticleState
                    /\ r \in DOMAIN seeded =>
                          seeded[r] = IF r \in DOMAIN resources THEN resources[r] ELSE Cleared
<1> DEFINE threads == {ThreadRoute[c] : c \in {x \in Components : Has(bundle, x)}}
           fed     == {r \in DOMAIN s.typed : Has(bundle, s.typed[r])}
           scratch == s.textures \ ParticleState
           routes  == (DOMAIN resources \ {ThreadRoute[c] : c \in Components})
                        \cup threads \cup DOMAIN s.surfaces \cup DOMAIN s.typed \cup scratch
           seeded  == Seeded(s, resources, bundle)
           thread(r) == bundle[CHOOSE c \in Components : ThreadRoute[c] = r].surface
<1>1. /\ s.textures \cap ThreadRoutes = {}
      /\ BoundRoutes(s) \cap ThreadRoutes = {}
      /\ DOMAIN s.surfaces \cap DOMAIN s.typed = {}
  BY RoutesAssumption DEF Reserved
<1>2. threads \subseteq ThreadRoutes
  BY DEF ThreadRoutes
<1>3. DOMAIN seeded = routes
  BY DEF Seeded
<1>4. threads \cap fed = {} /\ threads \cap DOMAIN s.surfaces = {} /\ fed \cap DOMAIN s.surfaces = {}
  BY <1>1, <1>2 DEF BoundRoutes
<1>5. ASSUME NEW r \in routes, r \in threads PROVE seeded[r] = thread(r)
  BY <1>4, <1>5 DEF Seeded
<1>6. ASSUME NEW r \in routes, r \in fed PROVE seeded[r] = bundle[s.typed[r]].surface
  BY <1>4, <1>6 DEF Seeded
<1>7. ASSUME NEW r \in routes, r \in DOMAIN s.surfaces, s.surfaces[r] = "input"
      PROVE  seeded[r] = bundle["image"].surface
  BY <1>4, <1>7 DEF Seeded
<1>8. ASSUME NEW r \in routes, r \notin threads, r \notin fed, r \notin DOMAIN s.surfaces
      PROVE  seeded[r] = IF r \in DOMAIN resources THEN resources[r] ELSE Cleared
  BY <1>8 DEF Seeded
<1>9. ASSUME NEW c \in Components PROVE thread(ThreadRoute[c]) = bundle[c].surface
  BY ThreadNames
<1>10. ASSUME NEW c \in Components, ThreadRoute[c] \in routes PROVE Has(bundle, c)
  <2>1. ThreadRoute[c] \in ThreadRoutes /\ ThreadRoute[c] \notin BoundRoutes(s)
    BY <1>1 DEF ThreadRoutes
  <2>2. ThreadRoute[c] \in threads
    BY <1>1, <1>10, <2>1 DEF BoundRoutes
  <2> QED BY <2>2, ThreadNames
<1>11. ASSUME NEW c \in Components, Has(bundle, c) PROVE ThreadRoute[c] \in threads
  BY <1>11
<1>12. ASSUME NEW r, r \notin ThreadRoutes \cup BoundRoutes(s)
       PROVE  /\ r \in routes <=> r \in DOMAIN resources \/ r \in scratch
              /\ r \in routes => seeded[r] = IF r \in DOMAIN resources THEN resources[r] ELSE Cleared
  <2>1. r \notin threads /\ r \notin fed /\ r \notin DOMAIN s.surfaces /\ r \notin DOMAIN s.typed
    BY <1>2, <1>12 DEF BoundRoutes
  <2>2. r \notin {ThreadRoute[c] : c \in Components}
    BY <1>12 DEF ThreadRoutes
  <2>3. r \in routes <=> r \in DOMAIN resources \/ r \in scratch
    BY <2>1, <2>2
  <2> QED BY <1>8, <2>1, <2>3
<1>13. /\ threads \subseteq routes /\ fed \subseteq routes /\ DOMAIN s.surfaces \subseteq routes
       /\ scratch \subseteq routes
  OBVIOUS
<1>14. \A r \in DOMAIN s.typed : Has(bundle, s.typed[r]) => r \in fed
  OBVIOUS
<1> HIDE DEF threads, fed, scratch, routes, seeded, thread
<1>15. ASSUME NEW c \in Components
       PROVE  /\ ThreadRoute[c] \in routes => seeded[ThreadRoute[c]] = bundle[c].surface
              /\ Has(bundle, c) => ThreadRoute[c] \in routes
  BY <1>5, <1>9, <1>10, <1>11, <1>13
<1>16. \A r \in DOMAIN s.surfaces : s.surfaces[r] = "input" =>
         r \in routes /\ seeded[r] = bundle["image"].surface
  BY <1>7, <1>13
<1>17. \A r \in DOMAIN s.typed : Has(bundle, s.typed[r]) =>
         r \in routes /\ seeded[r] = bundle[s.typed[r]].surface
  BY <1>6, <1>13, <1>14
<1> QED BY <1>3, <1>12, <1>13, <1>15, <1>16, <1>17 DEF seeded, scratch

LEMMA StepBeginsKeeps == ASSUME IInv, StepBegins PROVE IInv'
<1>1. CASE Unbindable(Step, carried)
  BY <1>1, ThrowKeeps DEF StepBegins
<1>2. CASE ~Unbindable(Step, carried)
  <2> DEFINE seeded == Seeded(Step, State.resources, carried)
  <2>1. /\ phase = "step" /\ phase' = "pass"
        /\ states' = [states EXCEPT ![Position] =
                        [resources |-> seeded, selfTex |-> State.selfTex]]
        /\ at' = Moment(at.tick, Position, 1, 0) /\ output' = Nothing
        /\ group' = group /\ input' = input /\ shared' = shared
        /\ carried' = carried /\ log' = log
    BY <1>2 DEF StepBegins
  <2>2. /\ AtOK /\ LogOK /\ SharedOK /\ StatesOK /\ Threads(carried, at.tick, Position)
        /\ BundleOK(carried) /\ Fixed /\ group \in Groups
    BY <2>1 DEF IInv, Running, RunOK, Fixed
  <2>3. Step \in AllSteps /\ Position \in Positions /\ Position \in Nat /\ at.tick \in Nat
    BY <2>2, RunningStep
  <2>4. /\ at'.tick = at.tick /\ Position' = Position /\ at'.pass = 1
        /\ at' = Moment(at'.tick, at'.position, at'.pass, at'.again)
    BY <2>1 DEF Moment, Position
  <2>5. Positions' = Positions /\ Step' = Step
    BY <2>1, <2>4 DEF Positions, Step
  <2>6. DOMAIN states = Positions
    BY <2>2 DEF StatesOK
  <2>7. /\ State' = [resources |-> seeded, selfTex |-> State.selfTex]
        /\ states'[Position] = [resources |-> seeded, selfTex |-> State.selfTex]
        /\ \A p \in Positions : p # Position => states'[p] = states[p]
    BY <2>1, <2>3, <2>4, <2>6 DEF State
  <2>8. AtOK'
    BY <2>2, <2>4, <2>5 DEF AtOK
  <2>9. LogOK'
    BY <2>1, <2>2, <2>4, <2>5 DEF LogOK, LogIsSequence
  <2>10. SharedOK'
    <3>1. \A r : Latest(AllRenderings(r), r, Cleared)' = Latest(AllRenderings(r), r, Cleared)
      BY <2>1, SameHistory
    <3> QED BY <2>1, <2>2, <3>1, SameHistory DEF SharedOK
  <2>11. StatesOK'
    <3>1. ASSUME NEW p \in Positions PROVE KeptOK(p)'
      <4>1. KeptOK(p)
        BY <2>2 DEF StatesOK
      <4>2. CASE p # Position
        BY <2>1, <2>7, <4>1, <4>2, SameHistory DEF KeptOK
      <4>3. CASE p = Position
        <5> SUFFICES ASSUME NEW r, ~Common(r), r \notin ThreadRoutes \cup BoundRoutes(Step)
                     PROVE  /\ r \in DOMAIN seeded =>
                                  /\ seeded[r] = Latest(Renderings(p, r), r, Cleared)
                                  /\ Renderings(p, r) # {} \/ Declared(p, r)
                            /\ Renderings(p, r) # {} => r \in DOMAIN seeded
          BY <2>1, <2>7, <4>3, SameHistory DEF KeptOK, Step
        <5>1. /\ r \in DOMAIN State.resources =>
                    /\ State.resources[r] = Latest(Renderings(p, r), r, Cleared)
                    /\ Renderings(p, r) # {} \/ Declared(p, r)
              /\ Renderings(p, r) # {} => r \in DOMAIN State.resources
          BY <4>1, <4>3 DEF KeptOK, State, Step
        <5>2. /\ r \in DOMAIN seeded <=>
                    r \in DOMAIN State.resources \/ r \in Step.textures \ ParticleState
              /\ r \in DOMAIN seeded =>
                    seeded[r] = IF r \in DOMAIN State.resources THEN State.resources[r] ELSE Cleared
          BY <2>3, SeededFacts
        <5>3. r \in Step.textures => Declared(p, r)
          BY <4>3 DEF Declared, Step
        <5>4. Renderings(p, r) = {} => Latest(Renderings(p, r), r, Cleared) = Cleared
          BY DEF Latest
        <5> HIDE DEF seeded
        <5> QED BY <5>1, <5>2, <5>3, <5>4
      <4> QED BY <4>2, <4>3
    <3>2. ASSUME NEW p \in Positions PROVE SelfTexOK(p)'
      <4>1. states'[p].selfTex = states[p].selfTex
        BY <2>7 DEF State
      <4>2. SelfTexOK(p)
        BY <2>2 DEF StatesOK
      <4> QED BY <2>1, <2>4, <4>1, <4>2, SameHistory DEF SelfTexOK
    <3>3. ASSUME NEW p \in Positions
          PROVE  states'[p] = [resources |-> states'[p].resources, selfTex |-> states'[p].selfTex]
      BY <2>2, <2>7 DEF StatesOK
    <3>4. states' = [p \in Positions |-> states'[p]]
      BY <2>1, <2>6
    <3>5. states' = [p \in Positions |-> [resources |-> states'[p].resources,
                                          selfTex |-> states'[p].selfTex]]
      BY <3>3, <3>4
    <3> QED BY <2>5, <3>1, <3>2, <3>5 DEF StatesOK
  <2>12. Threads(carried, at.tick, Position)'
    <3>1. Len(group.steps) \in Nat /\ Position \in 1 .. Len(group.steps) + 1
      BY <2>2, <2>3, GroupFacts
    <3> QED BY <2>1, <2>2, <2>4, <3>1, SameThread DEF Threads
  <2>13. BundleOK(carried)'
    BY <2>1, <2>2 DEF BundleOK, Has
  <2>14. InTick(Position, at.tick) = {}
    BY <2>1, <2>2, <2>3 DEF LogOK, InTick
  <2>15. BindingOK'
    <3>1. InTick(Position, at.tick)' = {}
      BY <2>1, <2>4, <2>14, SameHistory
    <3>2. output'.surface = NoSurface
      BY <2>1 DEF Nothing
    <3>3. State'.resources = seeded
      BY <2>7
    <3>4. /\ \A c \in Components :
               ThreadRoute[c] \in DOMAIN seeded => seeded[ThreadRoute[c]] = carried[c].surface
          /\ \A r \in DOMAIN Step.surfaces : Step.surfaces[r] = "input" =>
               r \in DOMAIN seeded /\ seeded[r] = carried["image"].surface
          /\ \A r \in DOMAIN Step.typed : Has(carried, Step.typed[r]) =>
               r \in DOMAIN seeded /\ seeded[r] = carried[Step.typed[r]].surface
          /\ Step.textures \ ParticleState \subseteq DOMAIN seeded
      BY <2>3, SeededFacts
    <3> HIDE DEF seeded
    <3> QED BY <2>1, <2>5, <3>1, <3>2, <3>3, <3>4 DEF BindingOK, Has
  <2>16. PassesOK'
    <3>1. output'.surface = NoSurface
      BY <2>1 DEF Nothing
    <3>2. \A j \in 1 .. Len(Step'.passes) : ~(j < at'.pass)
      BY <2>4
    <3> QED BY <3>1, <3>2 DEF PassesOK
  <2>17. Fixed'
    BY <2>1, <2>2 DEF Fixed
  <2> QED BY <2>1, <2>8, <2>9, <2>10, <2>11, <2>12, <2>13, <2>15, <2>16, <2>17 DEF IInv, RunOK
<1> QED BY <1>1, <1>2

LEMMA PassSkippedKeeps == ASSUME IInv, PassSkipped PROVE IInv'
<1>1. /\ phase = "pass" /\ HasPass /\ 0 \in ThePass.repeats
      /\ at' = Moment(at.tick, Position, at.pass + 1, 0)
      /\ UNCHANGED <<group, input, phase, states, shared, carried, output, log>>
  BY DEF PassSkipped
<1>2. /\ AtOK /\ LogOK /\ SharedOK /\ StatesOK /\ Threads(carried, at.tick, Position)
      /\ BundleOK(carried) /\ Fixed /\ group \in Groups /\ BindingOK /\ PassesOK
  BY <1>1 DEF IInv, Running, RunOK, Fixed
<1>3. Step \in AllSteps /\ Position \in Positions /\ Position \in Nat /\ at.tick \in Nat
  BY <1>2, RunningStep
<1>4. /\ at'.tick = at.tick /\ Position' = Position /\ at'.pass = at.pass + 1
      /\ at' = Moment(at'.tick, at'.position, at'.pass, at'.again)
  BY <1>1 DEF Moment, Position
<1>5. Positions' = Positions /\ Step' = Step /\ State' = State
  BY <1>1, <1>4 DEF Positions, Step, State
<1>6. AtOK' /\ LogOK'
  BY <1>1, <1>2, <1>4, <1>5 DEF AtOK, LogOK, LogIsSequence
<1>7. SharedOK'
  <2>1. \A r : Latest(AllRenderings(r), r, Cleared)' = Latest(AllRenderings(r), r, Cleared)
    BY <1>1, SameHistory
  <2> QED BY <1>1, <1>2, <2>1, SameHistory DEF SharedOK
<1>8. StatesOK'
  <2>1. \A p \in Positions : KeptOK(p)'
    BY <1>1, <1>2, SameHistory DEF StatesOK, KeptOK
  <2>2. \A p \in Positions : SelfTexOK(p)'
    BY <1>1, <1>2, <1>4, SameHistory DEF StatesOK, SelfTexOK
  <2> QED BY <1>1, <1>2, <1>5, <2>1, <2>2 DEF StatesOK
<1>9. Threads(carried, at.tick, Position)'
  <2>1. Len(group.steps) \in Nat /\ Position \in 1 .. Len(group.steps) + 1
    BY <1>2, <1>3, GroupFacts
  <2> QED BY <1>1, <1>2, <1>4, <2>1, SameThread DEF Threads
<1>10. BundleOK(carried)'
  BY <1>1, <1>2 DEF BundleOK, Has
<1>11. BindingOK'
  <2>1. \A k : LastRendered(k)' = LastRendered(k)
    BY <1>1 DEF LastRendered
  <2>2. LastOf(InTick(Position, at.tick))' = LastOf(InTick(Position, at.tick))
    BY <1>1, <1>4, SameHistory
  <2> QED BY <1>1, <1>2, <1>4, <1>5, <2>1, <2>2, SameHistory DEF BindingOK, Has
<1>12. PassesOK'
  <2>1. Step.passes[at.pass] = ThePass /\ at.pass \in 1 .. Len(Step.passes)
    BY <1>1, <1>2, PassFacts
  <2>2. CanBeSkipped(Step.passes[at.pass])
    BY <1>1, <2>1 DEF CanBeSkipped
  <2>3. \A j \in 1 .. Len(Step.passes) : j < at.pass + 1 => j < at.pass \/ j = at.pass
    BY <2>1
  <2> QED BY <1>1, <1>2, <1>4, <1>5, <2>2, <2>3, SameHistory DEF PassesOK
<1>13. Fixed'
  BY <1>1, <1>2 DEF Fixed
<1> QED BY <1>1, <1>6, <1>7, <1>8, <1>9, <1>10, <1>11, <1>12, <1>13 DEF IInv, RunOK

-----------------------------------------------------------------------------
\* One repeat of a pass: what it samples and what it leaves.

Created == WithParticles(shared, ThePass.inputs)

SourceOf(r) ==
    IF r = "destination"
    THEN LET found == Lookup(State, Created, ThePass.outputs[1])
         IN  IF found = NoSurface THEN Cleared ELSE found
    ELSE Lookup(State, Created, r)

Samples == [r \in Sampled(ThePass) |-> SourceOf(r)]

Entry == [tick |-> at.tick, position |-> Position,
          sampled |-> Samples, outputs |-> ThePass.outputs]

Stored == StoreOutputs(State, Created, Routes(ThePass), Len(log) + 1)

Renders ==
    /\ phase = "pass" /\ HasPass
    /\ \A r \in ThePass.inputs : Samples[r] # NoSurface
    /\ states' = [states EXCEPT ![Position] = Stored.state]
    /\ shared' = Stored.shared
    /\ output' = [surface |-> Rendered(Len(log) + 1, LastSlot(ThePass)), route |-> LastSlot(ThePass)]
    /\ log' = Append(log, Entry)
    /\ \E left : at' = Moment(at.tick, Position, IF left = 0 THEN at.pass + 1 ELSE at.pass, left)
    /\ UNCHANGED <<group, input, phase, carried>>

LEMMA PassRunsIs == ASSUME PassRuns PROVE Throw \/ Renders
<1>1. PICK left :
        IF Mismatched(ThePass) \/ \E r \in ThePass.inputs : Samples[r] = NoSurface
        THEN Throw
        ELSE /\ states' = [states EXCEPT ![Position] = Stored.state]
             /\ shared' = Stored.shared
             /\ output' = [surface |-> Rendered(Len(log) + 1, LastSlot(ThePass)),
                           route |-> LastSlot(ThePass)]
             /\ log' = Append(log, Entry)
             /\ at' = Moment(at.tick, Position, IF left = 0 THEN at.pass + 1 ELSE at.pass, left)
             /\ UNCHANGED <<group, input, phase, carried>>
  BY DEF PassRuns, Samples, SourceOf, Created, Stored, Entry, LastSlot
<1>2. phase = "pass" /\ HasPass
  BY DEF PassRuns
<1> QED BY <1>1, <1>2 DEF Renders

LEMMA CreatedFacts ==
    ASSUME SharedOK
    PROVE  /\ \A r \in DOMAIN Created :
                Common(r) /\ Created[r] = Latest(AllRenderings(r), r, Cleared)
           /\ \A r : Common(r) /\ AllRenderings(r) # {} => r \in DOMAIN Created
           /\ group.loop => "global_accum" \in DOMAIN Created
           /\ ThePass.inputs \cap ParticleState \subseteq DOMAIN Created
           /\ DOMAIN shared \subseteq DOMAIN Created
<1>1. DOMAIN Created = DOMAIN shared \cup (ThePass.inputs \cap ParticleState)
  BY DEF Created, WithParticles
<1>2. \A r \in DOMAIN shared : Created[r] = shared[r]
  BY <1>1 DEF Created, WithParticles
<1>3. \A r \in ThePass.inputs \cap ParticleState : r \notin DOMAIN shared => Created[r] = Cleared
  BY <1>1 DEF Created, WithParticles
<1>4. \A r : AllRenderings(r) = {} => Latest(AllRenderings(r), r, Cleared) = Cleared
  BY DEF Latest
<1>5. \A r \in ThePass.inputs \cap ParticleState : Common(r)
  BY DEF Common
<1> QED BY <1>1, <1>2, <1>3, <1>4, <1>5 DEF SharedOK

LEMMA StoredFacts ==
    ASSUME group \in Groups, AtOK, HasPass
    PROVE  LET n == Len(log) + 1
               common == {r \in Routes(ThePass) : Common(r)}
               kept   == Routes(ThePass) \ common
           IN  /\ Stored.state = [resources |-> Stored.state.resources, selfTex |-> State.selfTex]
               /\ DOMAIN Stored.state.resources = DOMAIN State.resources \cup kept
               /\ \A r \in DOMAIN Stored.state.resources :
                     Stored.state.resources[r] = IF r \in kept THEN Rendered(n, r) ELSE State.resources[r]
               /\ DOMAIN Stored.shared = DOMAIN Created \cup common
               /\ \A r \in DOMAIN Stored.shared :
                     Stored.shared[r] = IF r \in common THEN Rendered(n, r) ELSE Created[r]
<1>1. group.loop \/ "global_accum" \notin Routes(ThePass)
  BY PassFacts
<1>2. \A r \in Routes(ThePass) : IsShared(r) <=> Common(r)
  BY <1>1 DEF IsShared, Common
<1>3. {r \in Routes(ThePass) : IsShared(r)} = {r \in Routes(ThePass) : Common(r)}
  BY <1>2
<1> DEFINE common == {r \in Routes(ThePass) : Common(r)}
           set == Routes(ThePass)
<1>4. Stored = [state  |-> [resources |-> [r \in DOMAIN State.resources \cup (set \ common) |->
                                             IF r \in set \ common THEN Rendered(Len(log) + 1, r)
                                             ELSE State.resources[r]],
                            selfTex |-> State.selfTex],
                shared |-> [r \in DOMAIN Created \cup common |->
                              IF r \in common THEN Rendered(Len(log) + 1, r) ELSE Created[r]]]
  BY <1>3 DEF Stored, StoreOutputs
<1> HIDE DEF common, set
<1>5. /\ Stored.state.resources = [r \in DOMAIN State.resources \cup (set \ common) |->
                                     IF r \in set \ common THEN Rendered(Len(log) + 1, r)
                                     ELSE State.resources[r]]
      /\ Stored.state.selfTex = State.selfTex
      /\ Stored.state = [resources |-> Stored.state.resources, selfTex |-> State.selfTex]
      /\ Stored.shared = [r \in DOMAIN Created \cup common |->
                            IF r \in common THEN Rendered(Len(log) + 1, r) ELSE Created[r]]
  BY <1>4
<1> QED BY <1>5 DEF common, set

\* The new rendering belongs to the running step and tick.
LEMMA RenderingAdds ==
    ASSUME LogIsSequence, group \in Groups, AtOK, Renders
    PROVE  /\ \A p, r : Renderings(p, r)' =
                IF p = Position /\ r \in Routes(ThePass)
                THEN Renderings(p, r) \cup {Len(log) + 1} ELSE Renderings(p, r)
           /\ \A r : AllRenderings(r)' =
                IF r \in Routes(ThePass)
                THEN AllRenderings(r) \cup {Len(log) + 1} ELSE AllRenderings(r)
           /\ \A p, t : InTick(p, t)' =
                IF p = Position /\ t = at.tick
                THEN InTick(p, t) \cup {Len(log) + 1} ELSE InTick(p, t)
           /\ \A p, t : t \in Nat /\ (p # Position \/ t < at.tick) =>
                ResultOf(p, t)' = ResultOf(p, t)
           /\ \A q \in 1 .. Position : Threaded(at.tick)'[q] = Threaded(at.tick)[q]
<1>1. log' = Append(log, Entry) /\ group' = group /\ input' = input
  BY DEF Renders
<1>2. Entry.tick = at.tick /\ Entry.position = Position /\ Entry.outputs = ThePass.outputs
  BY DEF Entry
<1>3. \A r : Writes(Entry, r) <=> r \in Routes(ThePass)
  BY <1>2 DEF Writes, Routes
<1>4. \A p, t, r :
        /\ Renderings(p, r)' = IF Entry.position = p /\ Writes(Entry, r)
                               THEN Renderings(p, r) \cup {Len(log) + 1} ELSE Renderings(p, r)
        /\ AllRenderings(r)' = IF Writes(Entry, r)
                               THEN AllRenderings(r) \cup {Len(log) + 1} ELSE AllRenderings(r)
        /\ InTick(p, t)' = IF Entry.position = p /\ Entry.tick = t
                           THEN InTick(p, t) \cup {Len(log) + 1} ELSE InTick(p, t)
  BY <1>1, RenderingsGrow
<1>5. Position \in Nat /\ at.tick \in Nat /\ Position \in Positions /\ Len(group.steps) \in Nat
  BY RunningStep, GroupFacts
<1>6. ASSUME NEW p, NEW t, p # Position \/ t < at.tick, t \in Nat
      PROVE  ResultOf(p, t)' = ResultOf(p, t)
  <2>1. ~(Entry.position = p /\ (Entry.tick <= t \/ Entry.tick = t))
    BY <1>2, <1>5, <1>6
  <2> QED BY <1>1, <2>1, PastResultStays
<1>7. \A q \in 1 .. Position : Threaded(at.tick)'[q] = Threaded(at.tick)[q]
  <2>1. PICK t : t = at.tick
    OBVIOUS
  <2>2. ASSUME NEW q \in 1 .. Position - 1, NEW b PROVE LeftBy(q, t, b)' = LeftBy(q, t, b)
    <3>1. q \in Nat /\ t \in Nat /\ Entry.position \in Nat /\ Entry.tick \in Nat
          /\ (t < Entry.tick \/ (t = Entry.tick /\ q < Entry.position))
      BY <1>2, <1>5, <2>1
    <3> QED BY <1>1, <3>1, PastStepStays
  <2>3. PICK m : m = Position
    OBVIOUS
  <2>4. m \in 1 .. Len(group.steps) + 1 /\ \A q \in 1 .. m - 1 : \A b : LeftBy(q, t, b)' = LeftBy(q, t, b)
    BY <1>5, <2>2, <2>3 DEF Positions
  <2>5. \A q \in 1 .. m : Threaded(t)'[q] = Threaded(t)[q]
    BY <1>1, <1>5, <2>4, PastThreadStays
  <2>6. at'.tick = t
    BY <2>1 DEF Renders, Moment
  <2> QED BY <2>1, <2>3, <2>5, <2>6
<1>8. \A p, r : Renderings(p, r)' =
                IF p = Position /\ r \in Routes(ThePass)
                THEN Renderings(p, r) \cup {Len(log) + 1} ELSE Renderings(p, r)
  BY <1>2, <1>3, <1>4
<1>9. \A r : AllRenderings(r)' =
                IF r \in Routes(ThePass)
                THEN AllRenderings(r) \cup {Len(log) + 1} ELSE AllRenderings(r)
  BY <1>2, <1>3, <1>4
<1>10. \A p, t : InTick(p, t)' =
                IF p = Position /\ t = at.tick
                THEN InTick(p, t) \cup {Len(log) + 1} ELSE InTick(p, t)
  BY <1>2, <1>4
<1> QED BY <1>6, <1>7, <1>8, <1>9, <1>10

LEMMA RendersKeeps == ASSUME IInv, Renders PROVE IInv'
<1>0. PICK n : n = Len(log)
  OBVIOUS
<1>1. /\ phase = "pass" /\ HasPass /\ phase' = "pass"
      /\ states' = [states EXCEPT ![Position] = Stored.state]
      /\ shared' = Stored.shared
      /\ output' = [surface |-> Rendered(n + 1, LastSlot(ThePass)), route |-> LastSlot(ThePass)]
      /\ log' = Append(log, Entry)
      /\ group' = group /\ input' = input /\ carried' = carried
  BY <1>0 DEF Renders
<1>2. /\ AtOK /\ LogOK /\ LogIsSequence /\ SharedOK /\ StatesOK
      /\ Threads(carried, at.tick, Position)
      /\ BundleOK(carried) /\ Fixed /\ group \in Groups /\ BindingOK /\ PassesOK
  BY <1>1 DEF IInv, Running, RunOK, Fixed, LogOK
<1>3. Step \in AllSteps /\ Position \in Positions /\ Position \in Nat /\ at.tick \in Nat
  BY <1>2, RunningStep
<1>4. /\ at'.tick = at.tick /\ Position' = Position /\ at'.pass \in {at.pass, at.pass + 1}
      /\ at' = Moment(at'.tick, at'.position, at'.pass, at'.again)
  <2>1. PICK left : at' = Moment(at.tick, Position, IF left = 0 THEN at.pass + 1 ELSE at.pass, left)
    BY DEF Renders
  <2> QED BY <2>1 DEF Moment, Position
<1>5. Positions' = Positions /\ Step' = Step /\ \A r : Common(r)' <=> Common(r)
  BY <1>1, <1>4 DEF Positions, Step, Common
<1>6. /\ Entry.tick = at.tick /\ Entry.position = Position /\ Entry.outputs = ThePass.outputs
      /\ Len(ThePass.outputs) \in Nat \ {0}
  BY <1>1, <1>2, PassFacts DEF Entry
<1>7. n \in Nat /\ Len(log') = n + 1 /\ log'[n + 1] = Entry /\ (\A k \in 1 .. n : log'[k] = log[k])
      /\ LogIsSequence'
  BY <1>0, <1>1, <1>2, LogGrows
<1>8. DOMAIN states = Positions
  BY <1>2 DEF StatesOK
<1>9. /\ State' = Stored.state /\ states'[Position] = Stored.state
      /\ \A p \in Positions : p # Position => states'[p] = states[p]
  BY <1>1, <1>3, <1>4, <1>8 DEF State
<1>10. /\ \A p, r : Renderings(p, r) \in SUBSET (1 .. n)
       /\ \A r : AllRenderings(r) \in SUBSET (1 .. n)
  BY <1>0, <1>2, WholeHistory
<1>11. Routes(ThePass) \cap (BoundRoutes(Step) \cup Reserved) = {}
  BY <1>1, <1>2, PassFacts
<1>12. AtOK'
  BY <1>2, <1>4, <1>5 DEF AtOK
<1>13. LogOK'
  <2>1. ASSUME NEW k \in 1 .. n + 1
        PROVE  /\ log'[k].position \in Positions
               /\ log'[k].tick \in Nat
               /\ Len(log'[k].outputs) \in Nat \ {0}
               /\ \/ log'[k].tick < at.tick
                  \/ log'[k].tick = at.tick /\ (log'[k].position < Position \/ log'[k].position = Position)
    <3>1. CASE k = n + 1
      BY <1>3, <1>6, <1>7, <3>1
    <3>2. CASE k # n + 1
      <4>1. k \in 1 .. n /\ log'[k] = log[k]
        BY <1>7, <3>2
      <4> QED BY <1>0, <1>2, <4>1 DEF LogOK
    <3> QED BY <3>1, <3>2
  <2> QED BY <1>1, <1>4, <1>5, <1>7, <2>1 DEF LogOK
<1>14. \A r : r \in Routes(ThePass) =>
         /\ Latest(AllRenderings(r), r, Cleared)' = Rendered(n + 1, r)
         /\ Latest(Renderings(Position, r), r, Cleared)' = Rendered(n + 1, r)
  <2> SUFFICES ASSUME NEW r, r \in Routes(ThePass)
               PROVE  /\ Latest(AllRenderings(r), r, Cleared)' = Rendered(n + 1, r)
                      /\ Latest(Renderings(Position, r), r, Cleared)' = Rendered(n + 1, r)
    OBVIOUS
  <2>1. AllRenderings(r)' = AllRenderings(r) \cup {n + 1}
    BY <1>0, <1>2, RenderingAdds
  <2>2. Renderings(Position, r)' = Renderings(Position, r) \cup {n + 1}
    <3>1. PICK p : p = Position
      OBVIOUS
    <3>2. Renderings(p, r)' = Renderings(p, r) \cup {n + 1}
      BY <1>0, <1>2, <3>1, RenderingAdds
    <3>3. p = Position'
      BY <1>4, <3>1
    <3> QED BY <3>1, <3>2, <3>3 DEF Renderings
  <2>3. PICK X, Y : X = AllRenderings(r) /\ Y = Renderings(Position, r)
    OBVIOUS
  <2>4. X \in SUBSET (1 .. n) /\ Y \in SUBSET (1 .. n) /\ n \in Nat
    BY <1>7, <1>10, <2>3
  <2>5. Latest(X \cup {n + 1}, r, Cleared) = Rendered(n + 1, r)
    BY <2>4, LatestIs
  <2>6. Latest(Y \cup {n + 1}, r, Cleared) = Rendered(n + 1, r)
    BY <2>4, LatestIs
  <2> QED BY <2>1, <2>2, <2>3, <2>5, <2>6
<1>15. SharedOK'
  <2>1. /\ DOMAIN shared' = DOMAIN Created \cup {r \in Routes(ThePass) : Common(r)}
        /\ \A r \in DOMAIN shared' : shared'[r] =
             IF r \in Routes(ThePass) /\ Common(r) THEN Rendered(n + 1, r) ELSE Created[r]
    BY <1>0, <1>1, <1>2, StoredFacts
  <2>2. ASSUME NEW r \in DOMAIN shared'
        PROVE  Common(r) /\ shared'[r] = Latest(AllRenderings(r), r, Cleared)'
    <3>1. CASE r \in Routes(ThePass) /\ Common(r)
      BY <1>14, <2>1, <3>1
    <3>2. CASE ~(r \in Routes(ThePass) /\ Common(r))
      <4>1. r \in DOMAIN Created /\ Common(r) /\ Created[r] = Latest(AllRenderings(r), r, Cleared)
        BY <1>2, <2>1, <3>2, CreatedFacts
      <4>2. AllRenderings(r)' = AllRenderings(r)
        BY <1>2, <3>2, <4>1, RenderingAdds
      <4> QED BY <2>1, <3>2, <4>1, <4>2
    <3> QED BY <3>1, <3>2
  <2>3. ASSUME NEW r, Common(r), AllRenderings(r)' # {} PROVE r \in DOMAIN shared'
    <3>1. CASE r \in Routes(ThePass)
      BY <2>1, <2>3, <3>1
    <3>2. CASE r \notin Routes(ThePass)
      <4>1. AllRenderings(r)' = AllRenderings(r)
        BY <1>2, <3>2, RenderingAdds
      <4> QED BY <1>2, <2>1, <2>3, <4>1, CreatedFacts
    <3> QED BY <3>1, <3>2
  <2>4. group.loop => "global_accum" \in DOMAIN shared'
    BY <1>2, <2>1, CreatedFacts
  <2> QED BY <1>1, <1>5, <2>2, <2>3, <2>4 DEF SharedOK
<1> DEFINE kept == {r \in Routes(ThePass) : ~Common(r)}
<1>16. /\ Stored.state = [resources |-> Stored.state.resources, selfTex |-> State.selfTex]
       /\ DOMAIN Stored.state.resources = DOMAIN State.resources \cup kept
       /\ \A r \in DOMAIN Stored.state.resources :
             Stored.state.resources[r] = IF r \in kept THEN Rendered(n + 1, r) ELSE State.resources[r]
  <2>1. Routes(ThePass) \ {r \in Routes(ThePass) : Common(r)} = kept
    OBVIOUS
  <2> QED BY <1>0, <1>1, <1>2, <2>1, StoredFacts
<1>17. StatesOK'
  <2>1. ASSUME NEW p \in Positions PROVE KeptOK(p)'
    <3>1. KeptOK(p)
      BY <1>2 DEF StatesOK
    <3>2. \A r : Declared(p, r)' <=> Declared(p, r)
      BY <1>1 DEF Declared
    <3>3. CASE p # Position
      <4>1. \A r : Renderings(p, r)' = Renderings(p, r)
        BY <1>2, <3>3, RenderingAdds
      <4>2. states'[p] = states[p]
        BY <1>9, <3>3
      <4> QED BY <1>1, <1>5, <3>1, <3>2, <4>1, <4>2 DEF KeptOK
    <3>4. CASE p = Position
      <4>1. ASSUME NEW r, ~Common(r), r \notin ThreadRoutes \cup BoundRoutes(group.steps[p])
            PROVE  LET resources == Stored.state.resources
                   IN  /\ r \in DOMAIN resources =>
                             /\ resources[r] = Latest(Renderings(p, r), r, Cleared)'
                             /\ Renderings(p, r)' # {} \/ Declared(p, r)
                       /\ Renderings(p, r)' # {} => r \in DOMAIN resources
        <5>1. CASE r \in Routes(ThePass)
          <6>1. r \in kept /\ Renderings(p, r)' = Renderings(p, r) \cup {n + 1}
            BY <1>0, <1>2, <3>4, <4>1, <5>1, RenderingAdds
          <6>2. Latest(Renderings(p, r), r, Cleared)' = Rendered(n + 1, r)
            <7>1. PICK X : X = Renderings(p, r)
              OBVIOUS
            <7>2. X \in SUBSET (1 .. n) /\ n \in Nat
              BY <1>7, <1>10, <7>1
            <7>3. Latest(X \cup {n + 1}, r, Cleared) = Rendered(n + 1, r)
              BY <7>2, LatestIs
            <7> QED BY <6>1, <7>1, <7>3
          <6> QED BY <1>16, <6>1, <6>2
        <5>2. CASE r \notin Routes(ThePass)
          <6>1. r \notin kept /\ Renderings(p, r)' = Renderings(p, r)
            BY <1>2, <5>2, RenderingAdds
          <6>2. /\ r \in DOMAIN State.resources =>
                      /\ State.resources[r] = Latest(Renderings(p, r), r, Cleared)
                      /\ Renderings(p, r) # {} \/ Declared(p, r)
                /\ Renderings(p, r) # {} => r \in DOMAIN State.resources
            BY <3>1, <3>4, <4>1 DEF KeptOK, State
          <6> HIDE DEF kept
          <6> QED BY <1>16, <6>1, <6>2
        <5> QED BY <5>1, <5>2
      <4>2. states'[p] = Stored.state
        BY <1>9, <3>4
      <4> HIDE DEF kept
      <4> QED BY <1>1, <1>5, <3>2, <4>1, <4>2 DEF KeptOK
    <3> QED BY <3>3, <3>4
  <2>2. ASSUME NEW p \in Positions PROVE SelfTexOK(p)'
    <3>1. states'[p].selfTex = states[p].selfTex
      BY <1>9, <1>16 DEF State
    <3>2. PICK finished : finished = IF p < Position THEN at.tick + 1 ELSE at.tick
      OBVIOUS
    <3>3. states[p].selfTex # NoSurface =>
            states[p].selfTex = IF finished = 0 THEN Cleared ELSE ResultOf(p, finished - 1)
      BY <1>2, <3>2 DEF StatesOK, SelfTexOK
    <3>4. p \in Nat /\ Position \in Nat /\ at.tick \in Nat
      BY <1>3 DEF Positions
    <3>5. finished # 0 => finished - 1 \in Nat /\ (p # Position \/ finished - 1 < at.tick)
      BY <3>2, <3>4
    <3>6. finished # 0 => ResultOf(p, finished - 1)' = ResultOf(p, finished - 1)
      <4>1. PICK t : t = finished - 1
        OBVIOUS
      <4>2. finished # 0 => ResultOf(p, t)' = ResultOf(p, t)
        BY <1>2, <3>5, <4>1, RenderingAdds
      <4> QED BY <4>1, <4>2
    <3>7. finished = IF p < Position' THEN at'.tick + 1 ELSE at'.tick
      BY <1>4, <3>2
    <3> QED BY <3>1, <3>3, <3>6, <3>7 DEF SelfTexOK
  <2>3. ASSUME NEW p \in Positions
        PROVE  states'[p] = [resources |-> states'[p].resources, selfTex |-> states'[p].selfTex]
    <3>1. CASE p = Position
      <4>1. states'[p] = Stored.state
        BY <1>9, <3>1
      <4>2. Stored.state.selfTex = State.selfTex
        BY <1>16
      <4> QED BY <1>16, <4>1, <4>2
    <3>2. CASE p # Position
      BY <1>2, <1>9, <3>2 DEF StatesOK
    <3> QED BY <3>1, <3>2
  <2>4. states' = [p \in Positions |-> states'[p]]
    BY <1>1, <1>8
  <2>5. states' = [p \in Positions |-> [resources |-> states'[p].resources,
                                        selfTex |-> states'[p].selfTex]]
    BY <2>3, <2>4
  <2> QED BY <1>5, <2>1, <2>2, <2>5 DEF StatesOK
<1>18. Threads(carried, at.tick, Position)'
  <2>1. Position \in 1 .. Position
    BY <1>3 DEF Positions
  <2>2. Threaded(at.tick)'[Position] = Threaded(at.tick)[Position]
    BY <1>2, <2>1, RenderingAdds
  <2> QED BY <1>1, <1>2, <1>4, <2>2 DEF Threads
<1>19. BundleOK(carried)'
  BY <1>1, <1>2 DEF BundleOK, Has
<1>20. BindingOK'
  <2>1. ASSUME NEW r, r \in ThreadRoutes \cup BoundRoutes(Step)
        PROVE  /\ r \in DOMAIN State'.resources <=> r \in DOMAIN State.resources
               /\ r \in DOMAIN State.resources => State'.resources[r] = State.resources[r]
    <3>1. r \notin Routes(ThePass)
      BY <1>11, <2>1 DEF Reserved
    <3>2. r \notin kept
      BY <3>1
    <3> HIDE DEF kept
    <3> QED BY <1>9, <1>16, <3>2
  <2>2. \A c \in Components : ThreadRoute[c] \in ThreadRoutes
    BY DEF ThreadRoutes
  <2>3. DOMAIN Step.surfaces \subseteq BoundRoutes(Step) /\ DOMAIN Step.typed \subseteq BoundRoutes(Step)
    BY DEF BoundRoutes
  <2>4. Step.textures \ ParticleState \subseteq DOMAIN State'.resources
    BY <1>2, <1>9, <1>16 DEF BindingOK
  <2>5. output'.surface = LastRendered(LastOf(InTick(Position, at.tick)))'
        /\ InTick(Position, at.tick)' # {}
    <3>1. InTick(Position, at.tick)' = InTick(Position, at.tick) \cup {n + 1}
      <4>1. PICK p, t : p = Position /\ t = at.tick
        OBVIOUS
      <4>2. InTick(p, t)' = InTick(p, t) \cup {n + 1}
        BY <1>0, <1>2, <4>1, RenderingAdds
      <4> QED BY <1>4, <4>1, <4>2 DEF InTick
    <3>2. InTick(Position, at.tick) \in SUBSET (1 .. n)
      BY <1>0 DEF InTick
    <3>3. LastOf(InTick(Position, at.tick))' = n + 1
      BY <1>7, <3>1, <3>2, LastIs
    <3>4. LastRendered(n + 1)' = Rendered(n + 1, LastSlot(ThePass))
      <4>1. LastRendered(n + 1)' = Rendered(n + 1, log'[n + 1].outputs[Len(log'[n + 1].outputs)])
        BY DEF LastRendered
      <4>2. log'[n + 1].outputs = ThePass.outputs
        BY <1>6, <1>7
      <4> QED BY <4>1, <4>2 DEF LastSlot
    <3>5. output'.surface = Rendered(n + 1, LastSlot(ThePass))
      BY <1>1
    <3>6. PICK k : k = LastOf(InTick(Position, at.tick))'
      OBVIOUS
    <3>7. LastRendered(k)' = LastRendered(LastOf(InTick(Position, at.tick)))'
      BY <3>6 DEF LastRendered
    <3> QED BY <3>1, <3>3, <3>4, <3>5, <3>6, <3>7
  <2> HIDE DEF kept
  <2> QED BY <1>1, <1>2, <1>5, <2>1, <2>2, <2>3, <2>4, <2>5 DEF BindingOK, Has
<1>21. PassesOK'
  <2>1. Step.passes[at.pass] = ThePass /\ at.pass \in 1 .. Len(Step.passes) /\ ThePass \in PassesOf(Step)
    BY <1>1, <1>2, PassFacts
  <2>2. ASSUME NEW j \in 1 .. Len(Step.passes), j < at'.pass, ~CanBeSkipped(Step.passes[j]),
               NEW r \in Routes(Step.passes[j])
        PROVE  Renderings(Position, r)' # {}
    <3>1. PICK p : p = Position
      OBVIOUS
    <3>2. Renderings(p, r) # {} \/ r \in Routes(ThePass)
      <4>1. j < at.pass \/ j = at.pass
        BY <1>4, <2>1, <2>2
      <4> QED BY <1>2, <2>1, <2>2, <3>1, <4>1 DEF PassesOK
    <3>3. Renderings(p, r)' # {}
      BY <1>2, <3>1, <3>2, RenderingAdds
    <3> QED BY <1>4, <3>1, <3>3 DEF Renderings
  <2>3. output'.route = LastSlot(ThePass)
    BY <1>1
  <2> QED BY <1>5, <2>1, <2>2, <2>3 DEF PassesOK
<1>22. Fixed'
  BY <1>1, <1>2 DEF Fixed
<1> QED BY <1>1, <1>12, <1>13, <1>15, <1>17, <1>18, <1>19, <1>20, <1>21, <1>22 DEF IInv, RunOK

-----------------------------------------------------------------------------
\* What a finished step hands on.

LEMMA StepResultFacts ==
    ASSUME group \in Groups, AtOK, LogOK, StatesOK, BindingOK, PassesOK, ~HasPass,
           StepResult.surface # NoSurface,
           ~(IsVolumeDomain(Step.domain) /\ "outputTex" \notin DOMAIN State.resources)
    PROVE  /\ StepResult.surface # Incoming("image")
           /\ StepResult.route \in NewRoutes(group)["image"]
<1>1. Step \in AllSteps /\ Step \in {group.steps[i] : i \in 1 .. Len(group.steps)}
  BY RunningStep, GroupFacts DEF Step
<1>2. CASE "outputTex" \in DOMAIN State.resources
  <2>1. StepResult = [surface |-> State.resources["outputTex"], route |-> "outputTex"]
    BY <1>2 DEF StepResult
  <2>2. PICK S : S = ByStep(Position, at.tick, "outputTex")
    OBVIOUS
  <2>3. State.resources["outputTex"] = Latest(S, "outputTex", Cleared)
    BY <1>2, <2>2, OutputRoutes, ResourceOf
  <2>4. Latest(S, "outputTex", Cleared) # Incoming("image")
    BY SurfacesDiffer DEF Latest
  <2>5. "outputTex" \in NewRoutes(group)["image"]
    BY DEF NewRoutes
  <2> QED BY <2>1, <2>3, <2>4, <2>5
<1>3. CASE "outputTex" \notin DOMAIN State.resources
  <2>1. StepResult = output /\ ~IsVolumeDomain(Step.domain)
    BY <1>3 DEF StepResult
  <2>2. output.surface # Incoming("image")
    BY <2>1, SurfacesDiffer DEF BindingOK, LastRendered
  <2>3. PICK p \in PassesOf(Step) : output.route = LastSlot(p)
    BY <2>1 DEF PassesOK
  <2>4. ASSUME NEW q \in PassesOf(Step), "outputTex" \in Routes(q) PROVE CanBeSkipped(q)
    <3>1. PICK j \in 1 .. Len(Step.passes) : q = Step.passes[j]
      BY DEF PassesOf
    <3>2. j < at.pass
      BY <1>1, RoutesAssumption DEF AtOK, HasPass
    <3>3. Renderings(Position, "outputTex") = {}
      <4>1. ByStep(Position, at.tick, "outputTex") = Renderings(Position, "outputTex")
        BY WholeHistory
      <4> QED BY <1>3, <4>1, OutputRoutes, ResourceOf
    <3> QED BY <2>4, <3>1, <3>2, <3>3 DEF PassesOK
  <2>5. output.route \in OtherImages(Step)
    BY <2>1, <2>3, <2>4 DEF OtherImages
  <2>6. output.route \in NewRoutes(group)["image"]
    BY <1>1, <2>5 DEF NewRoutes
  <2> QED BY <2>1, <2>2, <2>6
<1> QED BY <1>2, <1>3

LEMMA NextBundleOK ==
    ASSUME Fixed, AtOK, LogOK, SharedOK, StatesOK, BindingOK, PassesOK, ~HasPass,
           BundleOK(carried), StepResult.surface # NoSurface,
           RequiresOutputVolume(Step.domain) => Has(NextBundle, "volume"),
           RequiresOutputImage(Step.domain) => Has(NextBundle, "image")
    PROVE  BundleOK(NextBundle) /\ \E c \in Components : Has(NextBundle, c)
<1>1. \A c : c \in Components <=> c = "image" \/ c = "volume" \/ c = "geometry"
  BY DEF Components
<1>2. group \in Groups
  BY DEF Fixed
<1>3. Step \in AllSteps /\ Step \in {group.steps[i] : i \in 1 .. Len(group.steps)}
  BY <1>2, RunningStep, GroupFacts DEF Step
<1> DEFINE Fine(c, x) == x.surface # NoSurface =>
                           \/ x = input[c] /\ Has(input, c)
                           \/ x.surface # Incoming(c) /\ x.route \in NewRoutes(group)[c]
<1>4. \A c \in Components : Fine(c, carried[c])
  BY DEF BundleOK, Has
<1>5. DOMAIN NextBundle = Components
  BY <1>1 DEF NextBundle
<1> HIDE DEF Fine
<1>7. ASSUME NEW c \in {"volume", "geometry"}, NEW name,
             c = "volume" => name = Step.outputTex3d, c = "geometry" => name = Step.outputGeo
      PROVE  Fine(c, SelectOutput(name, carried[c]))
  <2>1. CASE PassesThrough(name)
    BY <1>1, <1>4, <2>1 DEF SelectOutput
  <2>2. CASE ~PassesThrough(name)
    <3>1. PICK set : set = ByStep(Position, at.tick, name)
      OBVIOUS
    <3>2. name \in {Step.outputTex3d, Step.outputGeo}
      BY <1>7
    <3>3. SelectOutput(name, carried[c]) =
            IF set # {} \/ Declared(Position, name)
            THEN [surface |-> Latest(set, name, Cleared), route |-> name] ELSE Nothing
      BY <1>2, <2>2, <3>1, <3>2, SelectedIs
    <3>4. Latest(set, name, Cleared) # Incoming(c)
      BY SurfacesDiffer DEF Latest
    <3>5. name \in NewRoutes(group)[c]
      BY <1>3, <1>7, <2>2 DEF NewRoutes
    <3> QED BY <3>3, <3>4, <3>5 DEF Fine, Nothing
  <2> QED BY <2>1, <2>2
<1>8. Fine("image", NextBundle["image"])
  <2>1. CASE IsVolumeDomain(Step.domain) /\ "outputTex" \notin DOMAIN State.resources
    <3>1. NextBundle["image"] = carried["image"]
      BY <2>1 DEF NextBundle
    <3> QED BY <1>1, <1>4, <3>1
  <2>2. CASE ~(IsVolumeDomain(Step.domain) /\ "outputTex" \notin DOMAIN State.resources)
    <3>1. NextBundle["image"] = StepResult
      BY <2>2 DEF NextBundle
    <3> QED BY <1>2, <2>2, <3>1, StepResultFacts DEF Fine
  <2> QED BY <2>1, <2>2
<1>9. /\ Fine("volume", NextBundle["volume"]) /\ Fine("geometry", NextBundle["geometry"])
  BY <1>7 DEF NextBundle
<1>10. Has(input, "image") => Has(NextBundle, "image")
  <2>1. CASE IsVolumeDomain(Step.domain) /\ "outputTex" \notin DOMAIN State.resources
    BY <2>1 DEF NextBundle, BundleOK, Has
  <2>2. CASE ~(IsVolumeDomain(Step.domain) /\ "outputTex" \notin DOMAIN State.resources)
    BY <2>2 DEF NextBundle, Has
  <2> QED BY <2>1, <2>2
<1>11. Has(input, "volume") => Has(NextBundle, "volume")
  <2>1. CASE PassesThrough(Step.outputTex3d)
    BY <2>1 DEF NextBundle, BundleOK, Has, SelectOutput
  <2>2. CASE ~PassesThrough(Step.outputTex3d)
    BY <1>3, <2>2, DomainsAssumption
  <2> QED BY <2>1, <2>2
<1>12. \E c \in Components : Has(NextBundle, c)
  <2>1. CASE RequiresOutputVolume(Step.domain)
    BY <1>1, <2>1
  <2>2. CASE RequiresOutputImage(Step.domain)
    BY <1>1, <2>2
  <2> QED BY <2>1, <2>2 DEF RequiresOutputVolume, RequiresOutputImage, IsVolumeDomain
<1> QED BY <1>1, <1>5, <1>8, <1>9, <1>10, <1>11, <1>12 DEF BundleOK, Has, Fine

LEMMA StepEndsKeeps == ASSUME IInv, StepEnds PROVE IInv'
<1> DEFINE rejected == \/ StepResult.surface = NoSurface
                       \/ RequiresOutputVolume(Step.domain) /\ ~Has(NextBundle, "volume")
                       \/ RequiresOutputImage(Step.domain) /\ ~Has(NextBundle, "image")
<1>1. CASE rejected
  BY <1>1, ThrowKeeps DEF StepEnds
<1>2. CASE ~rejected
  <2>0. PICK lastStep \in BOOLEAN, lastTick \in BOOLEAN :
          (lastStep <=> Position = Len(group.steps)) /\ (lastTick <=> at.tick + 1 = Ticks)
    OBVIOUS
  <2>1. /\ phase = "pass" /\ ~HasPass
        /\ states' = [states EXCEPT ![Position] =
                        [resources |-> State.resources, selfTex |-> NextSelfTex(StepResult)]]
        /\ carried' = IF lastStep /\ ~lastTick THEN input ELSE NextBundle
        /\ phase' = IF lastStep /\ lastTick THEN "done" ELSE "step"
        /\ at' = Moment(IF lastStep THEN at.tick + 1 ELSE at.tick,
                        IF lastStep THEN 1 ELSE Position + 1, at.pass, at.again)
        /\ group' = group /\ input' = input /\ shared' = shared /\ output' = output /\ log' = log
    BY <1>2, <2>0 DEF StepEnds, TickInput
  <2>2. /\ AtOK /\ LogOK /\ SharedOK /\ StatesOK
        /\ Threads(carried, at.tick, Position)
        /\ BundleOK(carried) /\ Fixed /\ group \in Groups /\ BindingOK /\ PassesOK
    BY <2>1 DEF IInv, Running, RunOK, Fixed
  <2>3. /\ Step \in AllSteps /\ Position \in Positions /\ Position \in Nat /\ at.tick \in Nat
        /\ Len(group.steps) \in Nat /\ 1 \in Positions /\ Positions = 1 .. Len(group.steps)
    BY <2>2, RunningStep, GroupFacts
  <2>4. Fixed'
    BY <2>1, <2>2 DEF Fixed
  <2>5. BundleOK(NextBundle) /\ \E c \in Components : Has(NextBundle, c)
    BY <1>2, <2>1, <2>2, NextBundleOK
  <2>6. Threads(NextBundle, at.tick, Position + 1)
    <3>1. PICK t, p : t = at.tick /\ p = Position
      OBVIOUS
    <3>2. Continues(Threaded(t), Len(group.steps), t)
      BY <2>3, ThreadedUnfolds
    <3>3. p + 1 \in 1 .. Len(group.steps) + 1 /\ p + 1 # 1 /\ (p + 1) - 1 = p
      BY <2>3, <3>1
    <3>4. Threaded(t)[p + 1] = LeftBy(p, t, Threaded(t)[p])
      BY <3>2, <3>3 DEF Continues
    <3>5. \A c \in Components : carried[c].surface = Threaded(t)[p][c]
      BY <2>2, <3>1 DEF Threads
    <3>6. \A c \in Components : NextBundle[c].surface = LeftBy(p, t, Threaded(t)[p])[c]
      BY <2>2, <3>1, <3>5, NextBundleIs
    <3> QED BY <3>1, <3>4, <3>6 DEF Threads
  <2>7. CASE lastStep /\ lastTick
    <3>1. phase' = "done" /\ carried' = NextBundle
      BY <2>1, <2>7
    <3>2. Ticks' - 1 = at.tick /\ Len(group'.steps) + 1 = Position + 1
      BY <2>0, <2>1, <2>3, <2>7, SameTicks
    <3>3. PICK t, p : t = at.tick /\ p = Position + 1
      OBVIOUS
    <3>4. Threaded(t)'[p] = Threaded(t)[p]
      <4>1. p \in 1 .. Len(group.steps) + 1
        BY <2>3, <3>3
      <4> QED BY <2>1, <2>3, <4>1, SameThread
    <3>5. Threads(carried, t, p)'
      BY <2>6, <3>1, <3>3, <3>4 DEF Threads
    <3>6. DoneOK'
      <4>1. BundleOK(carried)' /\ (\E c \in Components : Has(carried, c))'
        BY <2>1, <2>5, <3>1 DEF BundleOK, Has
      <4> QED BY <3>2, <3>3, <3>5, <4>1 DEF DoneOK
    <3> QED BY <2>4, <3>1, <3>6 DEF IInv, Running
  <2>8. CASE ~(lastStep /\ lastTick)
    <3>1. phase' = "step"
      BY <2>1, <2>8
    <3>2. /\ at'.tick = IF lastStep THEN at.tick + 1 ELSE at.tick
          /\ Position' = IF lastStep THEN 1 ELSE Position + 1
          /\ at'.position = Position' /\ at'.pass = at.pass
          /\ at' = Moment(at'.tick, at'.position, at'.pass, at'.again)
      BY <2>1 DEF Moment, Position
    <3>3. Positions' = Positions
      BY <2>1 DEF Positions
    <3>4. Position' \in Positions
      BY <2>0, <2>3, <3>2
    <3>5. AtOK'
      <4>1. at'.tick \in Nat
        BY <2>3, <3>2
      <4>2. at'.pass \in Nat \ {0}
        BY <2>2, <3>2 DEF AtOK
      <4>3. at' = Moment(at'.tick, at'.position, at'.pass, at'.again)
        BY <3>2
      <4>4. Position' \in Positions'
        BY <3>3, <3>4
      <4> QED BY <4>1, <4>2, <4>3, <4>4, Zenon DEF AtOK
    <3>6. LogOK'
      <4>1. \A k \in 1 .. Len(log) :
              log[k].tick < at.tick \/ (log[k].tick = at.tick /\ log[k].position <= Position)
        BY <2>2, <2>3, SMTT(20) DEF LogOK
      <4>2. \A k \in 1 .. Len(log) :
              /\ log[k].position \in 1 .. Len(group.steps) /\ log[k].tick \in Nat
              /\ Len(log[k].outputs) \in Nat \ {0}
        BY <2>2, <2>3 DEF LogOK
      <4>3. \A k \in 1 .. Len(log) :
              log[k].tick < at'.tick \/ (log[k].tick = at'.tick /\ log[k].position < Position')
        BY <2>0, <2>3, <3>2, <4>1, <4>2
      <4> QED BY <2>1, <2>2, <2>3, <3>3, <4>2, <4>3 DEF LogOK, LogIsSequence
    <3>7. SharedOK'
      <4>1. \A r : Latest(AllRenderings(r), r, Cleared)' = Latest(AllRenderings(r), r, Cleared)
        BY <2>1, SameHistory
      <4> QED BY <2>1, <2>2, <4>1, SameHistory DEF SharedOK
    <3>8. StatesOK'
      <4>1. DOMAIN states = Positions
        BY <2>2 DEF StatesOK
      <4>2. /\ states'[Position] = [resources |-> State.resources, selfTex |-> NextSelfTex(StepResult)]
            /\ \A p \in Positions : p # Position => states'[p] = states[p]
            /\ DOMAIN states' = Positions /\ states' = [p \in Positions |-> states'[p]]
        BY <2>1, <2>3, <4>1
      <4>3. ASSUME NEW p \in Positions PROVE KeptOK(p)'
        <5>1. KeptOK(p) /\ states'[p].resources = states[p].resources
          BY <2>2, <4>2 DEF StatesOK, State
        <5> QED BY <2>1, <5>1, SameHistory DEF KeptOK
      <4>4. ASSUME NEW p \in Positions PROVE SelfTexOK(p)'
        <5>1. SelfTexOK(p) /\ p \in Nat /\ p <= Len(group.steps)
          BY <2>2, <2>3 DEF StatesOK
        <5>2. CASE p = Position
          <6>1. StepResult.surface = ResultOf(p, at.tick)
            BY <2>2, <5>2, StepResultIs
          <6>2. states'[p].selfTex # NoSurface => states'[p].selfTex = ResultOf(p, at.tick)
            BY <4>2, <5>2, <6>1 DEF NextSelfTex
          <6>3. (IF p < Position' THEN at'.tick + 1 ELSE at'.tick) = at.tick + 1
            BY <2>3, <3>2, <5>2
          <6>4. at.tick + 1 # 0 /\ (at.tick + 1) - 1 = at.tick
            BY <2>3
          <6> QED BY <2>1, <6>2, <6>3, <6>4, SameHistory DEF SelfTexOK
        <5>3. CASE p # Position
          <6>1. states'[p].selfTex = states[p].selfTex
            BY <4>2, <5>3
          <6>2. (IF p < Position' THEN at'.tick + 1 ELSE at'.tick)
                  = (IF p < Position THEN at.tick + 1 ELSE at.tick)
            BY <2>0, <2>3, <3>2, <5>1, <5>3
          <6> QED BY <2>1, <5>1, <6>1, <6>2, SameHistory DEF SelfTexOK
        <5> QED BY <5>2, <5>3
      <4>5. ASSUME NEW p \in Positions
            PROVE  states'[p] = [resources |-> states'[p].resources, selfTex |-> states'[p].selfTex]
        BY <2>2, <4>2 DEF StatesOK
      <4>6. states' = [p \in Positions |-> [resources |-> states'[p].resources,
                                            selfTex |-> states'[p].selfTex]]
        BY <4>2, <4>5
      <4> QED BY <3>3, <4>3, <4>4, <4>6 DEF StatesOK
    <3>9. Threads(carried, at.tick, Position)'
      <4>1. PICK t, p : t = at'.tick /\ p = Position'
        OBVIOUS
      <4>2. p \in 1 .. Len(group.steps) + 1
        BY <2>3, <3>4, <4>1
      <4>3. Threaded(t)'[p] = Threaded(t)[p]
        BY <2>1, <2>3, <4>2, SameThread
      <4>4. \A c \in Components : carried'[c].surface = Threaded(t)[p][c]
        <5>1. CASE lastStep
          <6>1. carried' = input /\ p = 1
            BY <2>1, <2>8, <3>2, <4>1, <5>1
          <6>2. Continues(Threaded(t), Len(group.steps), t)
            BY <2>3, ThreadedUnfolds
          <6>3. Threaded(t)[1] = [c \in Components |-> input[c].surface]
            BY <4>2, <6>1, <6>2 DEF Continues
          <6> QED BY <6>1, <6>3
        <5>2. CASE ~lastStep
          BY <2>1, <2>6, <3>2, <4>1, <5>2 DEF Threads
        <5> QED BY <5>1, <5>2
      <4>5. Threads(carried, t, p)'
        BY <4>3, <4>4 DEF Threads
      <4> QED BY <4>1, <4>5 DEF Threads
    <3>10. BundleOK(carried)'
      <4>1. BundleOK(input)
        BY <2>2, InputIsOK
      <4>2. BundleOK(carried')
        BY <2>1, <2>5, <4>1
      <4> QED BY <2>1, <4>2 DEF BundleOK, Has
    <3> QED BY <2>4, <3>1, <3>5, <3>6, <3>7, <3>8, <3>9, <3>10 DEF IInv, RunOK
  <2> QED BY <2>7, <2>8
<1> QED BY <1>1, <1>2

-----------------------------------------------------------------------------
\* What a pass finds under a route.

LEMMA LookupFacts ==
    ASSUME group \in Groups, AtOK, SharedOK, StatesOK, NEW route
    PROVE  LET found == Lookup(State, Created, route)
               own   == IF route \in DOMAIN State.resources THEN State.resources[route] ELSE NoSurface
           IN  /\ route \in {"selfTex", "feedback"} => found = State.selfTex
               /\ route \notin {"selfTex", "feedback"} /\ Common(route) =>
                    found = IF route \in DOMAIN Created THEN Created[route] ELSE NoSurface
               /\ route \notin {"selfTex", "feedback"} /\ ~Common(route) => found = own
<1>1. ParticleState \cap {"selfTex", "feedback", "global_accum"} = {}
  BY RoutesAssumption DEF Reserved
<1>2. "global_accum" \in DOMAIN Created => group.loop
  BY <1>1, CreatedFacts DEF Common
<1>3. group.loop => "global_accum" \in DOMAIN Created
  BY CreatedFacts
<1>4. route \in {"selfTex", "feedback"} => Lookup(State, Created, route) = State.selfTex
  BY <1>1 DEF Lookup
<1>5. ASSUME route \notin {"selfTex", "feedback"}, route \in ParticleState
      PROVE  Lookup(State, Created, route) =
               IF route \in DOMAIN Created THEN Created[route] ELSE NoSurface
  BY <1>1, <1>5 DEF Lookup
<1>6. ASSUME route = "global_accum", group.loop
      PROVE  Lookup(State, Created, route) = Created[route] /\ route \in DOMAIN Created
  BY <1>1, <1>3, <1>6 DEF Lookup
<1>7. ASSUME route \notin {"selfTex", "feedback"}, ~Common(route)
      PROVE  Lookup(State, Created, route) =
               IF route \in DOMAIN State.resources THEN State.resources[route] ELSE NoSurface
  <2>1. route \notin ParticleState /\ ~(route = "global_accum" /\ route \in DOMAIN Created)
    BY <1>2, <1>7 DEF Common
  <2> QED BY <1>7, <2>1 DEF Lookup
<1> QED BY <1>4, <1>5, <1>6, <1>7 DEF Common

\* What the running step has a memory of.
Memory(route) == IF Common(route) THEN AllRenderings(route) ELSE Renderings(Position, route)

LEMMA LookupIsLatest ==
    ASSUME group \in Groups, AtOK, LogOK, SharedOK, StatesOK,
           NEW route, route \notin {"selfTex", "feedback"} \cup ThreadRoutes \cup BoundRoutes(Step)
    PROVE  LET found == Lookup(State, Created, route)
           IN  (IF found = NoSurface THEN Cleared ELSE found)
                 = Latest(Memory(route), route, Cleared)
<1>1. Cleared # NoSurface /\ \A k : Rendered(k, route) # NoSurface
  BY SurfacesDiffer
<1>2. ASSUME NEW S PROVE Latest(S, route, Cleared) # NoSurface
  BY <1>1 DEF Latest
<1>3. Latest({}, route, Cleared) = Cleared
  BY DEF Latest
<1>4. CASE Common(route)
  <2>1. Lookup(State, Created, route) = IF route \in DOMAIN Created THEN Created[route] ELSE NoSurface
    BY <1>4, LookupFacts
  <2>2. /\ route \in DOMAIN Created => Created[route] = Latest(AllRenderings(route), route, Cleared)
        /\ route \notin DOMAIN Created => AllRenderings(route) = {}
    BY <1>4, CreatedFacts
  <2> QED BY <1>2, <1>3, <1>4, <2>1, <2>2 DEF Memory
<1>5. CASE ~Common(route)
  <2>1. Lookup(State, Created, route) =
          IF route \in DOMAIN State.resources THEN State.resources[route] ELSE NoSurface
    BY <1>5, LookupFacts
  <2>2. KeptOK(Position)
    BY RunningStep DEF StatesOK
  <2>3. /\ route \in DOMAIN State.resources =>
              State.resources[route] = Latest(Renderings(Position, route), route, Cleared)
        /\ route \notin DOMAIN State.resources => Renderings(Position, route) = {}
    BY <1>5, <2>2 DEF KeptOK, State, Step
  <2> QED BY <1>2, <1>3, <1>5, <2>1, <2>3 DEF Memory
<1> QED BY <1>4, <1>5

-----------------------------------------------------------------------------
\* The history properties hold of a rendering when it is made.

LEMMA NewestIs ==
    ASSUME IInv, Renders
    PROVE  /\ Newest' = Entry /\ log' # <<>>
           /\ \A route : Remembered(route)' = Memory(route)
<1>1. log' = Append(log, Entry) /\ group' = group /\ LogIsSequence /\ AtOK /\ LogOK /\ group \in Groups
  BY DEF Renders, IInv, Fixed, Running, RunOK, LogOK
<1>2. PICK n : n = Len(log)
  OBVIOUS
<1>3. n \in Nat /\ Len(log') = n + 1 /\ log'[n + 1] = Entry
  BY <1>1, <1>2, LogGrows
<1>4. Newest' = Entry
  BY <1>3 DEF Newest
<1>5. log' # <<>>
  <2>1. Len(<<>>) = 0
    OBVIOUS
  <2>2. Len(log') # 0
    BY <1>3
  <2> QED BY <2>1, <2>2
<1>6. PICK t, p, m : t = at.tick /\ p = Position /\ m = Len(group.steps)
  OBVIOUS
<1>7. Newest'.tick = t /\ Newest'.position = p
  BY <1>4, <1>6 DEF Entry
<1>8. ASSUME NEW r
      PROVE  /\ ByGroup(m, t, r)' \in {ByGroup(m, t, r), ByGroup(m, t, r) \cup {n + 1}}
             /\ ByStep(p, t, r)' \in {ByStep(p, t, r), ByStep(p, t, r) \cup {n + 1}}
  BY <1>1, <1>2, RenderingsGrow
<1>9. ASSUME NEW r
      PROVE  /\ ByGroup(m, t, r) = AllRenderings(r) /\ ByStep(p, t, r) = Renderings(p, r)
             /\ n + 1 \notin AllRenderings(r) /\ n + 1 \notin Renderings(p, r)
  <2>1. ByGroup(m, t, r) = AllRenderings(r) /\ ByStep(p, t, r) = Renderings(p, r)
    BY <1>1, <1>6, WholeHistory
  <2>2. AllRenderings(r) \in SUBSET (1 .. n) /\ Renderings(p, r) \in SUBSET (1 .. n)
    BY <1>1, <1>2, WholeHistory
  <2> QED BY <1>3, <2>1, <2>2
<1>10. ASSUME NEW r
       PROVE  /\ ByGroup(m, t, r)' \ {n + 1} = AllRenderings(r)
              /\ ByStep(p, t, r)' \ {n + 1} = Renderings(p, r)
  <2>1. PICK X, Y : X = ByGroup(m, t, r)' /\ Y = ByStep(p, t, r)'
    OBVIOUS
  <2>2. PICK A, B : A = AllRenderings(r) /\ B = Renderings(p, r)
    OBVIOUS
  <2>3. X \in {A, A \cup {n + 1}} /\ Y \in {B, B \cup {n + 1}} /\ n + 1 \notin A /\ n + 1 \notin B
    BY <1>8, <1>9, <2>1, <2>2
  <2>4. X \ {n + 1} = A /\ Y \ {n + 1} = B
    BY <2>3
  <2> QED BY <2>1, <2>2, <2>4
<1>11. ASSUME NEW route PROVE Remembered(route)' = Memory(route)
  <2>1. Len(group'.steps) = m /\ group'.loop = group.loop
    BY <1>1, <1>6
  <2>2. CASE Common(route)
    <3>1. Remembered(route)' = ByGroup(m, t, route)' \ {n + 1}
      BY <1>3, <1>7, <2>1, <2>2 DEF Remembered, Earlier, Common
    <3> QED BY <1>10, <2>2, <3>1 DEF Memory
  <2>3. CASE ~Common(route)
    <3>1. Remembered(route)' = ByStep(p, t, route)' \ {n + 1}
      BY <1>3, <1>7, <2>1, <2>3 DEF Remembered, Earlier, Common
    <3> QED BY <1>6, <1>10, <2>3, <3>1 DEF Memory
  <2> QED BY <2>2, <2>3
<1> QED BY <1>4, <1>5, <1>11

LEMMA RendersSamplesLatest == ASSUME IInv, Renders PROVE SamplesLatestRendering'
<1>1. /\ AtOK /\ LogOK /\ SharedOK /\ StatesOK /\ group \in Groups /\ HasPass /\ group' = group
      /\ \A r \in ThePass.inputs : Samples[r] # NoSurface
  BY DEF Renders, IInv, Fixed, Running, RunOK
<1>2. /\ Newest' = Entry /\ Entry.sampled = Samples /\ Entry.position = Position
      /\ Entry.outputs = ThePass.outputs
  BY NewestIs DEF Entry
<1>3. group'.steps[Newest'.position] = Step
  BY <1>1, <1>2 DEF Step
<1>4. DOMAIN Samples = Sampled(ThePass)
  BY DEF Samples
<1>5. ASSUME NEW r \in Sampled(ThePass), r \notin ThreadRoutes \cup {"selfTex", "feedback"},
             r \notin BoundRoutes(Step)
      PROVE  LET route == IF r = "destination" THEN ThePass.outputs[1] ELSE r
             IN  Samples[r] = Latest(Memory(route), route, Cleared)
  <2>1. Samples[r] = SourceOf(r)
    BY DEF Samples
  <2>2. CASE r = "destination"
    <3>1. PICK route : route = ThePass.outputs[1]
      OBVIOUS
    <3>2. route \notin {"selfTex", "feedback"} \cup ThreadRoutes \cup BoundRoutes(Step)
      BY <1>1, <3>1, PassFacts DEF Reserved
    <3>3. PICK found : found = Lookup(State, Created, route)
      OBVIOUS
    <3>4. (IF found = NoSurface THEN Cleared ELSE found) = Latest(Memory(route), route, Cleared)
      BY <1>1, <3>2, <3>3, LookupIsLatest
    <3> QED BY <2>1, <2>2, <3>1, <3>3, <3>4 DEF SourceOf
  <2>3. CASE r # "destination"
    <3>1. SourceOf(r) = Lookup(State, Created, r) /\ r \in ThePass.inputs
      BY <2>3 DEF SourceOf, Sampled
    <3>2. PICK found : found = Lookup(State, Created, r)
      OBVIOUS
    <3>3. found # NoSurface
      BY <1>1, <2>1, <3>1, <3>2
    <3>4. (IF found = NoSurface THEN Cleared ELSE found) = Latest(Memory(r), r, Cleared)
      BY <1>1, <1>5, <3>2, LookupIsLatest
    <3> QED BY <2>1, <2>3, <3>1, <3>2, <3>3, <3>4
  <2> QED BY <2>2, <2>3
<1>6. ThreadRoutes = {"inputTex", "inputTex3d", "inputGeo"}
  BY ThreadNames
<1>7. ASSUME NEW r \in Sampled(ThePass) \
                    ({"inputTex", "inputTex3d", "inputGeo", "selfTex", "feedback"}
                       \cup DOMAIN Step.surfaces \cup DOMAIN Step.typed)
      PROVE  Samples[r] = Latest(Remembered(SampledRoute(r)), SampledRoute(r), Cleared)'
  <2>1. PICK route : route = SampledRoute(r)'
    OBVIOUS
  <2>2. route = IF r = "destination" THEN ThePass.outputs[1] ELSE r
    BY <1>2, <2>1 DEF SampledRoute
  <2>3. r \notin ThreadRoutes \cup {"selfTex", "feedback"} /\ r \notin BoundRoutes(Step)
    BY <1>6 DEF BoundRoutes
  <2>4. Samples[r] = Latest(Memory(route), route, Cleared)
    BY <1>5, <2>2, <2>3
  <2>5. Remembered(route)' = Memory(route)
    BY NewestIs
  <2>6. Remembered(SampledRoute(r))' = Remembered(route)'
    BY <2>1 DEF Remembered, Earlier, ByGroup, ByStep, Wrote
  <2> QED BY <2>1, <2>4, <2>5, <2>6
<1>8. Newest'.sampled = Samples /\ group'.steps[Newest'.position] = Step
  BY <1>2, <1>3
<1> HIDE DEF Samples
<1> QED BY <1>4, <1>7, <1>8 DEF SamplesLatestRendering

LEMMA RendersThreads == ASSUME IInv, Renders PROVE StepsThreadTheBundle'
<1>1. /\ AtOK /\ LogOK /\ LogIsSequence /\ SharedOK /\ StatesOK /\ group \in Groups /\ HasPass
      /\ BindingOK /\ Threads(carried, at.tick, Position) /\ group' = group
      /\ \A r \in ThePass.inputs : Samples[r] # NoSurface
  BY DEF Renders, IInv, Fixed, Running, RunOK, LogOK
<1>2. /\ Newest' = Entry /\ Entry.sampled = Samples /\ Entry.position = Position
      /\ Entry.tick = at.tick
  BY NewestIs DEF Entry
<1>3. group'.steps[Newest'.position] = Step
  BY <1>1, <1>2 DEF Step
<1>4. DOMAIN Samples = Sampled(ThePass)
  BY DEF Samples
<1>5. \A c \in Components : Threaded(Newest.tick)'[Newest'.position][c] = carried[c].surface
  <2>1. at'.tick = at.tick /\ Position \in 1 .. Position
    <3>1. at'.tick = at.tick
      BY DEF Renders, Moment
    <3>2. Position \in Nat /\ Position >= 1
      BY <1>1, RunningStep DEF Positions
    <3> QED BY <3>1, <3>2
  <2>2. Threaded(at.tick)'[Position] = Threaded(at.tick)[Position]
    BY <1>1, <2>1, RenderingAdds
  <2>3. PICK t : t = at.tick
    OBVIOUS
  <2>4. Threaded(t)'[Position] = Threaded(t)[Position]
    BY <2>1, <2>2, <2>3
  <2> QED BY <1>1, <1>2, <2>3, <2>4 DEF Threads
<1>6. Step \in AllSteps
  BY <1>1, RunningStep
<1>7. /\ ParticleState \cap (Reserved \cup {"global_accum"}) = {}
      /\ BoundRoutes(Step) \cap (Reserved \cup ParticleState \cup {"global_accum"}) = {}
      /\ ThreadRoutes \cap {"selfTex", "feedback", "destination", "global_accum"} = {}
  BY <1>6, RoutesAssumption, ThreadNames DEF Reserved
<1>8. ASSUME NEW r \in Sampled(ThePass), r \in ThreadRoutes \cup BoundRoutes(Step)
      PROVE  r \in DOMAIN State.resources /\ Samples[r] = State.resources[r]
  <2>1. r \notin {"selfTex", "feedback", "destination"} /\ ~Common(r)
    BY <1>7, <1>8 DEF Reserved, Common
  <2>2. Samples[r] = Lookup(State, Created, r) /\ r \in ThePass.inputs
    BY <2>1 DEF Samples, SourceOf, Sampled
  <2>3. Samples[r] = IF r \in DOMAIN State.resources THEN State.resources[r] ELSE NoSurface
    BY <1>1, <2>1, <2>2, LookupFacts
  <2> QED BY <1>1, <2>2, <2>3
<1>9. ASSUME NEW r \in Sampled(ThePass), NEW c \in Components,
             \/ r = ThreadRoute[c]
             \/ r \in DOMAIN Step.surfaces /\ Step.surfaces[r] = "input" /\ c = "image"
             \/ r \in DOMAIN Step.typed /\ Step.typed[r] = c /\ carried[c].surface # NoSurface
      PROVE  Samples[r] = carried[c].surface
  <2>1. r \in ThreadRoutes \cup BoundRoutes(Step)
    BY <1>9 DEF ThreadRoutes, BoundRoutes
  <2>2. r \in DOMAIN State.resources /\ Samples[r] = State.resources[r]
    BY <1>8, <2>1
  <2> QED BY <1>1, <1>9, <2>2 DEF BindingOK, Has
<1> HIDE DEF Components
<1> QED BY <1>2, <1>3, <1>4, <1>5, <1>9 DEF StepsThreadTheBundle

LEMMA RendersFeedback == ASSUME IInv, Renders PROVE FeedbackIsPreviousTick'
<1>1. /\ AtOK /\ LogOK /\ LogIsSequence /\ SharedOK /\ StatesOK /\ group \in Groups /\ HasPass
      /\ \A r \in ThePass.inputs : Samples[r] # NoSurface
  BY DEF Renders, IInv, Fixed, Running, RunOK, LogOK
<1>2. /\ Newest' = Entry /\ Entry.sampled = Samples /\ Entry.position = Position
      /\ Entry.tick = at.tick
  BY NewestIs DEF Entry
<1>3. DOMAIN Samples = Sampled(ThePass)
  BY DEF Samples
<1>4. PICK t, p : t = at.tick /\ p = Position
  OBVIOUS
<1>5. t \in Nat /\ p \in Positions
  BY <1>1, <1>4, RunningStep
<1>6. ASSUME NEW r \in Sampled(ThePass), r \in {"selfTex", "feedback"}
      PROVE  Samples[r] = IF t = 0 THEN Cleared ELSE ResultOf(p, t - 1)
  <2>1. Samples[r] = Lookup(State, Created, r) /\ r \in ThePass.inputs
    BY <1>6 DEF Samples, SourceOf, Sampled
  <2>2. Samples[r] = State.selfTex /\ State.selfTex # NoSurface
    BY <1>1, <1>6, <2>1, LookupFacts
  <2>3. SelfTexOK(p)
    BY <1>1, <1>5 DEF StatesOK
  <2>4. ~(p < Position)
    BY <1>4, <1>1, RunningStep
  <2> QED BY <1>4, <2>2, <2>3, <2>4 DEF SelfTexOK, State
<1>7. t # 0 => ResultOf(p, t - 1)' = ResultOf(p, t - 1)
  <2>1. PICK u : u = t - 1
    OBVIOUS
  <2>2. t # 0 => u \in Nat /\ u < at.tick
    BY <1>4, <1>5, <2>1
  <2>3. t # 0 => ResultOf(p, u)' = ResultOf(p, u)
    BY <1>1, <2>2, RenderingAdds
  <2> QED BY <2>1, <2>3
<1>8. Newest'.tick = t /\ Newest'.position = p /\ Newest'.sampled = Samples
  BY <1>2, <1>4
<1> QED BY <1>3, <1>6, <1>7, <1>8 DEF FeedbackIsPreviousTick

-----------------------------------------------------------------------------
\* The invariant holds, and with it what the history says of the renderings.

History == SamplesLatestRendering /\ StepsThreadTheBundle /\ FeedbackIsPreviousTick

LEMMA HistoryStays ==
    ASSUME Fixed, History, group' = group, input' = input, log' = log PROVE History'
<1>1. Newest' = Newest
  BY DEF Newest
<1>2. SamplesLatestRendering'
  <2>1. \A r : SampledRoute(r)' = SampledRoute(r)
    BY <1>1 DEF SampledRoute
  <2>2. \A r : Latest(Remembered(SampledRoute(r)), SampledRoute(r), Cleared)'
                 = Latest(Remembered(SampledRoute(r)), SampledRoute(r), Cleared)
    BY <1>1, <2>1 DEF Remembered, Earlier, ByGroup, ByStep, Wrote
  <2> QED BY <1>1, <2>2 DEF History, SamplesLatestRendering
<1>3. StepsThreadTheBundle'
  <2>1. Len(group.steps) \in Nat
    BY GroupFacts DEF Fixed
  <2>2. ASSUME NEW t PROVE Threaded(t)' = Threaded(t)
    <3>1. PICK f, g : f = Threaded(t) /\ g = Threaded(t)'
      OBVIOUS
    <3>2. DOMAIN f = 1 .. Len(group.steps) + 1 /\ f = [q \in DOMAIN f |-> f[q]]
      BY <2>1, <3>1, ThreadedUnfolds DEF Continues
    <3>3. DOMAIN g = 1 .. Len(group.steps) + 1 /\ g = [q \in DOMAIN g |-> g[q]]
      BY <2>1, <3>1, ThreadedUnfoldsNext DEF Continues
    <3>4. \A q \in 1 .. Len(group.steps) + 1 : g[q] = f[q]
      BY <2>1, <3>1, SameThread
    <3>5. f = g
      BY <3>2, <3>3, <3>4
    <3> QED BY <3>1, <3>5
  <2>3. PICK t : t = Newest.tick
    OBVIOUS
  <2>4. Threaded(Newest.tick)' = Threaded(Newest.tick)
    BY <1>1, <2>2, <2>3
  <2> QED BY <1>1, <2>4 DEF History, StepsThreadTheBundle
<1>4. FeedbackIsPreviousTick'
  <2>1. PICK t, p : t = Newest.tick - 1 /\ p = Newest.position
    OBVIOUS
  <2>2. ResultOf(p, t)' = ResultOf(p, t)
    BY SameHistory
  <2>3. ResultOf(Newest.position, Newest.tick - 1)' = ResultOf(Newest.position, Newest.tick - 1)
    BY <1>1, <2>1, <2>2
  <2> QED BY <1>1, <2>3 DEF History, FeedbackIsPreviousTick
<1> QED BY <1>2, <1>3, <1>4 DEF History

\* The memory of a group is what the history calls for in every reachable
\* state: of the common surfaces, of each step's own, of selfTex, of what is
\* threaded through the steps; and so was what each rendering sampled.
THEOREM InductiveInvariant == Spec => [](IInv /\ History)
<1>1. Init => IInv /\ History
  BY DEF Init, IInv, Fixed, Running, History, SamplesLatestRendering, StepsThreadTheBundle,
         FeedbackIsPreviousTick
<1>2. IInv /\ History /\ [Next]_vars => IInv' /\ History'
  <2> SUFFICES ASSUME IInv, History, [Next]_vars PROVE IInv' /\ History'
    OBVIOUS
  <2> USE DEF vars
  <2>1. Fixed
    BY DEF IInv
  <2>2. CASE UNCHANGED vars
    BY <2>1, <2>2, StutterKeeps, HistoryStays
  <2>3. CASE ZeroTicks
    BY <2>1, <2>3, ZeroTicksKeeps, HistoryStays DEF ZeroTicks
  <2>4. CASE GroupBegins
    <3>1. group' = group /\ input' = input /\ log' = log
      BY <2>4 DEF GroupBegins, Throw
    <3> QED BY <2>1, <2>4, <3>1, GroupBeginsKeeps, HistoryStays
  <2>5. CASE StepBegins
    <3>1. group' = group /\ input' = input /\ log' = log
      BY <2>5 DEF StepBegins, Throw
    <3> QED BY <2>1, <2>5, <3>1, StepBeginsKeeps, HistoryStays
  <2>6. CASE PassSkipped
    <3>1. group' = group /\ input' = input /\ log' = log
      BY <2>6 DEF PassSkipped
    <3> QED BY <2>1, <2>6, <3>1, PassSkippedKeeps, HistoryStays
  <2>7. CASE Throw
    <3>1. group' = group /\ input' = input /\ log' = log
      BY <2>7 DEF Throw
    <3> QED BY <2>1, <2>7, <3>1, ThrowKeeps, HistoryStays
  <2>8. CASE PassRuns
    <3>1. CASE Throw
      BY <2>7, <3>1
    <3>2. CASE Renders
      BY <3>2, RendersKeeps, RendersSamplesLatest, RendersThreads, RendersFeedback DEF History
    <3> QED BY <2>8, <3>1, <3>2, PassRunsIs
  <2>9. CASE PassFails
    BY <2>7, <2>9 DEF PassFails
  <2>10. CASE StepEnds
    <3>1. group' = group /\ input' = input /\ log' = log
      BY <2>10 DEF StepEnds, Throw
    <3> QED BY <2>1, <2>10, <3>1, StepEndsKeeps, HistoryStays
  <2>11. CASE Ended
    BY <2>2, <2>11 DEF Ended
  <2> QED BY <2>2, <2>3, <2>4, <2>5, <2>6, <2>8, <2>9, <2>10, <2>11 DEF Next
<1> QED BY <1>1, <1>2, PTL DEF Spec

\* Particle state, and global_accum in a loop region, is what any step of the
\* group rendered last, whatever else a step samples is what it rendered last
\* itself, and what nobody has rendered is cleared: for any number of steps,
\* ticks and repeats of a pass.
THEOREM MemoryIsLatestRendering == Spec => []SamplesLatestRendering
BY InductiveInvariant, PTL DEF History

\* The implicit inputs of a step, and the parameters bound to them, are what
\* the step before it left in the same tick, and for the first step of any
\* tick what came into the group.
THEOREM TicksThreadTheBundle == Spec => []StepsThreadTheBundle
BY InductiveInvariant, PTL DEF History

\* selfTex lags a tick, whichever passes of the tick before were skipped.
THEOREM SelfTexLagsOneTick == Spec => []FeedbackIsPreviousTick
BY InductiveInvariant, PTL DEF History

-----------------------------------------------------------------------------
\* What a group hands back.

LEMMA NewRoutesAreNamed ==
    ASSUME NEW g \in Groups, NEW c \in Components, NEW r \in NewRoutes(g)[c]
    PROVE  ~PassesThrough(r)
<1>1. g.steps \in Seq(AllSteps)
  BY GroupsAssumption
<1>2. \A s \in {g.steps[i] : i \in 1 .. Len(g.steps)} : s \in AllSteps
  BY <1>1
<1>3. PassesThrough(r) => r \in Reserved
  BY ThreadNames DEF Reserved
<1>4. CASE c = "image"
  <2>1. CASE r = "outputTex"
    BY <2>1, RoutesAssumption DEF PassesThrough
  <2>2. CASE r # "outputTex"
    <3>1. PICK s \in AllSteps : r \in OtherImages(s)
      BY <1>2, <1>4, <2>2 DEF NewRoutes
    <3>2. PICK p \in PassesOf(s) : r = LastSlot(p)
      BY <3>1 DEF OtherImages
    <3>3. Len(p.outputs) \in Nat \ {0} /\ Routes(p) \cap Reserved = {}
      BY <3>2, RoutesAssumption
    <3>4. r \in Routes(p)
      BY <3>2, <3>3 DEF LastSlot, Routes
    <3> QED BY <1>3, <3>3, <3>4
  <2> QED BY <2>1, <2>2
<1>5. CASE c # "image"
  BY <1>5 DEF NewRoutes, Components
<1> QED BY <1>4, <1>5

LEMMA BundleCanBePublished ==
    ASSUME Fixed, BundleOK(carried), NEW c \in Components, Has(carried, c)
    PROVE  /\ PassesThrough(carried[c].route) <=> carried[c].surface = Incoming(c)
           /\ \A d \in Components \ {c} : Has(carried, d) => carried[c].route # carried[d].route
<1>1. PICK present \in Inputs : input = IncomingBundle(present)
  BY DEF Fixed
<1>2. group \in Groups
  BY DEF Fixed
<1> DEFINE Came(d) == /\ carried[d].surface = Incoming(d)
                      /\ carried[d].route = ThreadRoute[d] /\ PassesThrough(carried[d].route)
           Made(d) == /\ carried[d].surface # Incoming(d)
                      /\ carried[d].route \in NewRoutes(group)[d] /\ ~PassesThrough(carried[d].route)
<1>3. ASSUME NEW d \in Components, Has(carried, d) PROVE Came(d) \/ Made(d)
  <2>1. CASE carried[d] = input[d] /\ Has(input, d)
    BY <1>1, <2>1, InputFacts, ThreadNames DEF Has
  <2>2. CASE carried[d].surface # Incoming(d) /\ carried[d].route \in NewRoutes(group)[d]
    BY <1>2, <2>2, NewRoutesAreNamed
  <2> QED BY <1>3, <2>1, <2>2 DEF BundleOK
<1>4. \A x, y \in Components : x # y => NewRoutes(group)[x] \cap NewRoutes(group)[y] = {}
  BY <1>2, GroupsAssumption
<1>5. ASSUME NEW d \in Components \ {c}, Has(carried, d) PROVE carried[c].route # carried[d].route
  <2>1. CASE Came(c) /\ Came(d)
    BY <2>1, ThreadNames
  <2>2. CASE Made(c) /\ Made(d)
    BY <1>4, <2>2
  <2>3. CASE Came(c) /\ Made(d)
    BY <2>3
  <2>4. CASE Made(c) /\ Came(d)
    BY <2>4
  <2> HIDE DEF Came, Made
  <2> QED BY <1>3, <1>5, <2>1, <2>2, <2>3, <2>4
<1> QED BY <1>3, <1>5

\* A group of any number of steps and ticks hands back what its last tick ended
\* with; it loses no image and no volume, marks as passed through exactly what
\* came in unchanged, and publishes no two components over one route.
THEOREM GroupsHandBackLegalBundles == Spec => []HandsBackLegalBundle
<1>1. IInv => HandsBackLegalBundle
  <2> SUFFICES ASSUME IInv, phase = "done"
               PROVE  /\ \E c \in Components : Has(carried, c)
                      /\ \A c \in {"image", "volume"} : Has(input, c) => Has(carried, c)
                      /\ \A c \in {x \in Components : Has(carried, x)} :
                            /\ PassesThrough(carried[c].route) <=> carried[c].surface = Incoming(c)
                            /\ \A d \in Components \ {c} :
                                  Has(carried, d) => carried[c].route # carried[d].route
                      /\ Ticks > 0 =>
                            \A c \in Components :
                              carried[c].surface = Threaded(Ticks - 1)[Len(group.steps) + 1][c]
    BY DEF HandsBackLegalBundle
  <2>1. Fixed /\ DoneOK
    BY DEF IInv
  <2>2. ASSUME NEW c \in {x \in Components : Has(carried, x)}
        PROVE  /\ PassesThrough(carried[c].route) <=> carried[c].surface = Incoming(c)
               /\ \A d \in Components \ {c} : Has(carried, d) => carried[c].route # carried[d].route
    BY <2>1, BundleCanBePublished DEF DoneOK
  <2> QED BY <2>1, <2>2 DEF DoneOK, BundleOK, Threads
<1> QED BY <1>1, InductiveInvariant, PTL

-----------------------------------------------------------------------------
\* The size of what is rendered together.

LEMMA FirstIsMember ==
    ASSUME NEW S \in SUBSET Nat, S # {}, NEW default PROVE FirstPosition(S, default) \in S
<1> DEFINE R == OpToRel(<, Nat)
<1>1. R = {ss \in Nat \X Nat : ss[1] < ss[2]}
  BY DEF OpToRel
<1>2. IsWellFoundedOn(R, Nat)
  BY NatLessThanWellFounded
<1> HIDE DEF R
<1>3. PICK x \in S : \A y \in S : ~(<<y, x>> \in R)
  BY <1>2, WFMin
<1>4. ASSUME NEW y \in S PROVE x <= y
  <2>1. x \in Nat /\ y \in Nat
    OBVIOUS
  <2>2. y < x => <<y, x>> \in R
    BY <1>1, <2>1
  <2> QED BY <1>3, <2>1, <2>2
<1> QED BY <1>4 DEF FirstPosition

LEMMA OwnersSize ==
    ASSUME group \in Groups, NEW o \in Positions, "global_xyz" \in group.steps[o].textures,
           Len(group.steps) # 1,
           NEW r, \E p \in Positions : r \in group.steps[p].textures,
           \A p \in Positions : r \in group.steps[p].textures =>
              group.steps[p].stateSize # 0 \/ group.steps[p].inherits,
           NEW user
    PROVE  Extent(r, user) = group.steps[StateOwner].stateSize
<1>1. Len(group.steps) \in Nat /\ Positions = 1 .. Len(group.steps) /\ 1 \in Positions
  BY GroupFacts
<1>2. Len(group.steps) > 1
  <2>1. PICK n : n = Len(group.steps)
    OBVIOUS
  <2>2. n \in Nat /\ n # 1 /\ 1 \in 1 .. n
    BY <1>1, <2>1
  <2>3. n > 1
    BY <2>2
  <2> QED BY <2>1, <2>3
<1> DEFINE owners == {p \in Positions : "global_xyz" \in group.steps[p].textures}
           who    == {p \in Positions : r \in group.steps[p].textures}
<1>3. owners \in SUBSET Nat /\ owners # {} /\ who \in SUBSET Nat /\ who # {}
  <2>0. Positions \subseteq Nat
    BY GroupFacts
  <2>1. owners \subseteq Positions /\ who \subseteq Positions
    OBVIOUS
  <2>2. o \in owners
    OBVIOUS
  <2>3. PICK p \in Positions : r \in group.steps[p].textures
    OBVIOUS
  <2>4. p \in who
    BY <2>3
  <2> HIDE DEF owners, who
  <2> QED BY <2>0, <2>1, <2>2, <2>4
<1>4. StateOwner \in owners
  BY <1>3, FirstIsMember DEF StateOwner
<1>5. PICK d : d = FirstPosition(who, user)
  OBVIOUS
<1>6. d \in who
  BY <1>3, <1>5, FirstIsMember
<1>7. PICK size : size = group.steps[StateOwner].stateSize
  OBVIOUS
<1>8. size # 0
  <2>1. group.steps[StateOwner] \in {group.steps[i] : i \in 1 .. Len(group.steps)}
    BY <1>1, <1>4
  <2>2. "global_xyz" \in group.steps[StateOwner].textures
    BY <1>4
  <2> QED BY <1>7, <2>1, <2>2, GroupsAssumption
<1>9. group.steps[d].stateSize # 0 \/ group.steps[d].inherits
  BY <1>6
<1>10. StateSize(d) = size
  <2>1. CASE d = StateOwner
    BY <1>7, <1>8, <2>1 DEF StateSize
  <2>2. CASE d # StateOwner
    BY <1>2, <1>7, <1>8, <1>9, <2>2 DEF StateSize
  <2> QED BY <2>1, <2>2
<1>11. Extent(r, user) = IF StateSize(d) = 0 THEN DefaultSize ELSE StateSize(d)
  BY <1>5 DEF Extent
<1> QED BY <1>7, <1>8, <1>10, <1>11

\* A pass finds no two destinations of different size, however its group is
\* put together, if the particles it renders have an owner in the group or
\* the group is one step.
THEOREM ParticleDestinationsFit == Spec => []MrtDestinationsFit
<1>1. IInv => MrtDestinationsFit
  <2> SUFFICES ASSUME IInv, phase = "pass", HasPass,
                      \/ Len(group.steps) = 1
                      \/ \E p \in Positions : "global_xyz" \in group.steps[p].textures,
                      NEW r \in Routes(ThePass) \cap ParticleState,
                      NEW q \in Routes(ThePass) \cap ParticleState, r # q
               PROVE  Extent(r, Position) = Extent(q, Position)
    BY DEF MrtDestinationsFit, Mismatched
  <2>1. group \in Groups /\ AtOK
    BY DEF IInv, Fixed, Running, RunOK
  <2>2. /\ Len(group.steps) \in Nat /\ Positions = 1 .. Len(group.steps)
        /\ Position \in Positions /\ ThePass \in PassesOf(Step)
    BY <2>1, GroupFacts, RunningStep, PassFacts
  <2>3. CASE Len(group.steps) = 1
    <3>1. Position = 1 /\ Positions = {1}
      BY <2>2, <2>3
    <3>2. ASSUME NEW x PROVE Extent(x, Position) = IF StateSize(1) = 0 THEN DefaultSize ELSE StateSize(1)
      <4>1. PICK who : who = {p \in Positions : x \in group.steps[p].textures}
        OBVIOUS
      <4>2. who = {} \/ who = {1}
        BY <3>1, <4>1
      <4>3. FirstPosition({1}, Position) = 1
        BY DEF FirstPosition
      <4>4. FirstPosition(who, Position) = 1
        BY <3>1, <4>2, <4>3 DEF FirstPosition
      <4> QED BY <4>1, <4>4 DEF Extent
    <3> QED BY <3>2
  <2>4. CASE Len(group.steps) # 1
    <3>1. PICK o \in Positions : "global_xyz" \in group.steps[o].textures
      BY <2>4
    <3>2. ThePass \in RendersParticles(Step)
      BY <2>2 DEF RendersParticles
    <3> DEFINE steps == {group.steps[i] : i \in 1 .. Len(group.steps)}
    <3>3. Step \in steps /\ \A p \in Positions : group.steps[p] \in steps
      BY <2>2 DEF Step
    <3>4. \A x \in Routes(ThePass) \cap ParticleState :
            /\ x \in Step.textures \/ \A e \in steps : "global_xyz" \in e.textures => x \in e.textures
            /\ \A e \in steps : x \in e.textures => e.stateSize # 0 \/ e.inherits
      BY <2>1, <3>2, <3>3, GroupsAssumption
    <3>5. ASSUME NEW x \in Routes(ThePass) \cap ParticleState
          PROVE  Extent(x, Position) = group.steps[StateOwner].stateSize
      <4>1. \E p \in Positions : x \in group.steps[p].textures
        BY <2>2, <3>1, <3>3, <3>4 DEF Step
      <4>2. \A p \in Positions : x \in group.steps[p].textures =>
              group.steps[p].stateSize # 0 \/ group.steps[p].inherits
        BY <3>3, <3>4
      <4>3. PICK user : user = Position
        OBVIOUS
      <4> QED BY <2>1, <2>4, <3>1, <4>1, <4>2, <4>3, OwnersSize
    <3> QED BY <3>5
  <2> QED BY <2>3, <2>4
<1> QED BY <1>1, InductiveInvariant, PTL
=============================================================================
