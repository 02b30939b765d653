------------------------- MODULE GraphExecutorProofs ------------------------
(***************************************************************************)
(* Every pointer that the executor keeps is sound, for any catalog, names  *)
(* and plan that satisfy the assumptions of GraphExecutor: its bundles and *)
(* effect locals are owned and bindable, retain and pin balance, and       *)
(* nothing outlives its last name.  From that the execution implements the *)
(* value semantics of ChainSemantics.                                      *)
(***************************************************************************)
EXTENDS GraphExecutor, NaturalsInduction, WellFoundedInduction,
        FiniteSetTheorems, SequenceTheorems, TLAPS

\* Induction over the naturals, for a set in place of a predicate.
LEMMA SetInduction ==
    ASSUME NEW S, 0 \in S, \A n \in Nat : n \in S => n + 1 \in S
    PROVE  Nat \subseteq S
<1> DEFINE T == Nat \ S
           R == OpToRel(<, Nat)
<1>1. R = {ss \in Nat \X Nat : ss[1] < ss[2]}
  BY DEF OpToRel
<1>2. SUFFICES ASSUME T # {} PROVE FALSE
  OBVIOUS
<1>3. IsWellFoundedOn(R, Nat)
  BY NatLessThanWellFounded
<1>4. T \subseteq Nat
  OBVIOUS
<1> HIDE DEF R, T
<1>5. PICK x \in T : \A y \in T : ~(<<y, x>> \in R)
  BY <1>2, <1>3, <1>4, WFMin
<1> USE DEF T
<1>6. x \in Nat /\ x # 0 /\ x - 1 \in Nat /\ x = (x - 1) + 1
  OBVIOUS
<1>7. x - 1 \in T
  BY <1>6
<1>8. <<x - 1, x>> \in R
  BY <1>1, <1>6
<1> QED
  BY <1>5, <1>7, <1>8

-----------------------------------------------------------------------------
\* The arena between two calls: it owns what is held, and exactly what only a
\* binding holds is retired.  Its names and counters determine it.

Tidy(a) ==
    /\ a \in Arena
    /\ a.owned = {r \in Resources : IsHeld(a, r)}
    /\ a.retired = {r \in Resources : ~IsReferenced(a, r) /\ a.borrow[r] # 0}

LEMMA TidyNames ==
    ASSUME NEW a, Tidy(a), NEW n \in Names
    PROVE  /\ Find(a, n) \in Resources \cup {NoResource}
           /\ Find(a, n) # NoResource =>
                /\ IsReferenced(a, Find(a, n))
                /\ Find(a, n) \in a.owned \ a.retired
BY DEF Tidy, Find, Arena, IsHeld, IsReferenced, HasAlias

LEMMA EmptyTidy == Tidy(EmptyArena)
BY NoResourceAssumption, MaxCountAssumption
   DEF Tidy, EmptyArena, Arena, IsHeld, IsReferenced, HasAlias

\* drop_if_unreferenced after a name has moved from p to another pointee or to
\* none.
LEMMA DropTidy ==
    ASSUME NEW a \in Arena, NEW p \in Resources \cup {NoResource},
           a.owned = {r \in Resources : IsHeld(a, r) \/ r = p},
           a.retired = {r \in Resources : r # p /\ ~IsReferenced(a, r) /\ a.borrow[r] # 0}
    PROVE  LET b == DropIfUnreferenced(a, p)
           IN  Tidy(b) /\ b.named = a.named /\ b.borrow = a.borrow /\ b.pin = a.pin
<1> DEFINE b == DropIfUnreferenced(a, p)
           c == [a EXCEPT !.retired = @ \cup {p}]
<1>1. CASE p = NoResource \/ IsReferenced(a, p)
  <2>1. b = a
    BY <1>1 DEF DropIfUnreferenced
  <2> QED
    BY <1>1, <2>1, NoResourceAssumption DEF Tidy, IsHeld
<1>2. CASE p # NoResource /\ ~IsReferenced(a, p)
  <2>1. p \in Resources /\ p \in a.owned
    BY <1>2
  <2>2. /\ c.owned = a.owned /\ c.retired = a.retired \cup {p}
        /\ c.named = a.named /\ c.borrow = a.borrow /\ c.pin = a.pin
        /\ c \in Arena
    BY <2>1 DEF Arena
  <2>3. b = CollectRetired(c, p)
    BY <1>2 DEF DropIfUnreferenced
  <2>4. \A r : IsReferenced(c, r) <=> IsReferenced(a, r)
    BY <2>2 DEF IsReferenced, HasAlias
  <2>5. CASE a.borrow[p] # 0
    <3>1. b = c
      BY <2>2, <2>3, <2>5 DEF CollectRetired, IsHeld
    <3> QED
      BY <1>2, <2>1, <2>2, <2>4, <2>5, <3>1 DEF Tidy, IsHeld
  <2>6. CASE a.borrow[p] = 0
    <3>0. p \in c.owned /\ p \in c.retired /\ ~IsReferenced(c, p) /\ c.borrow[p] = 0
      BY <1>2, <2>1, <2>2, <2>4, <2>6
    <3>1. b = [c EXCEPT !.owned = @ \ {p}, !.retired = @ \ {p}]
      BY <2>3, <3>0 DEF CollectRetired, IsHeld
    <3>2. /\ b.owned = a.owned \ {p} /\ b.retired = a.retired
          /\ b.named = a.named /\ b.borrow = a.borrow /\ b.pin = a.pin
          /\ b \in Arena
      BY <2>2, <3>1 DEF Arena
    <3>3. \A r : IsReferenced(b, r) <=> IsReferenced(a, r)
      BY <3>2 DEF IsReferenced, HasAlias
    <3>4. p \notin {r \in Resources : IsHeld(a, r)}
      BY <1>2, <2>6 DEF IsHeld
    <3>5. \A r : IsHeld(b, r) <=> IsHeld(a, r)
      BY <3>2, <3>3 DEF IsHeld
    <3>6. b.owned = {r \in Resources : IsHeld(b, r)}
      BY <3>2, <3>4, <3>5
    <3>7. b.retired = {r \in Resources : ~IsReferenced(b, r) /\ b.borrow[r] # 0}
      BY <2>6, <3>2, <3>3
    <3> QED
      BY <3>2, <3>6, <3>7 DEF Tidy
  <2> QED
    BY <2>5, <2>6
<1> QED
  BY <1>1, <1>2

\* insert names a new pointee.
LEMMA InsertTidy ==
    ASSUME NEW a, Tidy(a), NEW n \in Names, NEW r \in Resources \ a.owned
    PROVE  LET b == Insert(a, n, r)
           IN  /\ Tidy(b)
               /\ b.named = [a.named EXCEPT ![n] = r]
               /\ b.borrow = a.borrow /\ b.pin = a.pin
<1> DEFINE p == Find(a, n)
           c == [PushBack(a, r) EXCEPT !.named[n] = r]
<1>1. /\ c.owned = a.owned \cup {r} /\ c.retired = a.retired
      /\ c.named = [a.named EXCEPT ![n] = r]
      /\ c.borrow = a.borrow /\ c.pin = a.pin
      /\ c \in Arena
  BY DEF Tidy, Arena, PushBack
<1>2. p \in Resources \cup {NoResource} /\ p # r
  BY NoResourceAssumption, TidyNames
<1>3. a.borrow[r] = 0 /\ a.pin[r] = 0 /\ r \notin a.retired /\ ~HasAlias(a, r)
  BY DEF Tidy, IsHeld, IsReferenced
<1>4. \A q \in Resources \ {p} : IsReferenced(c, q) <=> IsReferenced(a, q) \/ q = r
  BY <1>1, <1>3, NoResourceAssumption DEF IsReferenced, HasAlias, Tidy, Arena, Find
<1>5. p # NoResource => IsReferenced(a, p)
  BY TidyNames
<1> HIDE DEF c, p
<1>6. c.owned = {q \in Resources : IsHeld(c, q) \/ q = p}
  <2>1. ASSUME NEW q \in Resources PROVE q \in c.owned <=> IsHeld(c, q) \/ q = p
    <3>1. q # p => (IsHeld(c, q) <=> IsHeld(a, q) \/ q = r)
      BY <1>1, <1>4 DEF IsHeld
    <3>2. q = p => IsHeld(a, q)
      BY <1>5, NoResourceAssumption DEF IsHeld
    <3> QED
      BY <1>1, <3>1, <3>2 DEF Tidy
  <2>2. c.owned \subseteq Resources
    BY <1>1 DEF Tidy
  <2> QED
    BY <2>1, <2>2
<1>7. c.retired = {q \in Resources : q # p /\ ~IsReferenced(c, q) /\ c.borrow[q] # 0}
  BY <1>1, <1>2, <1>3, <1>4, <1>5, NoResourceAssumption DEF Tidy
<1>8. Insert(a, n, r) = DropIfUnreferenced(c, p)
  BY DEF Insert, c, p
<1> QED
  BY <1>1, <1>2, <1>6, <1>7, <1>8, DropTidy

\* alias gives another name to a pointee that has a reference.
LEMMA AliasTidy ==
    ASSUME NEW a, Tidy(a), NEW n \in Names, NEW r \in Resources, IsReferenced(a, r)
    PROVE  LET b == Alias(a, n, r)
           IN  /\ Tidy(b)
               /\ b.named = [a.named EXCEPT ![n] = r]
               /\ b.borrow = a.borrow /\ b.pin = a.pin
<1> DEFINE p == Find(a, n)
           c == [a EXCEPT !.named[n] = r]
<1>1. /\ c.owned = a.owned /\ c.retired = a.retired
      /\ c.named = [a.named EXCEPT ![n] = r]
      /\ c.borrow = a.borrow /\ c.pin = a.pin
      /\ c \in Arena
  BY DEF Tidy, Arena
<1>2. p \in Resources \cup {NoResource} /\ r # NoResource
  BY NoResourceAssumption, TidyNames
<1>3. \A q \in Resources \ {p} : IsReferenced(c, q) <=> IsReferenced(a, q)
  BY <1>1, NoResourceAssumption DEF IsReferenced, HasAlias, Tidy, Arena, Find
<1>4. p # NoResource => IsReferenced(a, p)
  BY TidyNames
<1>5. p = r => IsReferenced(c, p)
  BY <1>1 DEF IsReferenced, HasAlias, Tidy, Arena
<1>6. Alias(a, n, r) = IF p = r THEN c ELSE DropIfUnreferenced(c, p)
  BY DEF Alias
<1> HIDE DEF c, p
<1>7. c.owned = {q \in Resources : IsHeld(c, q) \/ q = p}
  <2>1. ASSUME NEW q \in Resources PROVE q \in c.owned <=> IsHeld(c, q) \/ q = p
    <3>1. q # p => (IsHeld(c, q) <=> IsHeld(a, q))
      BY <1>1, <1>3 DEF IsHeld
    <3>2. q = p => IsHeld(a, q)
      BY <1>4, NoResourceAssumption DEF IsHeld
    <3> QED
      BY <1>1, <3>1, <3>2 DEF Tidy
  <2>2. c.owned \subseteq Resources
    BY <1>1 DEF Tidy
  <2> QED
    BY <2>1, <2>2
<1>8. c.retired = {q \in Resources : q # p /\ ~IsReferenced(c, q) /\ c.borrow[q] # 0}
  BY <1>1, <1>2, <1>3, <1>4, NoResourceAssumption DEF Tidy
<1>9. CASE p = r
  <2>1. Tidy(c)
    BY <1>1, <1>5, <1>7, <1>8, <1>9 DEF Tidy, IsHeld
  <2> QED
    BY <1>1, <1>6, <1>9, <2>1
<1>10. CASE p # r
  BY <1>1, <1>2, <1>6, <1>7, <1>8, <1>10, DropTidy
<1> QED
  BY <1>9, <1>10

\* retain of pointees that are referenced and not at the limit of the counter.
LEMMA RetainAllTidy ==
    ASSUME NEW a, Tidy(a), NEW S \in SUBSET Resources,
           \A r \in S : IsReferenced(a, r) /\ a.borrow[r] < MaxCount
    PROVE  LET b == RetainAll(a, S)
           IN  /\ Tidy(b)
               /\ b.named = a.named /\ b.pin = a.pin
               /\ b.borrow = [r \in Resources |-> IF r \in S THEN a.borrow[r] + 1
                                                             ELSE a.borrow[r]]
               /\ b.retired = a.retired
<1> DEFINE b == RetainAll(a, S)
<1>1. /\ b.owned = a.owned /\ b.retired = a.retired
      /\ b.named = a.named /\ b.pin = a.pin
      /\ b.borrow = [r \in Resources |-> IF r \in S THEN a.borrow[r] + 1 ELSE a.borrow[r]]
      /\ b \in Arena
  BY MaxCountAssumption DEF RetainAll, Tidy, Arena
<1>2. \A r : IsReferenced(b, r) <=> IsReferenced(a, r)
  BY <1>1 DEF IsReferenced, HasAlias
<1> HIDE DEF b
<1>3. \A r \in Resources : IsHeld(b, r) <=> IsHeld(a, r)
  BY <1>1, <1>2 DEF IsHeld
<1>4. b.owned = {r \in Resources : IsHeld(b, r)}
  BY <1>1, <1>3 DEF Tidy
<1>5. b.retired = {r \in Resources : ~IsReferenced(b, r) /\ b.borrow[r] # 0}
  BY <1>1, <1>2 DEF Tidy
<1> QED
  BY <1>1, <1>4, <1>5 DEF Tidy, b

\* release of pointees that are borrowed: the last binding of a retired one
\* frees it.
LEMMA ReleaseAllTidy ==
    ASSUME NEW a, Tidy(a), NEW S \in SUBSET Resources, \A r \in S : a.borrow[r] # 0
    PROVE  LET b == ReleaseAll(a, S)
           IN  /\ Tidy(b)
               /\ b.named = a.named /\ b.pin = a.pin
               /\ b.borrow = [r \in Resources |-> IF r \in S THEN a.borrow[r] - 1
                                                             ELSE a.borrow[r]]
<1> DEFINE b == ReleaseAll(a, S)
           c == [a EXCEPT !.borrow = [r \in Resources |-> IF r \in S THEN a.borrow[r] - 1
                                                                     ELSE a.borrow[r]]]
           collected == {r \in S : CollectRetired(c, r) # c}
<1>1. /\ c.owned = a.owned /\ c.retired = a.retired
      /\ c.named = a.named /\ c.pin = a.pin
      /\ c.borrow = [r \in Resources |-> IF r \in S THEN a.borrow[r] - 1 ELSE a.borrow[r]]
      /\ c \in Arena
  BY MaxCountAssumption DEF Tidy, Arena
<1>2. b = [c EXCEPT !.owned = @ \ collected, !.retired = @ \ collected]
  BY DEF ReleaseAll
<1> HIDE DEF c
<1>3. /\ b.owned = a.owned \ collected /\ b.retired = a.retired \ collected
      /\ b.named = c.named /\ b.borrow = c.borrow /\ b.pin = c.pin
      /\ b \in Arena
  BY <1>1, <1>2 DEF Arena
<1>4. \A r : (IsReferenced(c, r) <=> IsReferenced(a, r))
             /\ (IsReferenced(b, r) <=> IsReferenced(a, r))
  BY <1>1, <1>3 DEF IsReferenced, HasAlias
<1>5. collected = {r \in S : r \in a.retired /\ c.borrow[r] = 0}
  <2>1. ASSUME NEW r \in S
        PROVE  CollectRetired(c, r) # c <=> r \in a.owned /\ r \in a.retired /\ ~IsHeld(c, r)
    BY <1>1 DEF CollectRetired, Arena
  <2>2. \A r \in a.retired : r \in a.owned /\ ~IsReferenced(a, r)
    BY DEF Tidy, IsHeld
  <2> QED
    BY <1>4, <2>1, <2>2 DEF IsHeld
<1> HIDE DEF b, collected
<1>6. \A r \in Resources : r \in b.owned <=> IsHeld(b, r)
  BY <1>1, <1>3, <1>4, <1>5, MaxCountAssumption DEF Tidy, IsHeld, Arena
<1>7. \A r \in Resources : r \in b.retired <=> ~IsReferenced(b, r) /\ b.borrow[r] # 0
  BY <1>1, <1>3, <1>4, <1>5, MaxCountAssumption DEF Tidy, Arena
<1>8. Tidy(b)
  BY <1>3, <1>6, <1>7 DEF Tidy, Arena
<1> QED
  BY <1>1, <1>3, <1>8 DEF b

\* Constructing and destroying a ScopedPin.
LEMMA PinTidy ==
    ASSUME NEW a, Tidy(a), NEW r \in Resources, IsReferenced(a, r), a.pin[r] < MaxCount
    PROVE  LET b == Pin(a, r)
           IN  /\ Tidy(b)
               /\ b.named = a.named /\ b.borrow = a.borrow
               /\ b.pin = [a.pin EXCEPT ![r] = a.pin[r] + 1]
<1> DEFINE b == Pin(a, r)
<1>1. a.pin[r] + 1 \in 1 .. MaxCount
  BY MaxCountAssumption DEF Tidy, Arena
<1>2. /\ b.owned = a.owned /\ b.retired = a.retired
      /\ b.named = a.named /\ b.borrow = a.borrow
      /\ b.pin = [a.pin EXCEPT ![r] = a.pin[r] + 1]
      /\ b \in Arena
  BY <1>1 DEF Pin, Tidy, Arena
<1>3. \A q \in Resources : IsReferenced(b, q) <=> IsReferenced(a, q)
  BY <1>1, <1>2 DEF IsReferenced, HasAlias, Tidy, Arena
<1> HIDE DEF b
<1>4. \A q \in Resources : IsHeld(b, q) <=> IsHeld(a, q)
  BY <1>2, <1>3 DEF IsHeld
<1>5. Tidy(b)
  BY <1>2, <1>3, <1>4 DEF Tidy
<1> QED
  BY <1>2, <1>5 DEF b

LEMMA UnpinTidy ==
    ASSUME NEW a, Tidy(a), NEW r \in Resources, a.pin[r] # 0
    PROVE  LET b == Unpin(a, r)
           IN  /\ Tidy(b)
               /\ b.named = a.named /\ b.borrow = a.borrow
               /\ b.pin = [a.pin EXCEPT ![r] = a.pin[r] - 1]
<1> DEFINE c == [a EXCEPT !.pin[r] = @ - 1]
           d == IF IsReferenced(c, r) THEN c ELSE [c EXCEPT !.retired = @ \cup {r}]
<1>1. a.pin[r] - 1 \in 0 .. MaxCount /\ IsReferenced(a, r) /\ r # NoResource
  BY MaxCountAssumption, NoResourceAssumption DEF Tidy, Arena, IsReferenced
<1>2. /\ c.owned = a.owned /\ c.retired = a.retired
      /\ c.named = a.named /\ c.borrow = a.borrow
      /\ c.pin = [a.pin EXCEPT ![r] = a.pin[r] - 1]
      /\ c \in Arena
  BY <1>1 DEF Tidy, Arena
<1>3. \A q \in Resources \ {r} : IsReferenced(c, q) <=> IsReferenced(a, q)
  BY <1>2 DEF IsReferenced, HasAlias, Tidy, Arena
<1>4. Unpin(a, r) = CollectRetired(d, r)
  BY DEF Unpin
<1> HIDE DEF c
<1>5. r \in c.owned /\ r \notin c.retired
  BY <1>1, <1>2 DEF Tidy, IsHeld
<1>6. CASE IsReferenced(c, r)
  <2>1. Unpin(a, r) = c
    BY <1>4, <1>5, <1>6 DEF CollectRetired
  <2>2. \A q \in Resources : IsHeld(c, q) <=> IsHeld(a, q)
    BY <1>1, <1>2, <1>3, <1>6 DEF IsHeld
  <2>3. Tidy(c)
    BY <1>1, <1>2, <1>3, <1>6, <2>2 DEF Tidy
  <2> QED
    BY <1>2, <2>1, <2>3
<1>7. CASE ~IsReferenced(c, r)
  <2>1. Unpin(a, r) = DropIfUnreferenced(c, r)
    BY <1>1, <1>4, <1>7 DEF DropIfUnreferenced
  <2>2. c.owned = {q \in Resources : IsHeld(c, q) \/ q = r}
    <3>1. \A q \in Resources : q # r => (IsHeld(c, q) <=> IsHeld(a, q))
      BY <1>2, <1>3 DEF IsHeld
    <3> QED
      BY <1>2, <1>5, <3>1 DEF Tidy
  <2>3. c.retired = {q \in Resources : q # r /\ ~IsReferenced(c, q) /\ c.borrow[q] # 0}
    BY <1>2, <1>3, <1>5 DEF Tidy
  <2> QED
    BY <1>2, <2>1, <2>2, <2>3, DropTidy
<1> QED
  BY <1>6, <1>7

-----------------------------------------------------------------------------
\* Inserts in sequence.

\* g[i] is the arena after i of the inserts.
StepsOf(g, k, a, routes, new) ==
    g = [i \in 0 .. k |-> IF i = 0 THEN a ELSE Insert(g[i - 1], routes[i], new[i])]

LEMMA StepsExist ==
    ASSUME NEW a, NEW routes, NEW new, NEW n \in Nat
    PROVE  \E g : StepsOf(g, n, a, routes, new)
<1> DEFINE Exist(k) == \E g : StepsOf(g, k, a, routes, new)
           S == {k \in Nat : Exist(k)}
<1>1. Exist(0)
  <2> DEFINE g == [i \in 0 .. 0 |-> a]
  <2>1. StepsOf(g, 0, a, routes, new)
    BY DEF StepsOf
  <2> HIDE DEF g
  <2> QED
    BY <2>1
<1>2. ASSUME NEW k \in Nat, Exist(k) PROVE Exist(k + 1)
  <2>1. PICK g : StepsOf(g, k, a, routes, new)
    BY <1>2
  <2> DEFINE h == [i \in 0 .. k + 1 |->
                     IF i = k + 1 THEN Insert(g[k], routes[k + 1], new[k + 1]) ELSE g[i]]
  <2>2. ASSUME NEW i \in 0 .. k + 1
        PROVE  h[i] = IF i = 0 THEN a ELSE Insert(h[i - 1], routes[i], new[i])
    <3>1. CASE i = 0
      BY <2>1, <3>1 DEF StepsOf
    <3>2. CASE i = k + 1
      BY <3>2
    <3>3. CASE i \in 1 .. k
      <4>1. h[i] = g[i] /\ h[i - 1] = g[i - 1]
        BY <3>3
      <4>2. g[i] = Insert(g[i - 1], routes[i], new[i])
        BY <2>1, <3>3 DEF StepsOf
      <4> QED
        BY <3>3, <4>1, <4>2
    <3> QED
      BY <3>1, <3>2, <3>3
  <2>3. h = [i \in 0 .. k + 1 |-> h[i]]
    OBVIOUS
  <2> HIDE DEF h
  <2>4. StepsOf(h, k + 1, a, routes, new)
    BY <2>2, <2>3 DEF StepsOf
  <2> QED
    BY <2>4
<1> HIDE DEF Exist
<1>3. 0 \in S /\ \A k \in Nat : k \in S => k + 1 \in S
  BY <1>1, <1>2
<1> HIDE DEF S
<1>4. Nat \subseteq S
  BY <1>3, SetInduction
<1> QED
  BY <1>4 DEF Exist, S

LEMMA InsertEachSteps ==
    ASSUME NEW a, NEW routes, NEW new, Len(routes) \in Nat
    PROVE  \E g : /\ StepsOf(g, Len(routes), a, routes, new)
                  /\ InsertEach(a, routes, new) = g[Len(routes)]
<1> DEFINE g == CHOOSE f : StepsOf(f, Len(routes), a, routes, new)
<1>1. StepsOf(g, Len(routes), a, routes, new)
  BY StepsExist
<1>2. InsertEach(a, routes, new) = g[Len(routes)]
  BY DEF InsertEach, StepsOf
<1> HIDE DEF g
<1> QED
  BY <1>1, <1>2

\* What the first k inserts do: the names that were published have one of the
\* new pointees that were inserted under them, the others what they had.
Inserted(b, k, a, routes, new) ==
    /\ Tidy(b)
    /\ b.borrow = a.borrow /\ b.pin = a.pin
    /\ \A n \in Names :
          \/ b.named[n] = a.named[n] /\ \A i \in 1 .. k : routes[i] # n
          \/ \E i \in 1 .. k : routes[i] = n /\ b.named[n] = new[i]

LEMMA InsertEachCorrect ==
    ASSUME NEW a, Tidy(a), NEW routes \in Seq(Names),
           NEW new \in [1 .. Len(routes) -> Resources \ a.owned],
           \A i, j \in 1 .. Len(routes) : new[i] = new[j] => i = j
    PROVE  Inserted(InsertEach(a, routes, new), Len(routes), a, routes, new)
<1> DEFINE m == Len(routes)
<1>1. m \in Nat /\ \A i \in 1 .. m : routes[i] \in Names
  OBVIOUS
<1>2. PICK g : /\ StepsOf(g, m, a, routes, new)
               /\ InsertEach(a, routes, new) = g[m]
  BY <1>1, InsertEachSteps
<1> DEFINE S == {k \in Nat : k <= m => Inserted(g[k], k, a, routes, new)}
<1> HIDE DEF m
<1>3. 0 \in S
  <2>1. g[0] = a
    BY <1>1, <1>2 DEF StepsOf
  <2> QED
    BY <2>1 DEF Inserted
<1>4. ASSUME NEW k \in Nat, k \in S PROVE k + 1 \in S
  <2> SUFFICES ASSUME k + 1 <= m PROVE Inserted(g[k + 1], k + 1, a, routes, new)
    OBVIOUS
  <2> DEFINE r == new[k + 1]
             n0 == routes[k + 1]
  <2>1. Inserted(g[k], k, a, routes, new)
    BY <1>1, <1>4
  <2>2. g[k + 1] = Insert(g[k], n0, r)
    BY <1>1, <1>2 DEF StepsOf
  <2>3. k + 1 \in 1 .. m /\ n0 \in Names
    BY <1>1
  <2>4. r \in Resources /\ r \notin a.owned
    BY <2>3 DEF m
  <2>5. r \notin g[k].owned
    <3>1. ~HasAlias(g[k], r)
      <4>1. ASSUME NEW n \in Names PROVE g[k].named[n] # r
        <5>1. a.named[n] # r
          BY <2>4, NoResourceAssumption, TidyNames DEF Find
        <5>2. \A i \in 1 .. k : i \in 1 .. m /\ i # k + 1
          BY <1>1, <2>3
        <5>3. \A i \in 1 .. k : new[i] # r
          BY <2>3, <5>2 DEF m
        <5> QED
          BY <2>1, <5>1, <5>3 DEF Inserted
      <4> QED
        BY <4>1 DEF HasAlias
    <3>2. g[k].borrow[r] = 0 /\ g[k].pin[r] = 0
      BY <2>1, <2>4 DEF Inserted, Tidy, IsHeld, IsReferenced
    <3> QED
      BY <2>1, <3>1, <3>2 DEF Inserted, Tidy, IsHeld, IsReferenced
  <2> DEFINE b == Insert(g[k], n0, r)
  <2>6. /\ Tidy(b) /\ b.named = [g[k].named EXCEPT ![n0] = r]
        /\ b.borrow = a.borrow /\ b.pin = a.pin
    BY <2>1, <2>3, <2>4, <2>5, InsertTidy DEF Inserted
  <2>7. ASSUME NEW n \in Names
        PROVE  \/ b.named[n] = a.named[n] /\ \A i \in 1 .. k + 1 : routes[i] # n
               \/ \E i \in 1 .. k + 1 : routes[i] = n /\ b.named[n] = new[i]
    <3>1. DOMAIN g[k].named = Names
      BY <2>1 DEF Inserted, Tidy, Arena
    <3>2. CASE n = n0
      BY <1>4, <2>6, <3>1, <3>2
    <3>3. CASE n # n0
      <4>1. b.named[n] = g[k].named[n]
        BY <2>6, <3>1, <3>3
      <4>2. \A i \in 1 .. k + 1 : i \in 1 .. k \/ i = k + 1
        BY <1>4
      <4>3. \A i \in 1 .. k : i \in 1 .. k + 1
        BY <1>4
      <4> QED
        BY <2>1, <3>3, <4>1, <4>2, <4>3 DEF Inserted
    <3> QED
      BY <3>2, <3>3
  <2> HIDE DEF b
  <2>8. g[k + 1] = b
    BY <2>2 DEF b
  <2> QED
    BY <2>6, <2>7, <2>8 DEF Inserted
<1> HIDE DEF S
<1>5. m \in S
  BY <1>1, <1>3, <1>4, SetInduction
<1> QED
  BY <1>1, <1>2, <1>5 DEF S, m

\* Between two steps the arena owns no more pointees than there are names, and
\* the pinned one.
LEMMA OwnedBound ==
    ASSUME NEW a, Tidy(a), NEW p, \A r \in a.owned : HasAlias(a, r) \/ r = p
    PROVE  IsFiniteSet(a.owned) /\ Cardinality(a.owned) <= Cardinality(Names) + 1
<1> DEFINE R == {a.named[n] : n \in Names}
<1>1. a.named \in Surjection(Names, R)
  BY DEF Tidy, Arena, Surjection
<1>2. IsFiniteSet(R) /\ Cardinality(R) <= Cardinality(Names)
  BY <1>1, FS_Surjection, MemoryAssumption
<1>3. IsFiniteSet(R \cup {p}) /\ Cardinality(R \cup {p}) <= Cardinality(R) + 1
  <2>1. Cardinality(R) \in Nat
    BY <1>2, FS_CardinalityType
  <2>2. /\ IsFiniteSet(R \cup {p})
        /\ Cardinality(R \cup {p}) = Cardinality(R) \/ Cardinality(R \cup {p}) = Cardinality(R) + 1
    BY <1>2, FS_AddElement
  <2> QED
    BY <2>1, <2>2
<1>4. a.owned \subseteq R \cup {p}
  BY DEF HasAlias
<1> HIDE DEF R
<1>5. IsFiniteSet(a.owned) /\ Cardinality(a.owned) <= Cardinality(R \cup {p})
  BY <1>3, <1>4, FS_Subset
<1>6. /\ Cardinality(a.owned) \in Nat /\ Cardinality(R \cup {p}) \in Nat
      /\ Cardinality(R) \in Nat /\ Cardinality(Names) \in Nat
  BY <1>2, <1>3, <1>5, FS_CardinalityType, MemoryAssumption
<1> QED
  BY <1>2, <1>3, <1>5, <1>6

\* There is memory for what a step inserts.
LEMMA FreshSequenceExists ==
    ASSUME NEW a, a.owned \subseteq Resources, IsFiniteSet(a.owned),
           Cardinality(a.owned) <= Cardinality(Names) + 1,
           NEW k \in Nat, Cardinality(Names) + 1 + k <= Cardinality(Resources)
    PROVE  /\ FreshSequence(a, k) \in [1 .. k -> Resources \ a.owned]
           /\ \A i, j \in 1 .. k :
                 FreshSequence(a, k)[i] = FreshSequence(a, k)[j] => i = j
<1> DEFINE S == Resources \ a.owned
           n == Cardinality(S)
<1>1. IsFiniteSet(S) /\ n = Cardinality(Resources) - Cardinality(Resources \cap a.owned)
  BY MemoryAssumption, FS_Difference
<1>2. Resources \cap a.owned = a.owned
  OBVIOUS
<1>3. /\ Cardinality(a.owned) \in Nat /\ Cardinality(Names) \in Nat
      /\ Cardinality(Resources) \in Nat
  BY MemoryAssumption, FS_CardinalityType
<1>a. n = Cardinality(Resources) - Cardinality(a.owned)
  BY <1>1, <1>2
<1>b. n \in Nat
  BY <1>1, FS_CardinalityType
<1> HIDE DEF n
<1>4. n \in Nat /\ k <= n
  BY <1>a, <1>b, <1>3
<1> USE DEF n
<1>5. ExistsBijection(1 .. n, S)
  BY <1>1, FS_CardinalityType
<1> HIDE DEF n, S
<1>6. PICK g : g \in Bijection(1 .. n, S)
  BY <1>5 DEF ExistsBijection
<1>7. g \in [1 .. n -> S] /\ \A i, j \in 1 .. n : g[i] = g[j] => i = j
  BY <1>6 DEF Bijection, Injection, IsInjective
<1> DEFINE f == [i \in 1 .. k |-> g[i]]
<1>8. f \in [1 .. k -> S] /\ \A i, j \in 1 .. k : f[i] = f[j] => i = j
  BY <1>4, <1>7
<1> HIDE DEF f
<1> QED
  BY <1>8 DEF FreshSequence, S

\* One insert per route, for a step that starts with no more than the pinned
\* pointee beyond the named ones.
LEMMA InsertAllCorrect ==
    ASSUME NEW a, Tidy(a), NEW routes \in Seq(Names),
           NEW p, \A r \in a.owned : HasAlias(a, r) \/ r = p,
           Cardinality(Names) + 1 + Len(routes) <= Cardinality(Resources)
    PROVE  \E new \in [1 .. Len(routes) -> Resources \ a.owned] :
             /\ \A i, j \in 1 .. Len(routes) : new[i] = new[j] => i = j
             /\ Inserted(InsertAll(a, routes), Len(routes), a, routes, new)
<1> DEFINE new == FreshSequence(a, Len(routes))
<1>1. a.owned \subseteq Resources /\ Len(routes) \in Nat
  BY DEF Tidy
<1>2. IsFiniteSet(a.owned) /\ Cardinality(a.owned) <= Cardinality(Names) + 1
  BY OwnedBound
<1>3. /\ new \in [1 .. Len(routes) -> Resources \ a.owned]
      /\ \A i, j \in 1 .. Len(routes) : new[i] = new[j] => i = j
  BY <1>1, <1>2, FreshSequenceExists
<1>4. InsertAll(a, routes) = InsertEach(a, routes, new)
  BY DEF InsertAll
<1> HIDE DEF new
<1> QED
  BY <1>3, <1>4, InsertEachCorrect

-----------------------------------------------------------------------------
\* The inductive invariant.

Pointers == Resources \cup {NoResource}

InEffect == phase \in {"effect", "pass", "bound"}

\* The hold names in use.
Taken(k) == {HoldNames[i] : i \in 1 .. k}

\* The pointer is null or the arena names it, under one of the names or held.
Secured(a, k, r, names) ==
    r # NoResource => \E n \in names \cup Taken(k) : Find(a, n) = r

\* What the running chain has, and what a suspended one has: the program may
\* publish over everything but the hold names before it resumes.
BundleSecured(a, k, f) ==
    /\ Secured(a, k, f.image, ImageNames)
    /\ Secured(a, k, f.volume, VolumeNames)
    /\ Secured(a, k, f.geometry, GeometryNames)

BundleHeld(a, k, f) ==
    Secured(a, k, f.image, {}) /\ Secured(a, k, f.volume, {}) /\ Secured(a, k, f.geometry, {})

BindingValues ==
    UNION {[S -> {"null", "input"} \cup Surfaces] :
             S \in {{"source"}} \cup {d.parameters : d \in Catalog}}

WaitingStep ==
    {w \in [definition : Catalog, binding : BindingValues, arguments : Seq(Inline)] :
       w.definition # NoEffect => w.binding \in Bindings(w.definition)}

Frame == [image : Pointers, volume : Pointers, geometry : Pointers,
          length : Nat, waiting : Seq(WaitingStep)]

Suspended(f) == f.waiting # <<>> /\ f.waiting[1].arguments # <<>>

StackOK(a, k, fs) ==
    /\ fs \in Seq(Frame) /\ fs # <<>>
    /\ \A i \in 1 .. Len(fs) - 1 : BundleHeld(a, k, fs[i]) /\ Suspended(fs[i])
    /\ ~Suspended(fs[Len(fs)])

\* Between two steps what no name and no pin reaches is gone.
ArenaOK == Tidy(arena) /\ arena.retired = {} /\ HoldersBalance

\* The locals of an effect, all of them.
Locals(d, b, n, a, i, v, g, o, w, r, p) ==
    [definition |-> d, binding |-> b, next |-> n, again |-> a,
     input |-> i, volume |-> v, geometry |-> g, output |-> o,
     wroteOutputTex |-> w, resolved |-> r, published |-> p]

IsRecord(e) ==
    e = Locals(e.definition, e.binding, e.next, e.again, e.input, e.volume,
               e.geometry, e.output, e.wroteOutputTex, e.resolved, e.published)

Needed(route, output) == StillSampled(route) \/ PassesThrough(output)

\* A pass has run since the effect began, and the last one was pass i.
OutputOf(i) ==
    /\ Find(arena, LastSlot(eff.definition.passes[i])) = eff.output
    /\ "outputTex" \notin Routes(eff.definition.passes[i])
    /\ i < eff.next \/ (i = eff.next /\ phase # "effect")
    /\ \A j \in i + 1 .. eff.next - 1 : CanBeSkipped(eff.definition.passes[j])

\* While no pass has published outputTex, the image is the last slot of the
\* last pass that ran, or the input.
ImageSecured ==
    /\ \A j \in 1 .. eff.next - 1 :
          "outputTex" \in Routes(eff.definition.passes[j])
            => CanBeSkipped(eff.definition.passes[j])
    /\ IsVolumeDomain(eff.definition.domain) \/ eff.output = eff.input
         => Secured(arena, holds, eff.input, ImageNames)
    /\ \/ IsVolumeDomain(eff.definition.domain) \/ eff.output = eff.input
       \/ \E i \in 1 .. Len(eff.definition.passes) : OutputOf(i)

LocalsOK ==
    /\ IsRecord(eff)
    /\ eff.definition \in Catalog /\ eff.definition # NoEffect
    /\ eff.binding \in Bindings(eff.definition)
    /\ eff.next \in 1 .. Len(eff.definition.passes) + 1
    /\ phase # "effect" => HasPass /\ \E n \in ThePass.repeats : eff.again \in 1 .. n
    /\ eff.wroteOutputTex \in BOOLEAN
    /\ eff.input = Top.image /\ eff.volume = Top.volume /\ eff.geometry = Top.geometry
    /\ eff.output \in Pointers
    /\ IF phase = "bound" THEN DOMAIN eff.resolved = Sampled(ThePass) /\ Borrowed \subseteq Resources
                          ELSE eff.resolved = <<>>

EffectOK ==
    /\ LocalsOK
    /\ Needed("inputTex3d", eff.definition.outputTex3d)
         => Secured(arena, holds, eff.volume, VolumeNames)
    /\ Needed("inputGeo", eff.definition.outputGeo)
         => Secured(arena, holds, eff.geometry, GeometryNames)
    /\ ~eff.wroteOutputTex => ImageSecured

IInv ==
    /\ phase \in {"chain", "effect", "pass", "bound", "done", "failed"}
    /\ holds \in 0 .. Len(HoldNames) /\ inlines \in 0 .. Len(Inlines)
    /\ ArenaOK
    /\ StackOK(arena, holds, frames)
    /\ InEffect => EffectOK
    /\ ~InEffect => eff = IdleEffect /\ BundleSecured(arena, holds, Top)

-----------------------------------------------------------------------------
\* Names and pointers.

LEMMA NamesFacts ==
    /\ Surfaces \subseteq Names /\ ImageNames \subseteq Names
    /\ VolumeNames \subseteq Names /\ GeometryNames \subseteq Names
    /\ ChainSurfaces \subseteq Surfaces /\ Volumes \subseteq Surfaces
    /\ Geometries \subseteq Surfaces /\ Inline \subseteq Surfaces
    /\ ChainSurfaces \subseteq ImageNames /\ Volumes \subseteq VolumeNames
    /\ Geometries \subseteq GeometryNames /\ "outputTex" \in ImageNames
    /\ GroupVolume \in VolumeNames /\ GroupGeometry \in GeometryNames
    /\ NoRoute \notin Names
    /\ ImageNames \cap VolumeNames = {} /\ ImageNames \cap GeometryNames = {}
    /\ VolumeNames \cap GeometryNames = {}
    /\ Inlines \in Seq(Names) /\ Seeds \in Seq(Names) /\ HoldNames \in Seq(Names)
    /\ Len(Inlines) \in Nat /\ Len(Seeds) \in Nat /\ Len(HoldNames) \in Nat
<1>1. /\ ChainSurfaces \subseteq ImageNames /\ Volumes \subseteq VolumeNames
      /\ Geometries \subseteq GeometryNames /\ "outputTex" \in ImageNames
      /\ GroupVolume \in VolumeNames /\ GroupGeometry \in GeometryNames
  BY DEF ImageNames, VolumeNames, GeometryNames
<1> HIDE DEF ImageNames, VolumeNames, GeometryNames
<1>2. Inlines \in Seq(Names) /\ Seeds \in Seq(Names) /\ HoldNames \in Seq(Names)
  BY NamesAssumption
<1> QED
  BY <1>1, <1>2, NamesAssumption

\* The hold names in use are names of no other kind.
LEMMA TakenFacts ==
    ASSUME NEW k \in 0 .. Len(HoldNames)
    PROVE  /\ Taken(k) \subseteq Names
           /\ Taken(k) \cap Surfaces = {} /\ Taken(k) \cap ImageNames = {}
           /\ Taken(k) \cap VolumeNames = {} /\ Taken(k) \cap GeometryNames = {}
           /\ \A d \in Catalog : \A i \in 0 .. Len(d.passes) : Taken(k) \cap Written(d, i) = {}
           /\ \A i \in k + 1 .. Len(HoldNames) : HoldNames[i] \notin Taken(k)
           /\ \A j \in 0 .. k : Taken(j) \subseteq Taken(k)
<1>1. HoldNames \in Seq(Names) /\ Len(HoldNames) \in Nat
  BY NamesFacts
<1>2. \A i \in 1 .. k : i \in 1 .. Len(HoldNames) /\ HoldNames[i] \in Names
  BY <1>1
<1>3. \A i \in 1 .. Len(HoldNames) :
        /\ HoldNames[i] \notin Surfaces \cup ImageNames \cup VolumeNames \cup GeometryNames
        /\ \A d \in Catalog : \A j \in 0 .. Len(d.passes) : HoldNames[i] \notin Written(d, j)
  BY NamesAssumption
<1>4. \A i, j \in 1 .. Len(HoldNames) : HoldNames[i] = HoldNames[j] => i = j
  BY NamesAssumption
<1>5. \A i \in k + 1 .. Len(HoldNames) : HoldNames[i] \notin Taken(k)
  BY <1>1, <1>2, <1>4 DEF Taken
<1> QED
  BY <1>1, <1>2, <1>3, <1>5 DEF Taken

LEMMA SecuredStays ==
    ASSUME NEW a, NEW b, NEW k \in Nat, NEW l \in Nat, k <= l, NEW r, NEW names,
           Secured(a, k, r, names),
           \A n \in names \cup Taken(k) : Find(b, n) = Find(a, n)
    PROVE  Secured(b, l, r, names)
<1>1. Taken(k) \subseteq Taken(l)
  BY DEF Taken
<1> QED
  BY <1>1 DEF Secured

LEMMA HeldIsSecured ==
    ASSUME NEW a, NEW k, NEW f, BundleHeld(a, k, f)
    PROVE  BundleSecured(a, k, f)
BY DEF BundleHeld, BundleSecured, Secured

LEMMA BundleHeldStays ==
    ASSUME NEW a, NEW b, NEW k \in Nat, NEW l \in Nat, k <= l, NEW f,
           BundleHeld(a, k, f), \A n \in Taken(k) : Find(b, n) = Find(a, n)
    PROVE  BundleHeld(b, l, f)
BY SecuredStays DEF BundleHeld

\* What is secured is named, so it can be bound, pinned and named again.
LEMMA SecuredIsNamed ==
    ASSUME NEW a, Tidy(a), NEW k \in 0 .. Len(HoldNames), NEW names \in SUBSET Names,
           NEW r, Secured(a, k, r, names), r # NoResource
    PROVE  r \in Resources /\ HasAlias(a, r) /\ IsReferenced(a, r) /\ r \in a.owned \ a.retired
<1>1. PICK n \in names \cup Taken(k) : Find(a, n) = r
  BY DEF Secured
<1>2. n \in Names
  BY <1>1, TakenFacts
<1> QED
  BY <1>1, <1>2, TidyNames DEF HasAlias, Find

\* A stack whose suspended frames are held stays so when no hold name moves.
LEMMA StackStays ==
    ASSUME NEW a, NEW b, NEW k \in Nat, NEW l \in Nat, k <= l, NEW fs,
           StackOK(a, k, fs), \A n \in Taken(k) : Find(b, n) = Find(a, n)
    PROVE  StackOK(b, l, fs)
BY BundleHeldStays DEF StackOK

LEMMA StackTop ==
    ASSUME NEW a, NEW k, NEW fs, StackOK(a, k, fs)
    PROVE  /\ Len(fs) \in Nat \ {0} /\ fs[Len(fs)] \in Frame
           /\ fs \in [1 .. Len(fs) -> Frame]
<1>1. fs \in Seq(Frame) /\ fs # <<>>
  BY DEF StackOK
<1>2. Len(fs) \in Nat /\ Len(fs) # 0
  BY <1>1, EmptySeq, LenProperties
<1> QED
  BY <1>1, <1>2, LenProperties, ElementOfSeq

\* The running frame is replaced.
LEMMA StackReplaced ==
    ASSUME NEW a, NEW b, NEW k \in Nat, NEW fs, StackOK(a, k, fs),
           \A n \in Taken(k) : Find(b, n) = Find(a, n),
           NEW f \in Frame, ~Suspended(f)
    PROVE  LET gs == [fs EXCEPT ![Len(fs)] = f]
           IN  StackOK(b, k, gs) /\ Len(gs) = Len(fs) /\ gs[Len(gs)] = f
<1> DEFINE gs == [fs EXCEPT ![Len(fs)] = f]
<1>1. Len(fs) \in Nat \ {0} /\ fs \in [1 .. Len(fs) -> Frame]
  BY StackTop
<1>2. fs \in Seq(Frame)
  BY DEF StackOK
<1>3. /\ gs \in Seq(Frame) /\ Len(gs) = Len(fs)
      /\ \A j \in 1 .. Len(fs) : gs[j] = IF j = Len(fs) THEN f ELSE fs[j]
  BY <1>1, <1>2, ExceptSeq
<1> HIDE DEF gs
<1>4. gs[Len(gs)] = f /\ \A i \in 1 .. Len(gs) - 1 : gs[i] = fs[i]
  <2> DEFINE m == Len(fs)
  <2>1. m \in Nat \ {0} /\ Len(gs) = m /\ \A j \in 1 .. m : gs[j] = IF j = m THEN f ELSE fs[j]
    BY <1>1, <1>3
  <2> HIDE DEF m
  <2> QED
    BY <2>1
<1>5. gs # <<>>
  BY <1>1, <1>3, EmptySeq
<1>6. \A i \in 1 .. Len(fs) - 1 : BundleHeld(b, k, fs[i]) /\ Suspended(fs[i])
  BY BundleHeldStays DEF StackOK
<1>7. StackOK(b, k, gs)
  BY <1>3, <1>4, <1>5, <1>6 DEF StackOK
<1> QED
  BY <1>3, <1>4, <1>7 DEF gs

\* A stack of one empty bundle.
LEMMA EmptyStack ==
    ASSUME NEW a, NEW k
    PROVE  /\ StackOK(a, k, <<EmptyFrame>>)
           /\ BundleSecured(a, k, EmptyFrame) /\ EmptyFrame \in Frame
<1>1. EmptyFrame \in Frame /\ EmptyFrame.waiting = <<>>
  BY DEF EmptyFrame, Frame, Pointers
<1>2. <<EmptyFrame>> \in Seq(Frame) /\ Len(<<EmptyFrame>>) = 1 /\ <<EmptyFrame>> # <<>>
  BY <1>1
<1>3. <<EmptyFrame>>[1] = EmptyFrame
  OBVIOUS
<1>4. BundleSecured(a, k, EmptyFrame)
  BY DEF BundleSecured, Secured, EmptyFrame
<1> QED
  BY <1>1, <1>2, <1>3, <1>4 DEF StackOK, Suspended

-----------------------------------------------------------------------------
\* The arena of the executor between two steps.

\* One binding of each pointee of a set, one pin of one pointee.
Balanced(a, lent, pinned) ==
    \A r \in Resources : /\ a.borrow[r] = IF r \in lent THEN 1 ELSE 0
                         /\ a.pin[r] = IF r = pinned THEN 1 ELSE 0

Lent == IF phase = "bound" THEN Borrowed ELSE {}

Pinned == IF InEffect THEN eff.input ELSE NoResource

LEMMA BalancedArena == HoldersBalance <=> Balanced(arena, Lent, Pinned)
BY NoResourceAssumption DEF HoldersBalance, Balanced, Lent, Pinned, InEffect

\* Between two bindings nothing is retired, and what is owned has a name or
\* the pin.
LEMMA QuietArena ==
    ASSUME NEW a, Tidy(a), NEW p, Balanced(a, {}, p)
    PROVE  a.retired = {} /\ \A r \in a.owned : HasAlias(a, r) \/ r = p
BY DEF Tidy, Balanced, IsHeld, IsReferenced

\* A step that leaves the counters and the effect alone keeps the balance.
LEMMA ArenaStays ==
    ASSUME IInv, phase = "chain", phase' \in {"chain", "done", "failed"},
           Tidy(arena'), arena'.borrow = arena.borrow, arena'.pin = arena.pin
    PROVE  ArenaOK'
<1>1. Balanced(arena, {}, NoResource)
  BY BalancedArena DEF IInv, ArenaOK, Lent, Pinned, InEffect
<1>2. Balanced(arena', {}, NoResource)
  BY <1>1 DEF Balanced
<1>3. arena'.retired = {}
  BY <1>2, QuietArena
<1>4. HoldersBalance'
  BY <1>2, NoResourceAssumption DEF HoldersBalance, Balanced
<1> QED
  BY <1>3, <1>4 DEF ArenaOK

\* What is published under some names leaves the others.
LEMMA InsertedElsewhere ==
    ASSUME NEW a, NEW b, NEW routes \in Seq(Names), NEW new,
           Inserted(b, Len(routes), a, routes, new),
           NEW names \in SUBSET Names,
           \A i \in 1 .. Len(routes) : routes[i] \notin names
    PROVE  \A n \in names : Find(b, n) = Find(a, n)
BY DEF Inserted, Find

-----------------------------------------------------------------------------
\* Holding a bundle.

LEMMA HoldCorrect ==
    ASSUME NEW a, Tidy(a), NEW r \in Pointers, r # NoResource => IsReferenced(a, r),
           NEW k \in Nat, k + Held(r) <= Len(HoldNames)
    PROVE  LET b == Hold(a, r, k)
           IN  /\ Tidy(b) /\ b.borrow = a.borrow /\ b.pin = a.pin
               /\ \A n \in Names :
                     (\A i \in k + 1 .. Len(HoldNames) : n # HoldNames[i])
                        => Find(b, n) = Find(a, n)
               /\ Secured(b, k + Held(r), r, {})
<1>1. HoldNames \in Seq(Names) /\ Len(HoldNames) \in Nat
  BY NamesFacts
<1>2. CASE r = NoResource
  BY <1>2 DEF Hold, Secured
<1>3. CASE r # NoResource
  <2> DEFINE h == HoldNames[k + 1]
             b == Alias(a, h, r)
  <2>1. k + 1 \in 1 .. Len(HoldNames) /\ Held(r) = 1 /\ h \in Names /\ r \in Resources
    BY <1>1, <1>3 DEF Held, Pointers
  <2>2. /\ Tidy(b) /\ b.named = [a.named EXCEPT ![h] = r]
        /\ b.borrow = a.borrow /\ b.pin = a.pin
    BY <1>3, <2>1, AliasTidy
  <2>3. Hold(a, r, k) = b
    BY <1>3 DEF Hold
  <2>4. a.named \in [Names -> Resources \cup {NoResource}]
    BY DEF Tidy, Arena
  <2>5. h \in Taken(k + 1)
    BY <2>1 DEF Taken
  <2>6. \A n \in Names : n # h => b.named[n] = a.named[n]
    BY <2>2, <2>4
  <2>7. b.named[h] = r
    BY <2>1, <2>2, <2>4
  <2>8. k + 1 \in k + 1 .. Len(HoldNames)
    BY <2>1
  <2> HIDE DEF b
  <2>9. Secured(b, k + 1, r, {})
    BY <2>5, <2>7 DEF Secured, Find
  <2>10. \A n \in Names :
           (\A i \in k + 1 .. Len(HoldNames) : n # HoldNames[i]) => Find(b, n) = Find(a, n)
    BY <2>6, <2>8 DEF Find
  <2> QED
    BY <2>1, <2>2, <2>3, <2>9, <2>10
<1> QED
  BY <1>2, <1>3

LEMMA HeldTyped == \A r : Held(r) \in {0, 1}
BY DEF Held

\* The hold lambda on the three components.
LEMMA HoldBundleCorrect ==
    ASSUME IInv, phase = "chain", holds + HoldsOf(Top) <= Len(HoldNames)
    PROVE  LET b == HoldBundle(arena, Top)
               l == holds + HoldsOf(Top)
           IN  /\ l \in 0 .. Len(HoldNames) /\ holds <= l
               /\ Tidy(b) /\ b.borrow = arena.borrow /\ b.pin = arena.pin
               /\ \A n \in Taken(holds) : Find(b, n) = Find(arena, n)
               /\ \A n \in Names \ Taken(Len(HoldNames)) : Find(b, n) = Find(arena, n)
               /\ BundleHeld(b, l, Top)
<1> DEFINE f == Top
           k1 == holds + Held(f.image)
           k2 == k1 + Held(f.volume)
           k3 == k2 + Held(f.geometry)
           a1 == Hold(arena, f.image, holds)
           a2 == Hold(a1, f.volume, k1)
           a3 == Hold(a2, f.geometry, k2)
           M == Len(HoldNames)
           Others == Names \ Taken(M)
<1>1. /\ f \in Frame /\ BundleSecured(arena, holds, f) /\ Tidy(arena)
      /\ holds \in 0 .. M
  BY StackTop DEF IInv, Top, InEffect, ArenaOK
<1>2. f.image \in Pointers /\ f.volume \in Pointers /\ f.geometry \in Pointers
  BY <1>1 DEF Frame
<1>3. HoldBundle(arena, Top) = a3
  BY DEF HoldBundle
<1>4. holds + HoldsOf(Top) = k3 /\ k3 <= M
  BY <1>1, HeldTyped DEF HoldsOf
<1>5. M \in Nat /\ HoldNames \in Seq(Names)
  BY NamesFacts
<1>6. /\ holds \in 0 .. M /\ k1 \in 0 .. M /\ k2 \in 0 .. M /\ k3 \in 0 .. M
      /\ holds <= k1 /\ k1 <= k2 /\ k2 <= k3 /\ k3 <= M
      /\ holds \in Nat /\ k1 \in Nat /\ k2 \in Nat /\ k3 \in Nat
  <2>1. Held(f.image) \in {0, 1} /\ Held(f.volume) \in {0, 1} /\ Held(f.geometry) \in {0, 1}
    BY HeldTyped
  <2> HIDE DEF M
  <2> QED
    BY <1>1, <1>4, <1>5, <2>1
<1> HIDE DEF f
<1>7. /\ VolumeNames \subseteq Names /\ GeometryNames \subseteq Names /\ ImageNames \subseteq Names
  BY NamesFacts
<1>8. \A k \in 0 .. M : \A i \in k + 1 .. M :
         HoldNames[i] \notin Taken(k) \cup VolumeNames \cup GeometryNames
  <2>1. ASSUME NEW k \in 0 .. M, NEW i \in k + 1 .. M
        PROVE HoldNames[i] \notin Taken(k) \cup VolumeNames \cup GeometryNames
    <3>1. i \in 1 .. M
      BY <1>5
    <3>2. HoldNames[i] \notin VolumeNames \cup GeometryNames
      BY <3>1, NamesAssumption
    <3> QED
      BY <3>2, TakenFacts
  <2> QED
    BY <2>1
<1>9. \A k \in 0 .. M : Taken(k) \subseteq Names
  BY TakenFacts
<1>17. \A k \in 0 .. M : \A i \in k + 1 .. M : HoldNames[i] \notin Others
  <2>1. \A k \in 0 .. M : \A i \in k + 1 .. M : i \in 1 .. M
    BY <1>5
  <2> QED
    BY <2>1 DEF Taken
<1> HIDE DEF Others
<1>18. Others \subseteq Names
  BY DEF Others
<1>10. /\ Tidy(a1) /\ a1.borrow = arena.borrow /\ a1.pin = arena.pin
       /\ \A n \in Taken(holds) \cup VolumeNames \cup GeometryNames \cup Others :
             Find(a1, n) = Find(arena, n)
       /\ Secured(a1, k1, f.image, {})
  <2>1. f.image # NoResource => IsReferenced(arena, f.image)
    BY <1>1, <1>7, SecuredIsNamed DEF BundleSecured
  <2> HIDE DEF k2, k3, a2, a3
  <2>2. /\ Tidy(a1) /\ a1.borrow = arena.borrow /\ a1.pin = arena.pin
        /\ \A n \in Names : (\A i \in holds + 1 .. M : n # HoldNames[i])
                              => Find(a1, n) = Find(arena, n)
        /\ Secured(a1, k1, f.image, {})
    BY <1>1, <1>2, <1>6, <2>1, HoldCorrect
  <2> HIDE DEF a1
  <2>3. \A n \in Taken(holds) \cup VolumeNames \cup GeometryNames \cup Others :
           n \in Names /\ \A i \in holds + 1 .. M : n # HoldNames[i]
    BY <1>6, <1>7, <1>8, <1>9, <1>17, <1>18
  <2> QED
    BY <2>2, <2>3
<1> HIDE DEF a1
<1>11. /\ Tidy(a2) /\ a2.borrow = arena.borrow /\ a2.pin = arena.pin
       /\ \A n \in Taken(k1) \cup GeometryNames \cup Others : Find(a2, n) = Find(a1, n)
       /\ Secured(a2, k2, f.volume, {})
  <2>1. Secured(a1, holds, f.volume, VolumeNames)
    BY <1>1, <1>6, <1>10, SecuredStays DEF BundleSecured
  <2>2. f.volume # NoResource => IsReferenced(a1, f.volume)
    BY <1>6, <1>7, <1>10, <2>1, SecuredIsNamed
  <2> HIDE DEF k1, k3, a3
  <2>3. /\ Tidy(a2) /\ a2.borrow = a1.borrow /\ a2.pin = a1.pin
        /\ \A n \in Names : (\A i \in k1 + 1 .. M : n # HoldNames[i])
                              => Find(a2, n) = Find(a1, n)
        /\ Secured(a2, k2, f.volume, {})
    BY <1>2, <1>6, <1>10, <2>2, HoldCorrect
  <2> HIDE DEF a2
  <2>4. \A n \in Taken(k1) \cup GeometryNames \cup Others :
           n \in Names /\ \A i \in k1 + 1 .. M : n # HoldNames[i]
    BY <1>6, <1>7, <1>8, <1>9, <1>17, <1>18
  <2> QED
    BY <1>10, <2>3, <2>4
<1> HIDE DEF a2
<1>12. /\ Tidy(a3) /\ a3.borrow = arena.borrow /\ a3.pin = arena.pin
       /\ \A n \in Taken(k2) \cup Others : Find(a3, n) = Find(a2, n)
       /\ Secured(a3, k3, f.geometry, {})
  <2>0. \A n \in GeometryNames \cup Taken(holds) : Find(a2, n) = Find(arena, n)
    <3>1. Taken(holds) \subseteq Taken(k1)
      BY <1>6 DEF Taken
    <3> QED
      BY <1>10, <1>11, <3>1
  <2>1. Secured(a2, holds, f.geometry, GeometryNames)
    BY <1>1, <1>6, <2>0, SecuredStays DEF BundleSecured
  <2>2. f.geometry # NoResource => IsReferenced(a2, f.geometry)
    BY <1>6, <1>7, <1>11, <2>1, SecuredIsNamed
  <2> HIDE DEF k1, k2
  <2>3. /\ Tidy(a3) /\ a3.borrow = a2.borrow /\ a3.pin = a2.pin
        /\ \A n \in Names : (\A i \in k2 + 1 .. M : n # HoldNames[i])
                              => Find(a3, n) = Find(a2, n)
        /\ Secured(a3, k3, f.geometry, {})
    BY <1>2, <1>6, <1>11, <2>2, HoldCorrect
  <2> HIDE DEF a3
  <2>4. \A n \in Taken(k2) \cup Others :
           n \in Names /\ \A i \in k2 + 1 .. M : n # HoldNames[i]
    BY <1>6, <1>8, <1>9, <1>17, <1>18
  <2> QED
    BY <1>11, <2>3, <2>4
<1> HIDE DEF a3, k1, k2, k3
<1>13. Taken(holds) \subseteq Taken(k1) /\ Taken(k1) \subseteq Taken(k2)
  BY <1>6 DEF Taken
<1>14. \A n \in Taken(holds) \cup Others : Find(a3, n) = Find(arena, n)
  BY <1>10, <1>11, <1>12, <1>13
<1>15. Secured(a3, k3, f.image, {}) /\ Secured(a3, k3, f.volume, {})
  <2>1. Secured(a2, k2, f.image, {})
    BY <1>6, <1>10, <1>11, SecuredStays
  <2> QED
    BY <1>6, <1>11, <1>12, <2>1, SecuredStays
<1>16. BundleHeld(a3, k3, f)
  BY <1>12, <1>15 DEF BundleHeld
<1> QED
  BY <1>3, <1>4, <1>6, <1>12, <1>14, <1>16 DEF f, Others

-----------------------------------------------------------------------------
\* Borrows and the pin go.

\* What is lent, and the pin, within an effect.
LEMMA EffectArena ==
    ASSUME IInv, InEffect
    PROVE  /\ Balanced(arena, Lent, eff.input)
           /\ eff.input \in Pointers
           /\ Lent \in SUBSET Resources
           /\ Lent = Borrowed
<1>1. Balanced(arena, Lent, eff.input)
  BY BalancedArena DEF IInv, ArenaOK, Pinned
<1>2. eff.input \in Pointers
  <2>1. eff.input = Top.image /\ Top \in Frame
    BY StackTop DEF IInv, EffectOK, LocalsOK, Top
  <2> QED
    BY <2>1 DEF Frame
<1>3. phase # "bound" => Borrowed = {}
  <2>1. phase # "bound" => eff.resolved = <<>>
    BY DEF IInv, EffectOK, LocalsOK
  <2>2. DOMAIN << >> = {}
    OBVIOUS
  <2> QED
    BY <2>1, <2>2 DEF Borrowed
<1>4. Lent \in SUBSET Resources
  BY DEF Lent, IInv, EffectOK, LocalsOK, InEffect
<1> QED
  BY <1>1, <1>2, <1>3, <1>4 DEF Lent

\* unpin, and what the destructor of ScopedPin does.
LEMMA UnpinInputCorrect ==
    ASSUME NEW a, Tidy(a), NEW r \in Pointers, Balanced(a, {}, r)
    PROVE  LET b == UnpinInput(a, r)
           IN  Tidy(b) /\ b.named = a.named /\ Balanced(b, {}, NoResource)
<1>1. CASE r = NoResource
  BY <1>1 DEF UnpinInput
<1>2. CASE r # NoResource
  <2>1. r \in Resources /\ a.pin[r] = 1
    BY <1>2 DEF Pointers, Balanced
  <2> DEFINE b == Unpin(a, r)
  <2>2. /\ Tidy(b) /\ b.named = a.named /\ b.borrow = a.borrow
        /\ b.pin = [a.pin EXCEPT ![r] = a.pin[r] - 1]
    BY <2>1, UnpinTidy
  <2>3. a.pin \in [Resources -> 0 .. MaxCount]
    BY DEF Tidy, Arena
  <2>4. UnpinInput(a, r) = b
    BY <1>2 DEF UnpinInput
  <2> HIDE DEF b
  <2>5. Balanced(b, {}, NoResource)
    BY <2>1, <2>2, <2>3, NoResourceAssumption DEF Balanced
  <2> QED
    BY <2>2, <2>4, <2>5
<1> QED
  BY <1>1, <1>2

\* release_borrowed.
LEMMA ReleaseLentCorrect ==
    ASSUME NEW a, Tidy(a), NEW S \in SUBSET Resources, NEW p, Balanced(a, S, p)
    PROVE  LET b == ReleaseAll(a, S)
           IN  Tidy(b) /\ b.named = a.named /\ Balanced(b, {}, p)
<1> DEFINE b == ReleaseAll(a, S)
<1>1. \A r \in S : a.borrow[r] # 0
  BY DEF Balanced
<1>2. /\ Tidy(b) /\ b.named = a.named /\ b.pin = a.pin
      /\ b.borrow = [r \in Resources |-> IF r \in S THEN a.borrow[r] - 1 ELSE a.borrow[r]]
  BY <1>1, ReleaseAllTidy
<1> HIDE DEF b
<1>3. Balanced(b, {}, p)
  BY <1>2 DEF Balanced
<1> QED
  BY <1>2, <1>3 DEF b

\* A throw leaves the arena with names alone.
LEMMA ThrowKeeps ==
    ASSUME IInv, phase \in {"chain", "effect", "pass", "bound"}, Throw
    PROVE  IInv'
<1>1. /\ frames' = <<EmptyFrame>> /\ eff' = IdleEffect /\ phase' = "failed"
      /\ holds' = holds /\ inlines' = inlines
  BY DEF Throw
<1>2. Tidy(arena') /\ Balanced(arena', {}, NoResource)
  <2>1. CASE phase = "chain"
    <3>1. arena' = arena
      BY <2>1 DEF Throw
    <3> QED
      BY <2>1, <3>1, BalancedArena DEF IInv, ArenaOK, Lent, Pinned, InEffect
  <2>2. CASE phase # "chain"
    <3>1. InEffect
      BY <2>2 DEF InEffect
    <3>2. /\ Balanced(arena, Borrowed, eff.input) /\ eff.input \in Pointers
          /\ Borrowed \in SUBSET Resources /\ Tidy(arena)
      BY <3>1, EffectArena DEF IInv, ArenaOK
    <3> DEFINE b == ReleaseAll(arena, Borrowed)
    <3>3. Tidy(b) /\ Balanced(b, {}, eff.input)
      BY <3>2, ReleaseLentCorrect
    <3>4. arena' = UnpinInput(b, eff.input)
      BY <2>2 DEF Throw
    <3> HIDE DEF b
    <3> QED
      BY <3>2, <3>3, <3>4, UnpinInputCorrect
  <2> QED
    BY <2>1, <2>2
<1>3. ArenaOK'
  BY <1>1, <1>2, QuietArena, NoResourceAssumption DEF ArenaOK, HoldersBalance, Balanced
<1>4. StackOK(arena', holds', frames') /\ BundleSecured(arena', holds', Top')
  <2>1. Top' = EmptyFrame
    BY <1>1 DEF Top
  <2> QED
    BY <1>1, <2>1, EmptyStack
<1> QED
  BY <1>1, <1>3, <1>4 DEF IInv, InEffect

-----------------------------------------------------------------------------
\* The steps of a chain.

\* The running frame goes on to the next step, the suspended ones wait.
LEMMA TopAdvances ==
    ASSUME IInv, phase = "chain", phase' = "chain", NEW f \in Frame, SetTop(f),
           ~Suspended(f), BundleSecured(arena', holds, f),
           Tidy(arena'), arena'.borrow = arena.borrow, arena'.pin = arena.pin,
           \A n \in Taken(holds) : Find(arena', n) = Find(arena, n),
           eff' = IdleEffect, holds' = holds, inlines' = inlines
    PROVE  IInv'
<1>1. ArenaOK'
  BY ArenaStays
<1>2. StackOK(arena, holds, frames) /\ holds \in Nat
  BY NamesFacts DEF IInv
<1>3. frames' = [frames EXCEPT ![Len(frames)] = f]
  BY DEF SetTop
<1>4. StackOK(arena', holds, frames') /\ frames'[Len(frames')] = f
  <2> DEFINE gs == [frames EXCEPT ![Len(frames)] = f]
  <2>1. StackOK(arena', holds, gs) /\ gs[Len(gs)] = f
    BY <1>2, StackReplaced
  <2>2. frames' = gs
    BY <1>3
  <2> HIDE DEF gs
  <2> QED
    BY <2>1, <2>2
<1>5. BundleSecured(arena', holds', Top')
  BY <1>4 DEF Top
<1> QED
  BY <1>1, <1>4, <1>5 DEF IInv, InEffect

\* The running frame and what it carries.
LEMMA RunningFrame ==
    ASSUME IInv
    PROVE  /\ Top \in Frame /\ Top.image \in Pointers /\ Top.volume \in Pointers
           /\ Top.geometry \in Pointers /\ Top.length \in Nat /\ Top.waiting \in Seq(WaitingStep)
           /\ Tidy(arena) /\ holds \in 0 .. Len(HoldNames) /\ holds \in Nat
           /\ StackOK(arena, holds, frames)
           /\ phase = "chain" => eff = IdleEffect /\ BundleSecured(arena, holds, Top)
<1>1. Top \in Frame
  BY StackTop DEF IInv, Top
<1>2. /\ Top.image \in Pointers /\ Top.volume \in Pointers
      /\ Top.geometry \in Pointers /\ Top.length \in Nat /\ Top.waiting \in Seq(WaitingStep)
  BY <1>1 DEF Frame
<1> QED
  BY <1>1, <1>2, NamesFacts DEF IInv, ArenaOK, InEffect

LEMMA FoundSecured ==
    ASSUME NEW a, Tidy(a), NEW k, NEW names \in SUBSET Names, NEW n \in names
    PROVE  Find(a, n) \in Pointers /\ Secured(a, k, Find(a, n), names)
BY TidyNames DEF Secured, Pointers

LEMMA AdvancedFrame ==
    ASSUME NEW f, NEW i, NEW v, NEW g, NEW l, NEW w,
           f = [image |-> i, volume |-> v, geometry |-> g, length |-> l, waiting |-> w]
    PROVE  Advanced(f) = [image |-> i, volume |-> v, geometry |-> g,
                          length |-> l + 1, waiting |-> w]
BY DEF Advanced

LEMMA NextChainKeeps ==
    ASSUME IInv, NextChain
    PROVE  IInv'
<1>1. /\ frames' = <<EmptyFrame>> /\ phase = "chain" /\ phase' = "chain"
      /\ arena' = arena /\ eff' = eff /\ holds' = holds /\ inlines' = inlines
  BY DEF NextChain, AtEnd
<1>2. ArenaOK'
  BY <1>1, ArenaStays DEF IInv, ArenaOK
<1>3. StackOK(arena', holds', frames') /\ BundleSecured(arena', holds', Top')
  <2>1. Top' = EmptyFrame
    BY <1>1 DEF Top
  <2> QED
    BY <1>1, <2>1, EmptyStack
<1> QED
  BY <1>1, <1>2, <1>3 DEF IInv, InEffect

LEMMA ReadStepKeeps ==
    ASSUME IInv, NEW s \in ChainSurfaces, ReadStep(s)
    PROVE  IInv'
<1>1. phase = "chain"
  BY DEF ReadStep, AtStep
<1>2. CASE Find(arena, s) = NoResource
  BY <1>1, <1>2, ThrowKeeps DEF ReadStep
<1>3. CASE Find(arena, s) # NoResource
  <2> DEFINE e == [EmptyFrame EXCEPT !.image = Find(arena, s)]
             f == Advanced(e)
  <2>0. e = [image |-> Find(arena, s), volume |-> NoResource, geometry |-> NoResource,
             length |-> 0, waiting |-> <<>>]
    BY DEF EmptyFrame
  <2>1. f = [image |-> Find(arena, s), volume |-> NoResource, geometry |-> NoResource,
             length |-> 0 + 1, waiting |-> <<>>]
    <3> HIDE DEF e
    <3> QED
      BY <2>0, AdvancedFrame
  <2>2. /\ SetTop(f) /\ arena' = arena /\ eff' = eff /\ phase' = phase
        /\ holds' = holds /\ inlines' = inlines
    BY <1>3 DEF ReadStep
  <2>3. /\ Tidy(arena) /\ eff = IdleEffect
    BY <1>1, RunningFrame
  <2>4. Find(arena, s) \in Pointers /\ Secured(arena, holds, Find(arena, s), ImageNames)
    BY <2>3, FoundSecured, NamesFacts
  <2>5. f \in Frame /\ ~Suspended(f)
    <3> HIDE DEF f
    <3>1. NoResource \in Pointers /\ 0 + 1 \in Nat /\ <<>> \in Seq(WaitingStep)
      BY DEF Pointers
    <3>2. f.waiting = <<>>
      BY <2>1
    <3> QED
      BY <2>1, <2>4, <3>1, <3>2 DEF Frame, Suspended
  <2>6. BundleSecured(arena, holds, f)
    BY <2>1, <2>4 DEF BundleSecured, Secured
  <2> HIDE DEF f
  <2> QED
    BY <1>1, <2>2, <2>3, <2>5, <2>6, TopAdvances
<1> QED
  BY <1>2, <1>3

LEMMA Read3DStepKeeps ==
    ASSUME IInv, NEW v \in Volumes, NEW g \in Geometries, Read3DStep(v, g)
    PROVE  IInv'
<1>1. phase = "chain"
  BY DEF Read3DStep, AtStep
<1>2. CASE Find(arena, v) = NoResource
  BY <1>1, <1>2, ThrowKeeps DEF Read3DStep
<1>3. CASE Find(arena, v) # NoResource
  <2> DEFINE e == [EmptyFrame EXCEPT !.volume = Find(arena, v), !.geometry = Find(arena, g)]
             f == Advanced(e)
  <2>0. e = [image |-> NoResource, volume |-> Find(arena, v), geometry |-> Find(arena, g),
             length |-> 0, waiting |-> <<>>]
    <3> DEFINE e1 == [EmptyFrame EXCEPT !.volume = Find(arena, v)]
    <3>1. e1 = [image |-> NoResource, volume |-> Find(arena, v), geometry |-> NoResource,
                length |-> 0, waiting |-> <<>>]
      BY DEF EmptyFrame
    <3>2. e = [e1 EXCEPT !.geometry = Find(arena, g)]
      OBVIOUS
    <3> HIDE DEF e, e1
    <3> QED
      BY <3>1, <3>2
  <2>1. f = [image |-> NoResource, volume |-> Find(arena, v), geometry |-> Find(arena, g),
             length |-> 0 + 1, waiting |-> <<>>]
    <3> HIDE DEF e
    <3> QED
      BY <2>0, AdvancedFrame
  <2>2. /\ SetTop(f) /\ arena' = arena /\ eff' = eff /\ phase' = phase
        /\ holds' = holds /\ inlines' = inlines
    BY <1>3 DEF Read3DStep
  <2>3. /\ Tidy(arena) /\ eff = IdleEffect
    BY <1>1, RunningFrame
  <2>4. /\ Find(arena, v) \in Pointers /\ Secured(arena, holds, Find(arena, v), VolumeNames)
        /\ Find(arena, g) \in Pointers /\ Secured(arena, holds, Find(arena, g), GeometryNames)
    BY <2>3, FoundSecured, NamesFacts
  <2>5. f \in Frame /\ ~Suspended(f)
    <3> HIDE DEF f
    <3>1. NoResource \in Pointers /\ 0 + 1 \in Nat /\ <<>> \in Seq(WaitingStep)
      BY DEF Pointers
    <3>2. f.waiting = <<>>
      BY <2>1
    <3> QED
      BY <2>1, <2>4, <3>1, <3>2 DEF Frame, Suspended
  <2>6. BundleSecured(arena, holds, f)
    BY <2>1, <2>4 DEF BundleSecured, Secured
  <2> HIDE DEF f
  <2> QED
    BY <1>1, <2>2, <2>3, <2>5, <2>6, TopAdvances
<1> QED
  BY <1>2, <1>3

\* alias moves one name.
LEMMA AliasCorrect ==
    ASSUME NEW a, Tidy(a), NEW n \in Names, NEW r \in Resources, IsReferenced(a, r)
    PROVE  LET b == Alias(a, n, r)
           IN  /\ Tidy(b) /\ b.borrow = a.borrow /\ b.pin = a.pin
               /\ Find(b, n) = r
               /\ \A m \in Names : m # n => Find(b, m) = Find(a, m)
<1> DEFINE b == Alias(a, n, r)
<1>1. /\ Tidy(b) /\ b.borrow = a.borrow /\ b.pin = a.pin
      /\ b.named = [a.named EXCEPT ![n] = r]
  BY AliasTidy
<1>2. a.named \in [Names -> Resources \cup {NoResource}]
  BY DEF Tidy, Arena
<1> HIDE DEF b
<1>3. Find(b, n) = r /\ \A m \in Names : m # n => Find(b, m) = Find(a, m)
  BY <1>1, <1>2 DEF Find
<1> QED
  BY <1>1, <1>3 DEF b

\* The running frame one step further carries the same bundle.
LEMMA TopAdvanced ==
    ASSUME IInv
    PROVE  /\ Advanced(Top) \in Frame /\ Advanced(Top).waiting = Top.waiting
           /\ \A a : BundleSecured(a, holds, Advanced(Top)) <=> BundleSecured(a, holds, Top)
<1>1. /\ Top \in Frame
  BY RunningFrame
<1>2. PICK i \in Pointers, v \in Pointers, g \in Pointers, l \in Nat, w \in Seq(WaitingStep) :
         Top = [image |-> i, volume |-> v, geometry |-> g, length |-> l, waiting |-> w]
  BY <1>1 DEF Frame
<1>3. Advanced(Top) = [image |-> i, volume |-> v, geometry |-> g, length |-> l + 1, waiting |-> w]
  BY <1>2, AdvancedFrame
<1>4. l + 1 \in Nat
  OBVIOUS
<1> QED
  BY <1>2, <1>3, <1>4 DEF Frame, BundleSecured

LEMMA WriteStepKeeps ==
    ASSUME IInv, NEW s \in ChainSurfaces, WriteStep(s)
    PROVE  IInv'
<1>1. phase = "chain" /\ Top.waiting = <<>>
  BY DEF WriteStep, AtStep
<1>2. CASE Top.image = NoResource
  BY <1>1, <1>2, ThrowKeeps DEF WriteStep
<1>3. CASE Top.image # NoResource
  <2>1. /\ SetTop(Advanced(Top)) /\ arena' = Alias(arena, s, Top.image)
        /\ eff' = eff /\ phase' = phase /\ holds' = holds /\ inlines' = inlines
    BY <1>3 DEF WriteStep
  <2>2. /\ Tidy(arena) /\ eff = IdleEffect /\ BundleSecured(arena, holds, Top)
        /\ holds \in 0 .. Len(HoldNames) /\ holds \in Nat
    BY <1>1, RunningFrame
  <2>3. /\ s \in Names /\ s \in ImageNames /\ s \in Surfaces
        /\ ImageNames \subseteq Names /\ VolumeNames \subseteq Names /\ GeometryNames \subseteq Names
        /\ s \notin VolumeNames /\ s \notin GeometryNames
    BY NamesFacts
  <2>4. s \notin Taken(holds) /\ Taken(holds) \subseteq Names
    BY <2>2, <2>3, TakenFacts
  <2>5. Top.image \in Resources /\ IsReferenced(arena, Top.image)
    BY <1>3, <2>2, <2>3, SecuredIsNamed DEF BundleSecured
  <2>6. /\ Tidy(arena') /\ arena'.borrow = arena.borrow /\ arena'.pin = arena.pin
        /\ Find(arena', s) = Top.image
        /\ \A m \in Names : m # s => Find(arena', m) = Find(arena, m)
    BY <2>1, <2>2, <2>3, <2>5, AliasCorrect
  <2>7. BundleSecured(arena', holds, Top)
    <3>1. Secured(arena', holds, Top.image, ImageNames)
      BY <2>3, <2>6 DEF Secured
    <3>2. \A n \in VolumeNames \cup GeometryNames \cup Taken(holds) : Find(arena', n) = Find(arena, n)
      BY <2>3, <2>4, <2>6
    <3>3. /\ Secured(arena', holds, Top.volume, VolumeNames)
          /\ Secured(arena', holds, Top.geometry, GeometryNames)
      BY <2>2, <3>2, SecuredStays DEF BundleSecured
    <3> QED
      BY <3>1, <3>3 DEF BundleSecured
  <2>8. \A n \in Taken(holds) : Find(arena', n) = Find(arena, n)
    BY <2>4, <2>6
  <2>9. Advanced(Top) \in Frame /\ ~Suspended(Advanced(Top))
    BY <1>1, TopAdvanced DEF Suspended
  <2>10. BundleSecured(arena', holds, Advanced(Top))
    BY <2>7, TopAdvanced
  <2> QED
    BY <1>1, <2>1, <2>2, <2>6, <2>8, <2>9, <2>10, TopAdvances
<1> QED
  BY <1>2, <1>3

\* One half of write3d.
LEMMA AliasBundleCorrect ==
    ASSUME NEW a, Tidy(a), NEW n \in Names \cup {NoRoute}, NEW r \in Pointers,
           r # NoResource => IsReferenced(a, r)
    PROVE  LET b == AliasBundle(a, n, r)
           IN  /\ Tidy(b) /\ b.borrow = a.borrow /\ b.pin = a.pin
               /\ \A m \in Names : m # n => Find(b, m) = Find(a, m)
               /\ n = NoRoute \/ r = NoResource \/ Find(b, n) = r
<1>1. CASE n = NoRoute \/ r = NoResource
  BY <1>1 DEF AliasBundle
<1>2. CASE ~(n = NoRoute \/ r = NoResource)
  <2>1. n \in Names /\ r \in Resources /\ IsReferenced(a, r)
    BY <1>2 DEF Pointers
  <2>2. AliasBundle(a, n, r) = Alias(a, n, r)
    BY <1>2 DEF AliasBundle
  <2> QED
    BY <2>1, <2>2, AliasCorrect
<1> QED
  BY <1>1, <1>2

LEMMA Write3DStepKeeps ==
    ASSUME IInv, NEW v \in Volumes \cup {NoRoute}, NEW g \in Geometries \cup {NoRoute},
           Write3DStep(v, g)
    PROVE  IInv'
<1> DEFINE b == AliasBundle(arena, v, Top.volume)
           c == AliasBundle(b, g, Top.geometry)
<1>1. /\ phase = "chain" /\ Top.waiting = <<>>
      /\ SetTop(Advanced(Top)) /\ arena' = c
      /\ eff' = eff /\ phase' = phase /\ holds' = holds /\ inlines' = inlines
  BY DEF Write3DStep, AtStep
<1>2. /\ Tidy(arena) /\ eff = IdleEffect /\ BundleSecured(arena, holds, Top)
      /\ holds \in 0 .. Len(HoldNames) /\ holds \in Nat
      /\ Top.volume \in Pointers /\ Top.geometry \in Pointers
  BY <1>1, RunningFrame
<1>3. /\ ImageNames \subseteq Names /\ VolumeNames \subseteq Names /\ GeometryNames \subseteq Names
      /\ v \in Names \cup {NoRoute} /\ g \in Names \cup {NoRoute}
      /\ v \notin ImageNames \cup GeometryNames /\ g \notin ImageNames \cup VolumeNames
      /\ v \in VolumeNames \cup {NoRoute} /\ g \in GeometryNames \cup {NoRoute}
      /\ NoRoute \notin Names
  <2>1. v \in VolumeNames \cup {NoRoute} /\ g \in GeometryNames \cup {NoRoute}
    BY NamesFacts
  <2> QED
    BY <2>1, NamesFacts
<1>4. Taken(holds) \subseteq Names /\ v \notin Taken(holds) /\ g \notin Taken(holds)
  BY <1>2, <1>3, TakenFacts
<1>5. /\ Tidy(b) /\ b.borrow = arena.borrow /\ b.pin = arena.pin
      /\ \A m \in Names : m # v => Find(b, m) = Find(arena, m)
      /\ v = NoRoute \/ Top.volume = NoResource \/ Find(b, v) = Top.volume
  <2>1. Top.volume # NoResource => IsReferenced(arena, Top.volume)
    BY <1>2, <1>3, SecuredIsNamed DEF BundleSecured
  <2> QED
    BY <1>2, <1>3, <2>1, AliasBundleCorrect
<1> HIDE DEF b
<1>6. BundleSecured(b, holds, Top)
  <2>1. \A n \in ImageNames \cup GeometryNames \cup Taken(holds) : Find(b, n) = Find(arena, n)
    BY <1>3, <1>4, <1>5
  <2>2. Secured(b, holds, Top.image, ImageNames) /\ Secured(b, holds, Top.geometry, GeometryNames)
    BY <1>2, <2>1, SecuredStays DEF BundleSecured
  <2>3. Secured(b, holds, Top.volume, VolumeNames)
    <3>1. CASE v = NoRoute \/ Top.volume = NoResource
      <4>1. v = NoRoute => \A n \in VolumeNames \cup Taken(holds) : Find(b, n) = Find(arena, n)
        BY <1>3, <1>4, <1>5
      <4>2. v = NoRoute => Secured(b, holds, Top.volume, VolumeNames)
        BY <1>2, <4>1, SecuredStays DEF BundleSecured
      <4> QED
        BY <3>1, <4>2 DEF Secured
    <3>2. CASE v # NoRoute /\ Find(b, v) = Top.volume
      BY <1>3, <3>2 DEF Secured
    <3> QED
      BY <1>5, <3>1, <3>2
  <2> QED
    BY <2>2, <2>3 DEF BundleSecured
<1>7. /\ Tidy(c) /\ c.borrow = b.borrow /\ c.pin = b.pin
      /\ \A m \in Names : m # g => Find(c, m) = Find(b, m)
      /\ g = NoRoute \/ Top.geometry = NoResource \/ Find(c, g) = Top.geometry
  <2>1. Top.geometry # NoResource => IsReferenced(b, Top.geometry)
    BY <1>2, <1>3, <1>5, <1>6, SecuredIsNamed DEF BundleSecured
  <2> QED
    BY <1>2, <1>3, <1>5, <2>1, AliasBundleCorrect
<1> HIDE DEF c
<1>8. BundleSecured(c, holds, Top)
  <2>1. \A n \in ImageNames \cup VolumeNames \cup Taken(holds) : Find(c, n) = Find(b, n)
    BY <1>3, <1>4, <1>7
  <2>2. Secured(c, holds, Top.image, ImageNames) /\ Secured(c, holds, Top.volume, VolumeNames)
    BY <1>2, <1>6, <2>1, SecuredStays DEF BundleSecured
  <2>3. Secured(c, holds, Top.geometry, GeometryNames)
    <3>1. CASE g = NoRoute \/ Top.geometry = NoResource
      <4>1. g = NoRoute => \A n \in GeometryNames \cup Taken(holds) : Find(c, n) = Find(b, n)
        BY <1>3, <1>4, <1>7
      <4>2. g = NoRoute => Secured(c, holds, Top.geometry, GeometryNames)
        BY <1>2, <1>6, <4>1, SecuredStays DEF BundleSecured
      <4> QED
        BY <3>1, <4>2 DEF Secured
    <3>2. CASE g # NoRoute /\ Find(c, g) = Top.geometry
      BY <1>3, <3>2 DEF Secured
    <3> QED
      BY <1>7, <3>1, <3>2
  <2> QED
    BY <2>2, <2>3 DEF BundleSecured
<1>9. \A n \in Taken(holds) : Find(c, n) = Find(arena, n)
  BY <1>3, <1>4, <1>5, <1>7
<1>10. /\ Advanced(Top) \in Frame /\ ~Suspended(Advanced(Top))
       /\ BundleSecured(c, holds, Advanced(Top))
  BY <1>1, <1>8, TopAdvanced DEF Suspended
<1> QED
  BY <1>1, <1>2, <1>5, <1>7, <1>9, <1>10, TopAdvances

LEMMA FinishKeeps ==
    ASSUME IInv, NEW s \in ChainSurfaces, Finish(s)
    PROVE  IInv'
<1>1. phase = "chain"
  BY DEF Finish, AtEnd
<1>2. CASE Find(arena, s) = NoResource
  BY <1>1, <1>2, ThrowKeeps DEF Finish
<1>3. CASE Find(arena, s) # NoResource
  <2>1. /\ arena' = arena /\ frames' = frames /\ eff' = eff /\ phase' = "done"
        /\ holds' = holds /\ inlines' = inlines
    BY <1>3 DEF Finish
  <2>2. ArenaOK'
    BY <1>1, <2>1, ArenaStays, RunningFrame
  <2>3. Top' = Top
    BY <2>1 DEF Top
  <2> QED
    BY <1>1, <2>1, <2>2, <2>3 DEF IInv, InEffect
<1> QED
  BY <1>2, <1>3

-----------------------------------------------------------------------------
\* Chain arguments.

\* The running chain is suspended under the chain of an argument.
LEMMA StackPushed ==
    ASSUME NEW a, NEW b, NEW k \in Nat, NEW l \in Nat, k <= l, NEW fs, StackOK(a, k, fs),
           \A n \in Taken(k) : Find(b, n) = Find(a, n),
           NEW f \in Frame, BundleHeld(b, l, f), Suspended(f)
    PROVE  LET gs == Append([fs EXCEPT ![Len(fs)] = f], EmptyFrame)
           IN  StackOK(b, l, gs) /\ gs[Len(gs)] = EmptyFrame
<1> DEFINE m  == Len(fs)
           hs == [fs EXCEPT ![Len(fs)] = f]
           gs == Append(hs, EmptyFrame)
<1>1. m \in Nat \ {0}
  BY StackTop
<1>2. fs \in Seq(Frame)
  BY DEF StackOK
<1>3. /\ hs \in Seq(Frame) /\ Len(hs) = m
      /\ \A j \in 1 .. m : hs[j] = IF j = m THEN f ELSE fs[j]
  BY <1>1, <1>2, ExceptSeq
<1>4. EmptyFrame \in Frame /\ ~Suspended(EmptyFrame)
  BY EmptyStack DEF EmptyFrame, Suspended
<1> HIDE DEF hs
<1>5. /\ gs \in Seq(Frame) /\ gs # <<>> /\ Len(gs) = m + 1
      /\ gs[m + 1] = EmptyFrame /\ \A j \in 1 .. m : gs[j] = hs[j]
  BY <1>3, <1>4, AppendProperties
<1> HIDE DEF gs
<1>6. \A i \in 1 .. m - 1 : BundleHeld(b, l, fs[i]) /\ Suspended(fs[i])
  BY BundleHeldStays DEF StackOK
<1> HIDE DEF m
<1>7. \A i \in 1 .. Len(gs) - 1 : BundleHeld(b, l, gs[i]) /\ Suspended(gs[i])
  <2>1. ASSUME NEW i \in 1 .. Len(gs) - 1
        PROVE  /\ gs[i] = (IF i = m THEN f ELSE fs[i])
               /\ i \in 1 .. m
               /\ i # m => i \in 1 .. m - 1
    BY <1>1, <1>3, <1>5, <2>1
  <2> QED
    BY <1>6, <2>1
<1>8. StackOK(b, l, gs)
  BY <1>4, <1>5, <1>7 DEF StackOK
<1> QED
  BY <1>5, <1>8 DEF gs, hs

\* The step that arrives, with its arguments and its binding.
ArgumentsOf(order) == [i \in 1 .. Cardinality(DOMAIN order) |-> Inlines[inlines + i]]

BindingOf(chosen, order) ==
    [p \in DOMAIN chosen |->
       IF chosen[p] # "argument" THEN chosen[p]
       ELSE ArgumentsOf(order)[CHOOSE i \in 1 .. Cardinality(DOMAIN order) : order[i] = p]]

Arrived(d, chosen, order) ==
    [definition |-> d, binding |-> BindingOf(chosen, order), arguments |-> ArgumentsOf(order)]

LEMMA ArrivedStep ==
    ASSUME NEW d \in Catalog, NEW chosen \in BindingsOf(d),
           NEW order \in Orders({p \in DOMAIN chosen : chosen[p] = "argument"}),
           inlines \in Nat, inlines + Cardinality(DOMAIN order) <= Len(Inlines)
    PROVE  /\ Cardinality(DOMAIN order) \in Nat
           /\ Arrived(d, chosen, order) \in WaitingStep
           /\ Arrived(d, chosen, order).arguments = <<>> <=> Cardinality(DOMAIN order) = 0
<1> DEFINE named     == {p \in DOMAIN chosen : chosen[p] = "argument"}
           n         == Cardinality(DOMAIN order)
           arguments == ArgumentsOf(order)
           binding   == BindingOf(chosen, order)
           S         == IF d = NoEffect THEN {"source"} ELSE d.parameters
<1>1. chosen \in [S -> {"null", "input", "argument"} \cup ChainSurfaces]
  BY DEF BindingsOf
<1>2. S \in {{"source"}} \cup {e.parameters : e \in Catalog} /\ IsFiniteSet(S)
  <2>1. IsFiniteSet(d.parameters)
    BY CatalogAssumption
  <2>2. IsFiniteSet({"source"})
    BY FS_Singleton
  <2> QED
    BY <2>1, <2>2
<1> HIDE DEF S
<1>3. DOMAIN chosen = S /\ IsFiniteSet(named)
  <2>1. named \subseteq S
    BY <1>1
  <2> QED
    BY <1>1, <1>2, <2>1, FS_Subset
<1>4. Cardinality(named) \in Nat
  BY <1>3, FS_CardinalityType
<1>5. /\ order \in [1 .. Cardinality(named) -> named]
      /\ {order[i] : i \in DOMAIN order} = named
  BY DEF Orders
<1>6. n = Cardinality(named) /\ DOMAIN order = 1 .. n
  <2> DEFINE c == Cardinality(named)
  <2>1. DOMAIN order = 1 .. c
    BY <1>5
  <2> HIDE DEF c
  <2>2. Cardinality(1 .. c) = c
    <3>1. c \in Nat
      BY <1>4 DEF c
    <3>2. 1 \in Int /\ c \in Int
      BY <3>1
    <3>3. Cardinality(1 .. c) = IF 1 > c THEN 0 ELSE c - 1 + 1
      BY <3>2, FS_Interval
    <3> QED
      BY <3>1, <3>3
  <2> QED
    BY <2>1, <2>2 DEF c
<1>7. n \in Nat
  BY <1>4, <1>6
<1>8. \A i \in 1 .. n : Inlines[inlines + i] \in Inline
  <2>1. Len(Inlines) \in Nat /\ inlines + n <= Len(Inlines)
    BY NamesFacts
  <2>2. \A i \in 1 .. n : inlines + i \in 1 .. Len(Inlines)
    <3> HIDE DEF n
    <3> QED
      BY <1>7, <2>1
  <2> QED
    BY <2>2 DEF Inline
<1>9. \A p \in named : (CHOOSE i \in 1 .. n : order[i] = p) \in 1 .. n
  <2>1. \A p \in named : \E i \in 1 .. n : order[i] = p
    BY <1>5, <1>6
  <2> QED
    BY <2>1
<1>10. arguments \in [1 .. n -> Inline]
  BY <1>8 DEF ArgumentsOf
<1> HIDE DEF n, arguments
<1>11. arguments \in Seq(Inline) /\ Len(arguments) = n
  BY <1>7, <1>10, IsASeq, LenProperties
<1>12. (arguments = <<>>) <=> n = 0
  <2>1. arguments = <<>> => n = 0
    BY <1>11
  <2>2. n = 0 => arguments = <<>>
    BY <1>11, EmptySeq
  <2> QED
    BY <2>1, <2>2
<1>13. binding \in [S -> {"null", "input"} \cup Surfaces]
  <2>1. ChainSurfaces \subseteq Surfaces /\ Inline \subseteq Surfaces
    BY NamesFacts
  <2>2. \A p \in S : binding[p] \in {"null", "input"} \cup Surfaces
    <3> SUFFICES ASSUME NEW p \in S PROVE binding[p] \in {"null", "input"} \cup Surfaces
      OBVIOUS
    <3>1. CASE chosen[p] # "argument"
      BY <1>1, <2>1, <3>1 DEF BindingOf
    <3>2. CASE chosen[p] = "argument"
      <4>1. p \in named
        BY <1>1, <3>2
      <4> DEFINE c == CHOOSE i \in 1 .. n : order[i] = p
      <4>2. c \in 1 .. n
        BY <1>9, <4>1
      <4>3. binding[p] = arguments[c]
        BY <1>3, <3>2 DEF BindingOf, n, arguments
      <4> HIDE DEF c
      <4> QED
        BY <1>10, <2>1, <4>2, <4>3
    <3> QED
      BY <3>1, <3>2
  <2>3. DOMAIN binding = S /\ binding = [p \in DOMAIN binding |-> binding[p]]
    BY <1>3 DEF BindingOf
  <2> HIDE DEF binding
  <2> QED
    BY <2>2, <2>3
<1> HIDE DEF binding
<1>14. binding \in BindingValues
  BY <1>2, <1>13 DEF BindingValues
<1>15. d # NoEffect => binding \in Bindings(d)
  BY <1>13 DEF Bindings, S
<1> DEFINE w == Arrived(d, chosen, order)
<1>16. w \in [definition : Catalog, binding : BindingValues, arguments : Seq(Inline)]
  BY <1>11, <1>14 DEF Arrived, binding, arguments
<1>17. w.definition = d /\ w.binding = binding /\ w.arguments = arguments
  BY DEF Arrived, binding, arguments
<1> HIDE DEF w
<1>18. w \in WaitingStep
  BY <1>15, <1>16, <1>17 DEF WaitingStep
<1> QED
  BY <1>7, <1>12, <1>17, <1>18 DEF w, n

\* The running frame with the step it waits for.
LEMMA WaitingFrame ==
    ASSUME IInv, NEW w \in WaitingStep
    PROVE  LET f == [Advanced(Top) EXCEPT !.waiting = <<w>>]
           IN  /\ f \in Frame /\ f.waiting = <<w>>
               /\ Suspended(f) <=> w.arguments # <<>>
               /\ \A a, k : BundleSecured(a, k, f) <=> BundleSecured(a, k, Top)
               /\ \A a, k : BundleHeld(a, k, f) <=> BundleHeld(a, k, Top)
               /\ Bundle(f) = Bundle(Top)
<1> DEFINE f == [Advanced(Top) EXCEPT !.waiting = <<w>>]
<1>1. Top \in Frame
  BY RunningFrame
<1>2. PICK i \in Pointers, v \in Pointers, g \in Pointers, l \in Nat, x \in Seq(WaitingStep) :
         Top = [image |-> i, volume |-> v, geometry |-> g, length |-> l, waiting |-> x]
  BY <1>1 DEF Frame
<1>3. Advanced(Top) = [image |-> i, volume |-> v, geometry |-> g, length |-> l + 1, waiting |-> x]
  BY <1>2, AdvancedFrame
<1>4. f = [image |-> i, volume |-> v, geometry |-> g, length |-> l + 1, waiting |-> <<w>>]
  BY <1>3
<1>5. <<w>> \in Seq(WaitingStep) /\ l + 1 \in Nat
  OBVIOUS
<1> HIDE DEF f
<1>6. f \in Frame
  BY <1>4, <1>5 DEF Frame
<1>7. f.waiting = <<w>> /\ f.image = Top.image /\ f.volume = Top.volume /\ f.geometry = Top.geometry
  BY <1>2, <1>4
<1>8. f.waiting # <<>> /\ f.waiting[1] = w
  BY <1>7
<1>9. Suspended(f) <=> w.arguments # <<>>
  BY <1>8 DEF Suspended
<1> QED
  BY <1>6, <1>7, <1>9 DEF f, BundleSecured, BundleHeld, Bundle

LEMMA StepArrivesKeeps ==
    ASSUME IInv, NEW d \in Catalog, NEW chosen \in BindingsOf(d),
           NEW order \in Orders({p \in DOMAIN chosen : chosen[p] = "argument"}),
           StepArrives(d, chosen, order)
    PROVE  IInv'
<1> DEFINE n         == Cardinality(DOMAIN order)
           w == Arrived(d, chosen, order)
           f == [Advanced(Top) EXCEPT !.waiting = <<w>>]
           gs == [frames EXCEPT ![Len(frames)] = f]
<1>1. /\ phase = "chain"
      /\ inlines + n <= Len(Inlines)
      /\ n # 0 => holds + HoldsOf(Top) <= Len(HoldNames)
      /\ inlines' = inlines + n
      /\ IF n = 0 THEN frames' = gs /\ arena' = arena /\ holds' = holds
         ELSE /\ arena' = HoldBundle(arena, Top)
              /\ holds' = holds + HoldsOf(Top)
              /\ frames' = Append(gs, EmptyFrame)
      /\ eff' = eff /\ phase' = phase
  BY DEF StepArrives, AtStep, Waiting, Arrived, ArgumentsOf, BindingOf
<1>2. inlines \in Nat /\ inlines <= Len(Inlines) /\ Len(Inlines) \in Nat
  BY NamesFacts DEF IInv
<1>3. n \in Nat /\ w \in WaitingStep /\ (w.arguments = <<>> <=> n = 0)
  BY <1>1, <1>2, ArrivedStep
<1> HIDE DEF w, n
<1>5. /\ f \in Frame /\ (Suspended(f) <=> n # 0)
      /\ \A a, k : BundleSecured(a, k, f) <=> BundleSecured(a, k, Top)
      /\ \A a, k : BundleHeld(a, k, f) <=> BundleHeld(a, k, Top)
  BY <1>3, WaitingFrame
<1> HIDE DEF f
<1>6. inlines' \in 0 .. Len(Inlines)
  BY <1>1, <1>2, <1>3
<1>7. /\ Tidy(arena) /\ eff = IdleEffect /\ BundleSecured(arena, holds, Top)
      /\ holds \in 0 .. Len(HoldNames) /\ holds \in Nat /\ StackOK(arena, holds, frames)
  BY <1>1, RunningFrame
<1>8. CASE n = 0
  <2>1. inlines' = inlines
    BY <1>1, <1>2, <1>8
  <2>2. SetTop(f)
    BY <1>1, <1>8 DEF SetTop
  <2> QED
    BY <1>1, <1>5, <1>7, <1>8, <2>1, <2>2, TopAdvances
<1>9. CASE n # 0
  <2>1. /\ holds' \in 0 .. Len(HoldNames) /\ holds <= holds'
        /\ Tidy(arena') /\ arena'.borrow = arena.borrow /\ arena'.pin = arena.pin
        /\ \A m \in Taken(holds) : Find(arena', m) = Find(arena, m)
        /\ BundleHeld(arena', holds', Top)
    BY <1>1, <1>9, HoldBundleCorrect
  <2>2. ArenaOK'
    BY <1>1, <2>1, ArenaStays
  <2>3. holds' \in Nat
    BY <2>1, NamesFacts
  <2> DEFINE hs == Append(gs, EmptyFrame)
  <2>4. StackOK(arena', holds', hs) /\ hs[Len(hs)] = EmptyFrame
    BY <1>5, <1>7, <1>9, <2>1, <2>3, StackPushed
  <2>5. frames' = hs
    BY <1>1, <1>9
  <2> HIDE DEF hs
  <2>6. BundleSecured(arena', holds', Top')
    BY <2>4, <2>5, EmptyStack DEF Top
  <2> QED
    BY <1>1, <1>6, <1>7, <2>1, <2>2, <2>4, <2>5, <2>6 DEF IInv, InEffect
<1> QED
  BY <1>8, <1>9

\* The suspended step with one argument less.
LEMMA ResumedFrame ==
    ASSUME NEW f \in Frame, Suspended(f)
    PROVE  LET w == f.waiting[1]
               e == [f EXCEPT !.waiting = [f.waiting EXCEPT ![1] =
                                             [w EXCEPT !.arguments = Tail(w.arguments)]]]
           IN  /\ Head(w.arguments) \in Inline
               /\ e \in Frame
               /\ Suspended(e) <=> Tail(w.arguments) # <<>>
               /\ \A a, k : BundleHeld(a, k, e) <=> BundleHeld(a, k, f)
               /\ Bundle(e) = Bundle(f)
<1> DEFINE w == f.waiting[1]
           t == Tail(w.arguments)
           x == [w EXCEPT !.arguments = t]
           ws == [f.waiting EXCEPT ![1] = x]
           e == [f EXCEPT !.waiting = ws]
<1>1. PICK i \in Pointers, v \in Pointers, g \in Pointers, l \in Nat, s \in Seq(WaitingStep) :
         f = [image |-> i, volume |-> v, geometry |-> g, length |-> l, waiting |-> s]
  BY DEF Frame
<1>2. f.waiting = s /\ s # <<>> /\ w.arguments # <<>>
  BY <1>1 DEF Suspended
<1>3. Len(s) \in Nat /\ 1 \in 1 .. Len(s)
  BY <1>2, EmptySeq, LenProperties
<1>4. w \in WaitingStep
  BY <1>2, <1>3, ElementOfSeq
<1>5. PICK d \in Catalog, b \in BindingValues, p \in Seq(Inline) :
         w = [definition |-> d, binding |-> b, arguments |-> p]
  BY <1>4 DEF WaitingStep
<1> HIDE DEF w
<1>6. p # <<>> /\ w.arguments = p
  BY <1>2, <1>5
<1>7. Head(p) \in Inline /\ Tail(p) \in Seq(Inline)
  BY <1>6, HeadTailProperties
<1>17. t = Tail(p)
  BY <1>6
<1> HIDE DEF t
<1>8. x = [definition |-> d, binding |-> b, arguments |-> t]
  BY <1>5
<1> HIDE DEF x
<1>9. x \in WaitingStep
  <2>1. x \in [definition : Catalog, binding : BindingValues, arguments : Seq(Inline)]
    BY <1>17, <1>7, <1>8
  <2>2. x.definition = w.definition /\ x.binding = w.binding
    BY <1>5, <1>8
  <2> QED
    BY <1>4, <2>1, <2>2 DEF WaitingStep
<1>16. x.arguments = t
  BY <1>8
<1>10. ws \in Seq(WaitingStep) /\ Len(ws) = Len(s) /\ ws[1] = x
  BY <1>2, <1>3, <1>9, ExceptSeq
<1> HIDE DEF ws
<1>11. ws # <<>>
  BY <1>3, <1>10, EmptySeq
<1>12. e = [image |-> i, volume |-> v, geometry |-> g, length |-> l, waiting |-> ws]
  BY <1>1
<1> HIDE DEF e
<1>13. e \in Frame
  BY <1>10, <1>12 DEF Frame
<1>14. Suspended(e) <=> t # <<>>
  <2>1. e.waiting # <<>> /\ e.waiting[1] = x
    BY <1>10, <1>11, <1>12
  <2> QED
    BY <1>16, <2>1 DEF Suspended
<1>15. \A a, k : BundleHeld(a, k, e) <=> BundleHeld(a, k, f)
  BY <1>1, <1>12 DEF BundleHeld
<1>18. Bundle(e) = Bundle(f)
  BY <1>1, <1>12 DEF Bundle
<1> QED
  BY <1>6, <1>7, <1>13, <1>14, <1>15, <1>18 DEF e, ws, x, t, w

LEMMA ArgumentEndsKeeps ==
    ASSUME IInv, ArgumentEnds
    PROVE  IInv'
<1>1. phase = "chain" /\ Len(frames) > 1
  BY DEF ArgumentEnds, AtEnd
<1>2. CASE Top.image = NoResource
  BY <1>1, <1>2, ThrowKeeps DEF ArgumentEnds
<1>3. CASE Top.image # NoResource
  <2> DEFINE m == Len(frames)
             outer == SubSeq(frames, 1, m - 1)
             f == outer[Len(outer)]
             w == f.waiting[1]
             e == [f EXCEPT !.waiting = [f.waiting EXCEPT ![1] =
                                           [w EXCEPT !.arguments = Tail(w.arguments)]]]
             resumed == [outer EXCEPT ![Len(outer)] = e]
             gs == IF Tail(w.arguments) = <<>> THEN resumed ELSE Append(resumed, EmptyFrame)
  <2>1. /\ arena' = Alias(arena, Head(w.arguments), Top.image)
        /\ frames' = gs
        /\ eff' = eff /\ phase' = phase /\ holds' = holds /\ inlines' = inlines
    BY <1>3 DEF ArgumentEnds
  <2>2. /\ Tidy(arena) /\ eff = IdleEffect /\ BundleSecured(arena, holds, Top)
        /\ holds \in 0 .. Len(HoldNames) /\ holds \in Nat /\ StackOK(arena, holds, frames)
    BY <1>1, RunningFrame
  <2>3. m \in Nat /\ m > 1 /\ frames \in Seq(Frame)
    BY <1>1, <2>2, StackTop DEF StackOK
  <2>4. \A i \in 1 .. m - 1 : BundleHeld(arena, holds, frames[i]) /\ Suspended(frames[i])
    BY <2>2 DEF StackOK
  <2>5. /\ outer \in Seq(Frame) /\ Len(outer) = m - 1
        /\ \A i \in 1 .. m - 1 : outer[i] = frames[i]
    <3>1. 1 \in 1 .. Len(frames) + 1 /\ m - 1 \in 1 - 1 .. Len(frames)
      BY <2>3
    <3>2. outer \in Seq(Frame)
      BY <2>3, <3>1, SubSeqProperties
    <3>3. Len(outer) = IF 1 <= m - 1 THEN m - 1 - 1 + 1 ELSE 0
      BY <2>3, <3>1, SubSeqProperties
    <3>4. \A i \in 1 .. m - 1 - 1 + 1 : outer[i] = frames[1 + i - 1]
      BY <2>3, <3>1, SubSeqProperties
    <3> HIDE DEF m, outer
    <3> QED
      BY <2>3, <3>2, <3>3, <3>4
  <2> HIDE DEF m, outer
  <2>6. f \in Frame /\ BundleHeld(arena, holds, f) /\ Suspended(f)
    <3>1. m - 1 \in 1 .. m - 1 /\ m - 1 \in 1 .. Len(outer)
      BY <2>3, <2>5
    <3>2. f = frames[m - 1]
      BY <2>5, <3>1
    <3> QED
      BY <2>4, <2>5, <3>1, <3>2, ElementOfSeq
  <2> HIDE DEF f
  <2>7. /\ Head(w.arguments) \in Inline
        /\ e \in Frame
        /\ Suspended(e) <=> Tail(w.arguments) # <<>>
        /\ BundleHeld(arena, holds, e)
    BY <2>6, ResumedFrame
  <2> HIDE DEF e, w
  <2>8. /\ resumed \in Seq(Frame) /\ Len(resumed) = m - 1
        /\ \A i \in 1 .. m - 1 : resumed[i] = IF i = m - 1 THEN e ELSE frames[i]
    <3>1. Len(outer) \in 1 .. Len(outer)
      BY <2>3, <2>5
    <3> QED
      BY <2>5, <2>7, <3>1, ExceptSeq
  <2> HIDE DEF resumed
  <2>9. /\ Head(w.arguments) \in Names /\ Head(w.arguments) \notin Taken(holds)
        /\ Taken(holds) \subseteq Names
    BY <2>2, <2>7, NamesFacts, TakenFacts
  <2>10. Top.image \in Resources /\ IsReferenced(arena, Top.image)
    BY <1>3, <2>2, NamesFacts, SecuredIsNamed DEF BundleSecured
  <2>11. /\ Tidy(arena') /\ arena'.borrow = arena.borrow /\ arena'.pin = arena.pin
         /\ \A n \in Taken(holds) : Find(arena', n) = Find(arena, n)
    BY <2>1, <2>2, <2>9, <2>10, AliasCorrect
  <2>12. ArenaOK'
    BY <1>1, <2>1, <2>11, ArenaStays
  <2>13. /\ \A i \in 1 .. m - 1 : BundleHeld(arena', holds, resumed[i])
         /\ \A i \in 1 .. m - 1 : i # m - 1 => Suspended(resumed[i])
         /\ resumed[m - 1] = e
    <3>1. \A i \in 1 .. m - 1 : BundleHeld(arena, holds, resumed[i])
      BY <2>4, <2>7, <2>8
    <3>2. \A i \in 1 .. m - 1 : BundleHeld(arena', holds, resumed[i])
      BY <2>2, <2>11, <3>1, BundleHeldStays
    <3> QED
      BY <2>3, <2>4, <2>8, <3>2
  <2>14. StackOK(arena', holds, gs) /\ BundleSecured(arena', holds, gs[Len(gs)])
    <3>1. CASE Tail(w.arguments) = <<>>
      <4>1. gs = resumed
        BY <3>1
      <4>2. resumed # <<>>
        BY <2>3, <2>8, EmptySeq
      <4>3. m - 1 \in 1 .. m - 1 /\ 1 .. Len(resumed) - 1 \subseteq 1 .. m - 1
            /\ m - 1 \notin 1 .. Len(resumed) - 1
        BY <2>3, <2>8
      <4>4. BundleSecured(arena', holds, e)
        BY <2>13, <4>3, HeldIsSecured
      <4>5. StackOK(arena', holds, resumed)
        BY <2>7, <2>8, <2>13, <3>1, <4>2, <4>3 DEF StackOK
      <4> QED
        BY <2>8, <2>13, <4>1, <4>4, <4>5
    <3>2. CASE Tail(w.arguments) # <<>>
      <4> DEFINE hs == Append(resumed, EmptyFrame)
      <4>1. gs = hs
        BY <3>2
      <4>2. EmptyFrame \in Frame /\ ~Suspended(EmptyFrame) /\ BundleSecured(arena', holds, EmptyFrame)
        BY EmptyStack DEF EmptyFrame, Suspended
      <4>3. /\ hs \in Seq(Frame) /\ hs # <<>> /\ Len(hs) = Len(resumed) + 1
            /\ hs[Len(resumed) + 1] = EmptyFrame
            /\ \A i \in 1 .. Len(resumed) : hs[i] = resumed[i]
        BY <2>8, <4>2, AppendProperties
      <4> HIDE DEF hs
      <4>4. Len(hs) = m /\ hs[m] = EmptyFrame /\ \A i \in 1 .. m - 1 : hs[i] = resumed[i]
        BY <2>3, <2>8, <4>3
      <4>5. \A i \in 1 .. m - 1 : Suspended(resumed[i])
        BY <2>7, <2>13, <3>2
      <4>6. StackOK(arena', holds, hs)
        BY <2>13, <4>2, <4>3, <4>4, <4>5 DEF StackOK
      <4> QED
        BY <4>1, <4>2, <4>4, <4>6
    <3> QED
      BY <3>1, <3>2
  <2> HIDE DEF gs
  <2>15. BundleSecured(arena', holds', Top')
    BY <2>1, <2>14 DEF Top
  <2> QED
    BY <1>1, <2>1, <2>2, <2>12, <2>14, <2>15 DEF IInv, InEffect
<1> QED
  BY <1>2, <1>3

-----------------------------------------------------------------------------
\* What a step publishes.

\* The number of pointees that one step may insert.
Bursts ==
    {3, Len(Seeds)} \cup {Len(d.cleared) : d \in Catalog}
      \cup UNION {{Len(d.passes[i].outputs) : i \in 1 .. Len(d.passes)} : d \in Catalog}

\* At most one pointee is pinned.
OnePinned(a) == \A r, q \in Resources : a.pin[r] # 0 /\ a.pin[q] # 0 => r = q

\* The routes name new pointees, a pointee of its own each, and nothing else
\* has changed.
Published(b, a, routes) ==
    /\ Tidy(b) /\ b.borrow = a.borrow /\ b.pin = a.pin
    /\ \A m \in Names : (\A i \in 1 .. Len(routes) : routes[i] # m) => Find(b, m) = Find(a, m)
    /\ \A i \in 1 .. Len(routes) : Find(b, routes[i]) \in Resources \ a.owned
    /\ \A i, j \in 1 .. Len(routes) :
          Find(b, routes[i]) = Find(b, routes[j]) => routes[i] = routes[j]

LEMMA PublishCorrect ==
    ASSUME NEW a, Tidy(a), a.retired = {}, OnePinned(a),
           NEW routes \in Seq(Names), NEW n \in Bursts, n \in Nat, Len(routes) <= n
    PROVE  Published(InsertAll(a, routes), a, routes)
<1> DEFINE b == InsertAll(a, routes)
<1>0. PICK p : \A r \in Resources : a.pin[r] # 0 => r = p
  <2>1. CASE \E q \in Resources : a.pin[q] # 0
    BY <2>1 DEF OnePinned
  <2>2. CASE \A r \in Resources : a.pin[r] = 0
    BY <2>2
  <2> QED
    BY <2>1, <2>2
<1>1. \A r \in a.owned : HasAlias(a, r) \/ r = p
  BY <1>0 DEF Tidy, IsHeld, IsReferenced
<1>2. Cardinality(Names) + 1 + Len(routes) <= Cardinality(Resources)
  <2>1. Cardinality(Names) + 1 + n <= Cardinality(Resources)
    BY MemoryAssumption DEF Bursts
  <2>2. Cardinality(Names) \in Nat /\ Cardinality(Resources) \in Nat /\ Len(routes) \in Nat
    BY MemoryAssumption, FS_CardinalityType
  <2> QED
    BY <2>1, <2>2
<1>3. PICK new \in [1 .. Len(routes) -> Resources \ a.owned] :
         /\ \A i, j \in 1 .. Len(routes) : new[i] = new[j] => i = j
         /\ Inserted(b, Len(routes), a, routes, new)
  BY <1>0, <1>1, <1>2, InsertAllCorrect
<1> HIDE DEF b
<1>4. /\ Tidy(b) /\ b.borrow = a.borrow /\ b.pin = a.pin
      /\ \A m \in Names :
           \/ b.named[m] = a.named[m] /\ \A i \in 1 .. Len(routes) : routes[i] # m
           \/ \E i \in 1 .. Len(routes) : routes[i] = m /\ b.named[m] = new[i]
  BY <1>3 DEF Inserted
<1>5. ASSUME NEW m \in Names, \A i \in 1 .. Len(routes) : routes[i] # m
      PROVE  Find(b, m) = Find(a, m)
  BY <1>4, <1>5 DEF Find
<1>6. ASSUME NEW i \in 1 .. Len(routes)
      PROVE  /\ Find(b, routes[i]) \in Resources \ a.owned
             /\ \E j \in 1 .. Len(routes) : routes[j] = routes[i] /\ Find(b, routes[i]) = new[j]
  <2>1. routes[i] \in Names
    OBVIOUS
  <2>2. PICK j \in 1 .. Len(routes) : routes[j] = routes[i] /\ b.named[routes[i]] = new[j]
    BY <1>4, <2>1
  <2> QED
    BY <2>2 DEF Find
<1>7. ASSUME NEW i \in 1 .. Len(routes), NEW j \in 1 .. Len(routes),
             Find(b, routes[i]) = Find(b, routes[j])
      PROVE  routes[i] = routes[j]
  BY <1>3, <1>6, <1>7
<1> QED
  BY <1>4, <1>5, <1>6, <1>7 DEF b, Published

LEMMA SeedsKeep == Init => IInv
<1> SUFFICES ASSUME Init PROVE IInv
  OBVIOUS
<1>1. PICK k \in 0 .. Len(Seeds) : arena = InsertAll(EmptyArena, SubSeq(Seeds, 1, k))
  BY DEF Init
<1>2. /\ frames = <<EmptyFrame>> /\ eff = IdleEffect /\ phase = "chain"
      /\ holds = 0 /\ inlines = 0
  BY DEF Init
<1> DEFINE s == SubSeq(Seeds, 1, k)
<1>3. s \in Seq(Names) /\ Len(s) <= Len(Seeds) /\ Len(Seeds) \in Nat /\ Len(Seeds) \in Bursts
  <2>1. Seeds \in Seq(Names) /\ Len(Seeds) \in Nat
    BY NamesFacts
  <2>2. \A i \in 1 .. k : Seeds[i] \in Names
    BY <2>1
  <2>3. s \in Seq(Names) /\ Len(s) = IF 1 <= k THEN k - 1 + 1 ELSE 0
    BY <2>1, <2>2, SubSeqProperties
  <2> HIDE DEF s
  <2> QED
    BY <2>1, <2>3 DEF Bursts
<1> HIDE DEF s
<1>4. /\ Tidy(EmptyArena) /\ EmptyArena.retired = {}
      /\ \A r \in Resources : EmptyArena.pin[r] = 0 /\ EmptyArena.borrow[r] = 0
  BY EmptyTidy DEF EmptyArena
<1>5. /\ Tidy(arena) /\ arena.borrow = EmptyArena.borrow /\ arena.pin = EmptyArena.pin
  <2>1. OnePinned(EmptyArena)
    BY <1>4 DEF OnePinned
  <2>2. Published(InsertAll(EmptyArena, s), EmptyArena, s)
    BY <1>3, <1>4, <2>1, PublishCorrect
  <2> QED
    BY <1>1, <2>2 DEF s, Published
<1>6. Balanced(arena, {}, NoResource)
  BY <1>4, <1>5, NoResourceAssumption DEF Balanced
<1>7. ArenaOK
  <2>1. HoldersBalance
    BY <1>2, <1>6, BalancedArena DEF Lent, Pinned, InEffect
  <2> QED
    BY <1>5, <1>6, <2>1, QuietArena DEF ArenaOK
<1>8. Top = EmptyFrame
  BY <1>2 DEF Top
<1> QED
  BY <1>2, <1>7, <1>8, EmptyStack, NamesFacts DEF IInv, InEffect

-----------------------------------------------------------------------------
\* Iterated groups.

\* One component: nothing, what came in, or what the group has published.
LEMMA GroupComponent ==
    ASSUME NEW a, NEW b, Tidy(b), NEW k \in Nat, NEW names \in SUBSET Names,
           NEW input \in Pointers, Secured(a, k, input, names),
           NEW name, name = "none" \/ PassesThrough(name) \/ name \in names,
           PassesThrough(name) => \A n \in names \cup Taken(k) : Find(b, n) = Find(a, n)
    PROVE  /\ Component(b, name, input) \in Pointers
           /\ Secured(b, k, Component(b, name, input), names)
<1>1. CASE name = "none"
  BY <1>1 DEF Component, Secured, Pointers
<1>2. CASE name # "none" /\ PassesThrough(name)
  BY <1>2, SecuredStays DEF Component
<1>3. CASE name # "none" /\ ~PassesThrough(name)
  <2>1. name \in names /\ Component(b, name, input) = Find(b, name)
    BY <1>3 DEF Component
  <2> QED
    BY <2>1, FoundSecured
<1> QED
  BY <1>1, <1>2, <1>3

\* The routes a group publishes.
IsNew(name) == name # "none" /\ ~PassesThrough(name)

NewRoute(name) == IF IsNew(name) THEN <<name>> ELSE <<>>

RoutesOfGroup(image, volume, geometry) ==
    NewRoute(image) \o NewRoute(volume) \o NewRoute(geometry)

LEMMA GroupRoutes ==
    ASSUME NEW image, NEW volume, NEW geometry, IsNew(image) => image \in Names,
           IsNew(volume) => volume \in Names, IsNew(geometry) => geometry \in Names
    PROVE  LET routes == RoutesOfGroup(image, volume, geometry)
           IN  /\ routes \in Seq(Names) /\ Len(routes) <= 3
               /\ \A i \in 1 .. Len(routes) :
                     \/ IsNew(image) /\ routes[i] = image
                     \/ IsNew(volume) /\ routes[i] = volume
                     \/ IsNew(geometry) /\ routes[i] = geometry
               /\ \A n \in {image, volume, geometry} :
                     IsNew(n) => \E i \in 1 .. Len(routes) : routes[i] = n
<1> DEFINE x == NewRoute(image)
           y == NewRoute(volume)
           z == NewRoute(geometry)
           u == x \o y
           routes == u \o z
<1>2. /\ x \in Seq(Names) /\ Len(x) \in {0, 1} /\ (IsNew(image) => Len(x) = 1)
      /\ \A i \in 1 .. Len(x) : IsNew(image) /\ x[i] = image
  BY DEF NewRoute
<1>3. /\ y \in Seq(Names) /\ Len(y) \in {0, 1} /\ (IsNew(volume) => Len(y) = 1)
      /\ \A i \in 1 .. Len(y) : IsNew(volume) /\ y[i] = volume
  BY DEF NewRoute
<1>4. /\ z \in Seq(Names) /\ Len(z) \in {0, 1} /\ (IsNew(geometry) => Len(z) = 1)
      /\ \A i \in 1 .. Len(z) : IsNew(geometry) /\ z[i] = geometry
  BY DEF NewRoute
<1>5. routes = RoutesOfGroup(image, volume, geometry)
  BY DEF RoutesOfGroup
<1> HIDE DEF x, y, z, routes
<1>6. /\ u \in Seq(Names) /\ Len(u) = Len(x) + Len(y)
      /\ \A i \in 1 .. Len(x) + Len(y) : u[i] = IF i <= Len(x) THEN x[i] ELSE y[i - Len(x)]
  BY <1>2, <1>3, ConcatProperties
<1> HIDE DEF u
<1>7. /\ Len(u) \in 0 .. 2
      /\ \A i \in 1 .. Len(u) : (IsNew(image) /\ u[i] = image) \/ (IsNew(volume) /\ u[i] = volume)
      /\ IsNew(image) => \E i \in 1 .. Len(u) : u[i] = image
      /\ IsNew(volume) => \E i \in 1 .. Len(u) : u[i] = volume
  <2>1. PICK p \in {0, 1}, q \in {0, 1} : p = Len(x) /\ q = Len(y)
    BY <1>2, <1>3
  <2>2. /\ Len(u) = p + q
        /\ \A i \in 1 .. p + q : u[i] = IF i <= p THEN x[i] ELSE y[i - p]
    BY <1>6, <2>1
  <2>3. p + q \in 0 .. 2
    <3>1. \A i, j \in {0, 1} : i + j \in 0 .. 2
      OBVIOUS
    <3> QED
      BY <3>1
  <2>4. \A i \in 1 .. p + q : (i <= p /\ i \in 1 .. p) \/ (~(i <= p) /\ i - p \in 1 .. q)
    <3>1. p + q \in Nat /\ p \in Nat /\ q \in Nat
      BY <2>1
    <3>2. ASSUME NEW i \in 1 .. p + q
          PROVE  (i <= p /\ i \in 1 .. p) \/ (~(i <= p) /\ i - p \in 1 .. q)
      BY <3>1
    <3> QED
      BY <3>2
  <2>5. p = 1 => 1 \in 1 .. p + q /\ u[1] = x[1]
    BY <2>1, <2>2
  <2>6. q = 1 => p + 1 \in 1 .. p + q /\ u[p + 1] = y[1]
    BY <2>1, <2>2
  <2>7. (p = 1 => x[1] = image) /\ (q = 1 => y[1] = volume)
    BY <1>2, <1>3, <2>1
  <2> QED
    BY <1>2, <1>3, <2>1, <2>2, <2>3, <2>4, <2>5, <2>6, <2>7
<1>8. /\ routes \in Seq(Names) /\ Len(routes) = Len(u) + Len(z)
      /\ \A i \in 1 .. Len(u) + Len(z) :
            routes[i] = IF i <= Len(u) THEN u[i] ELSE z[i - Len(u)]
  BY <1>4, <1>6, ConcatProperties DEF routes
<1>9. PICK k \in 0 .. 2, l \in {0, 1} : k = Len(u) /\ l = Len(z)
  BY <1>4, <1>7
<1>10. ASSUME NEW i \in 1 .. k + l
       PROVE  \/ IsNew(image) /\ routes[i] = image
              \/ IsNew(volume) /\ routes[i] = volume
              \/ IsNew(geometry) /\ routes[i] = geometry
  <2>1. i \in 1 .. k \/ (i = k + 1 /\ l = 1)
    BY <1>9
  <2>2. CASE i \in 1 .. k
    <3>1. routes[i] = u[i]
      BY <1>8, <1>9, <2>2
    <3> QED
      BY <1>7, <1>9, <2>2, <3>1
  <2>3. CASE i = k + 1 /\ l = 1
    <3>1. routes[i] = z[1]
      BY <1>8, <1>9, <2>3
    <3> QED
      BY <1>4, <1>9, <2>3, <3>1
  <2> QED
    BY <2>1, <2>2, <2>3
<1>11. \A i \in 1 .. k : i \in 1 .. k + l /\ routes[i] = u[i]
  BY <1>8, <1>9
<1>12. IsNew(geometry) => k + 1 \in 1 .. k + l /\ routes[k + 1] = geometry
  BY <1>4, <1>8, <1>9
<1>13. k + l <= 3 /\ k + l = Len(routes)
  BY <1>8, <1>9
<1>14. \A n \in {image, volume, geometry} :
          IsNew(n) => \E i \in 1 .. k + l : routes[i] = n
  BY <1>7, <1>9, <1>11, <1>12
<1> QED
  BY <1>5, <1>8, <1>10, <1>13, <1>14

LEMMA IteratedGroupKeeps ==
    ASSUME IInv,
           NEW image \in {"none", "inputTex", "outputTex"},
           NEW volume \in {"none", "inputTex3d", GroupVolume},
           NEW geometry \in {"none", "inputGeo", GroupGeometry},
           IteratedGroup(image, volume, geometry)
    PROVE  IInv'
<1> DEFINE New(name) == IF name = "none" \/ PassesThrough(name) THEN <<>> ELSE <<name>>
           routes == New(image) \o New(volume) \o New(geometry)
           b == InsertAll(arena, routes)
           f == [image    |-> Component(b, image, Top.image),
                 volume   |-> Component(b, volume, Top.volume),
                 geometry |-> Component(b, geometry, Top.geometry),
                 length |-> Top.length, waiting |-> <<>>]
<1>1. /\ phase = "chain" /\ arena' = b /\ SetTop(f)
      /\ eff' = eff /\ phase' = phase /\ holds' = holds /\ inlines' = inlines
  BY DEF IteratedGroup, Ready, PublishGroup
<1>2. /\ Tidy(arena) /\ eff = IdleEffect /\ BundleSecured(arena, holds, Top)
      /\ holds \in 0 .. Len(HoldNames) /\ holds \in Nat
      /\ Top.image \in Pointers /\ Top.volume \in Pointers /\ Top.geometry \in Pointers
      /\ Top.length \in Nat
  BY <1>1, RunningFrame
<1>3. /\ ImageNames \subseteq Names /\ VolumeNames \subseteq Names /\ GeometryNames \subseteq Names
      /\ ImageNames \cap VolumeNames = {} /\ ImageNames \cap GeometryNames = {}
      /\ VolumeNames \cap GeometryNames = {}
      /\ "outputTex" \in ImageNames /\ GroupVolume \in VolumeNames
      /\ GroupGeometry \in GeometryNames
  BY NamesFacts
<1>4. \A n \in Names : ~PassesThrough(n) /\ n # "inputTex" /\ n # "inputTex3d" /\ n # "inputGeo"
  BY NamesAssumption DEF PassesThrough
<1>5. /\ PassesThrough("inputTex") /\ PassesThrough("inputTex3d") /\ PassesThrough("inputGeo")
  BY DEF PassesThrough
<1>6. GroupVolume # "none" /\ GroupGeometry # "none"
  BY NamesAssumption
<1> DEFINE Fresh(name) == name # "none" /\ ~PassesThrough(name)
<1>7. /\ Fresh(image) => image = "outputTex"
      /\ Fresh(volume) => volume = GroupVolume
      /\ Fresh(geometry) => geometry = GroupGeometry
      /\ image = "none" \/ PassesThrough(image) \/ image \in ImageNames
      /\ volume = "none" \/ PassesThrough(volume) \/ volume \in VolumeNames
      /\ geometry = "none" \/ PassesThrough(geometry) \/ geometry \in GeometryNames
  BY <1>3, <1>5
<1>8. /\ routes \in Seq(Names) /\ Len(routes) <= 3
      /\ \A i \in 1 .. Len(routes) :
            \/ Fresh(image) /\ routes[i] = image
            \/ Fresh(volume) /\ routes[i] = volume
            \/ Fresh(geometry) /\ routes[i] = geometry
  <2>1. /\ IsNew(image) => image \in Names
        /\ IsNew(volume) => volume \in Names
        /\ IsNew(geometry) => geometry \in Names
    BY <1>3, <1>7 DEF IsNew
  <2>2. routes = RoutesOfGroup(image, volume, geometry)
    BY DEF RoutesOfGroup, NewRoute, IsNew
  <2> HIDE DEF routes
  <2> QED
    BY <2>1, <2>2, GroupRoutes DEF IsNew
<1> HIDE DEF routes, Fresh
<1>9. Balanced(arena, {}, NoResource) /\ arena.retired = {}
  BY <1>1, BalancedArena DEF IInv, ArenaOK, Lent, Pinned, InEffect
<1>10. /\ Tidy(b) /\ b.borrow = arena.borrow /\ b.pin = arena.pin
       /\ \A m \in Names : (\A i \in 1 .. Len(routes) : routes[i] # m)
                             => Find(b, m) = Find(arena, m)
  <2>1. OnePinned(arena)
    BY <1>9 DEF Balanced, OnePinned
  <2>2. 3 \in Bursts
    BY DEF Bursts
  <2>3. Published(b, arena, routes)
    BY <1>2, <1>8, <1>9, <2>1, <2>2, PublishCorrect
  <2> HIDE DEF b
  <2> QED
    BY <2>3 DEF Published
<1> HIDE DEF b
<1>11. Taken(holds) \subseteq Names
       /\ Taken(holds) \cap (ImageNames \cup VolumeNames \cup GeometryNames) = {}
  BY <1>2, TakenFacts
<1>12. \A i \in 1 .. Len(routes) : routes[i] \in ImageNames \cup VolumeNames \cup GeometryNames
  BY <1>3, <1>7, <1>8
<1>13. \A n \in Taken(holds) : Find(b, n) = Find(arena, n)
  BY <1>10, <1>11, <1>12
<1>14. /\ ~Fresh(image) => \A n \in ImageNames : Find(b, n) = Find(arena, n)
       /\ ~Fresh(volume) => \A n \in VolumeNames : Find(b, n) = Find(arena, n)
       /\ ~Fresh(geometry) => \A n \in GeometryNames : Find(b, n) = Find(arena, n)
  <2>1. /\ Fresh(image) => image \in ImageNames
        /\ Fresh(volume) => volume \in VolumeNames
        /\ Fresh(geometry) => geometry \in GeometryNames
    BY <1>3, <1>7
  <2>2. /\ ~Fresh(image) => \A i \in 1 .. Len(routes) : routes[i] \notin ImageNames
        /\ ~Fresh(volume) => \A i \in 1 .. Len(routes) : routes[i] \notin VolumeNames
        /\ ~Fresh(geometry) => \A i \in 1 .. Len(routes) : routes[i] \notin GeometryNames
    BY <1>3, <1>8, <2>1
  <2> QED
    BY <1>3, <1>10, <2>2
<1>15. /\ Component(b, image, Top.image) \in Pointers
       /\ Secured(b, holds, Component(b, image, Top.image), ImageNames)
  BY <1>2, <1>3, <1>7, <1>10, <1>13, <1>14, GroupComponent DEF Fresh, BundleSecured
<1>16. /\ Component(b, volume, Top.volume) \in Pointers
       /\ Secured(b, holds, Component(b, volume, Top.volume), VolumeNames)
  BY <1>2, <1>3, <1>7, <1>10, <1>13, <1>14, GroupComponent DEF Fresh, BundleSecured
<1>17. /\ Component(b, geometry, Top.geometry) \in Pointers
       /\ Secured(b, holds, Component(b, geometry, Top.geometry), GeometryNames)
  BY <1>2, <1>3, <1>7, <1>10, <1>13, <1>14, GroupComponent DEF Fresh, BundleSecured
<1>18. f \in Frame /\ ~Suspended(f) /\ BundleSecured(b, holds, f)
  <2>1. <<>> \in Seq(WaitingStep)
    OBVIOUS
  <2>2. f \in Frame
    BY <1>2, <1>15, <1>16, <1>17, <2>1 DEF Frame
  <2>3. f.waiting = <<>>
    OBVIOUS
  <2>4. BundleSecured(b, holds, f)
    BY <1>15, <1>16, <1>17 DEF BundleSecured
  <2> HIDE DEF f
  <2> QED
    BY <2>2, <2>3, <2>4 DEF Suspended
<1> HIDE DEF f
<1> QED
  BY <1>1, <1>2, <1>10, <1>13, <1>18, TopAdvances

-----------------------------------------------------------------------------
\* The locals of an effect, updated.

LEMMA LocalsStepped ==
    ASSUME NEW e, IsRecord(e), NEW n
    PROVE  /\ [e EXCEPT !.next = n]
                = Locals(e.definition, e.binding, n, e.again, e.input, e.volume, e.geometry,
                         e.output, e.wroteOutputTex, e.resolved, e.published)
           /\ [e EXCEPT !.again = n]
                = Locals(e.definition, e.binding, e.next, n, e.input, e.volume, e.geometry,
                         e.output, e.wroteOutputTex, e.resolved, e.published)
           /\ [e EXCEPT !.resolved = n]
                = Locals(e.definition, e.binding, e.next, e.again, e.input, e.volume,
                         e.geometry, e.output, e.wroteOutputTex, n, e.published)
BY DEF IsRecord, Locals

LEMMA LocalsFields ==
    ASSUME NEW e, NEW d, NEW b, NEW n, NEW a, NEW i, NEW v, NEW g, NEW o, NEW w, NEW r, NEW p,
           e = Locals(d, b, n, a, i, v, g, o, w, r, p)
    PROVE  /\ IsRecord(e)
           /\ e.definition = d /\ e.binding = b /\ e.next = n /\ e.again = a
           /\ e.input = i /\ e.volume = v /\ e.geometry = g /\ e.output = o
           /\ e.wroteOutputTex = w /\ e.resolved = r /\ e.published = p
BY DEF IsRecord, Locals

-----------------------------------------------------------------------------
\* Effect definitions.

LEMMA CatalogFacts ==
    ASSUME NEW d \in Catalog
    PROVE  /\ Len(d.passes) \in Nat
           /\ d.cleared \in Seq(Names) /\ Len(d.cleared) \in Nat /\ Len(d.cleared) \in Bursts
           /\ \A n \in Written(d, 0) : \E k \in 1 .. Len(d.cleared) : d.cleared[k] = n
           /\ \A k \in 1 .. Len(d.cleared) : d.cleared[k] \in Written(d, 0)
           /\ \A i \in 1 .. Len(d.passes) :
                 /\ d.passes[i].outputs \in Seq(Names)
                 /\ Len(d.passes[i].outputs) \in Nat /\ Len(d.passes[i].outputs) \in Bursts
                 /\ Len(d.passes[i].outputs) \in 1 .. Len(d.passes[i].outputs)
                 /\ Written(d, i) = Routes(d.passes[i])
                 /\ d.passes[i].repeats \subseteq Nat
                 /\ d.passes[i].inputs
                      \subseteq Names \cup d.parameters \cup {"inputTex", "inputTex3d", "inputGeo"}
                 /\ LastSlot(d.passes[i]) \in Names
<1>1. d.passes \in Seq(PassDefinition) /\ d.cleared \in Seq(Names)
  BY CatalogAssumption DEF EffectDefinition
<1>2. /\ Len(d.passes) \in Nat /\ Len(d.cleared) \in Nat
      /\ \A i \in 1 .. Len(d.passes) : d.passes[i] \in PassDefinition
  BY <1>1
<1>3. Len(d.cleared) \in Bursts
  BY DEF Bursts
<1>4. ASSUME NEW i \in 1 .. Len(d.passes)
      PROVE  /\ d.passes[i].outputs \in Seq(Names)
             /\ Len(d.passes[i].outputs) \in Nat /\ Len(d.passes[i].outputs) \in Bursts
             /\ Len(d.passes[i].outputs) \in 1 .. Len(d.passes[i].outputs)
             /\ Written(d, i) = Routes(d.passes[i])
             /\ d.passes[i].repeats \subseteq Nat
             /\ d.passes[i].inputs
                  \subseteq Names \cup d.parameters \cup {"inputTex", "inputTex3d", "inputGeo"}
             /\ LastSlot(d.passes[i]) \in Names
  <2> DEFINE o == d.passes[i].outputs
  <2>1. o \in Seq(Names) /\ o # <<>> /\ d.passes[i].repeats \subseteq Nat
    BY <1>2 DEF PassDefinition
  <2>2. Len(o) \in Bursts
    BY DEF Bursts
  <2>3. Written(d, i) = Routes(d.passes[i])
    BY <1>2 DEF Written
  <2>4. d.passes[i].inputs
          \subseteq Names \cup d.parameters \cup {"inputTex", "inputTex3d", "inputGeo"}
    BY CatalogAssumption
  <2>5. LastSlot(d.passes[i]) = o[Len(o)]
    BY DEF LastSlot
  <2> HIDE DEF o
  <2>6. Len(o) \in Nat /\ Len(o) # 0
    BY <2>1, EmptySeq, LenProperties
  <2>7. Len(o) \in 1 .. Len(o)
    BY <2>6
  <2>8. o[Len(o)] \in Names
    BY <2>1, <2>7, ElementOfSeq
  <2> QED
    BY <2>1, <2>2, <2>3, <2>4, <2>5, <2>6, <2>7, <2>8 DEF o
<1> QED
  BY <1>1, <1>2, <1>3, <1>4 DEF Written

-----------------------------------------------------------------------------
\* The steps of an effect.

\* The balance within an effect, by its parts.
LEMMA EffectArenaKeeps ==
    ASSUME InEffect', Tidy(arena'), arena'.retired = {}, Balanced(arena', Lent', eff'.input)
    PROVE  ArenaOK'
BY NoResourceAssumption DEF ArenaOK, HoldersBalance, Balanced, Lent, InEffect

LEMMA EffectStepKeeps ==
    ASSUME IInv, frames' = frames, holds' = holds, inlines' = inlines,
           phase' \in {"effect", "pass", "bound"}, ArenaOK', EffectOK',
           \A n \in Taken(holds) : Find(arena', n) = Find(arena, n)
    PROVE  IInv'
<1>1. StackOK(arena, holds, frames) /\ holds \in Nat
  BY RunningFrame
<1>2. StackOK(arena', holds, frames)
  BY <1>1, StackStays
<1> QED
  BY <1>2 DEF IInv, InEffect


\* What an effect begins with: its input pinned, its cleared textures, which
\* are new, published.
LEMMA EffectBegun ==
    ASSUME IInv, EffectBegins
    PROVE  LET w == Top.waiting[1]
               d == w.definition
           IN  /\ phase = "chain" /\ phase' = "effect" /\ d # NoEffect /\ frames' = frames
               /\ holds' = holds /\ inlines' = inlines
               /\ d \in Catalog /\ w.binding \in Bindings(d)
               /\ IsRecord(eff') /\ eff'.definition = d /\ eff'.binding = w.binding
               /\ eff'.next = 1 /\ eff'.input = Top.image /\ eff'.volume = Top.volume
               /\ eff'.geometry = Top.geometry /\ eff'.output = Top.image
               /\ eff'.wroteOutputTex = FALSE /\ eff'.resolved = <<>>
               /\ eff'.published = {d.cleared[i] : i \in 1 .. Len(d.cleared)}
               /\ Tidy(arena') /\ arena'.retired = {} /\ Balanced(arena', {}, Top.image)
               /\ \A m \in Names : m \notin Written(d, 0) => Find(arena', m) = Find(arena, m)
               /\ \A i \in 1 .. Len(d.cleared) :
                     Find(arena', d.cleared[i]) \in Resources \ arena.owned
               /\ \A i, j \in 1 .. Len(d.cleared) :
                     Find(arena', d.cleared[i]) = Find(arena', d.cleared[j])
                       => d.cleared[i] = d.cleared[j]
<1> DEFINE w == Top.waiting[1]
           d == w.definition
           a == PinInput(arena, Top.image)
           b == InsertAll(a, d.cleared)
           c == {d.cleared[i] : i \in 1 .. Len(d.cleared)}
<1>1. /\ phase = "chain" /\ Top.waiting # <<>> /\ d # NoEffect
      /\ arena' = b
      /\ eff' = [IdleEffect EXCEPT
                    !.definition = d, !.binding = w.binding,
                    !.input = Top.image, !.output = Top.image,
                    !.volume = Top.volume, !.geometry = Top.geometry,
                    !.published = c]
      /\ phase' = "effect" /\ frames' = frames /\ holds' = holds /\ inlines' = inlines
  BY DEF EffectBegins, Ready
<1>2. /\ Tidy(arena) /\ eff = IdleEffect /\ BundleSecured(arena, holds, Top)
      /\ holds \in 0 .. Len(HoldNames) /\ holds \in Nat
      /\ Top.image \in Pointers /\ Top.volume \in Pointers /\ Top.geometry \in Pointers
      /\ Top.waiting \in Seq(WaitingStep)
  BY <1>1, RunningFrame
<1>3. d \in Catalog /\ w.binding \in Bindings(d)
  <2>1. 1 \in 1 .. Len(Top.waiting)
    BY <1>1, <1>2, EmptySeq, LenProperties
  <2>2. w \in WaitingStep
    BY <1>2, <2>1, ElementOfSeq
  <2> HIDE DEF w
  <2> QED
    BY <1>1, <2>2 DEF WaitingStep
<1>4. /\ IsRecord(IdleEffect) /\ IdleEffect.next = 1
      /\ IdleEffect.wroteOutputTex = FALSE /\ IdleEffect.resolved = <<>>
  BY DEF IdleEffect, IsRecord, Locals
<1> HIDE DEF w, d, c
<1>5. /\ IsRecord(eff') /\ eff'.definition = d /\ eff'.binding = w.binding
      /\ eff'.next = 1 /\ eff'.input = Top.image /\ eff'.volume = Top.volume
      /\ eff'.geometry = Top.geometry /\ eff'.output = Top.image
      /\ eff'.wroteOutputTex = FALSE /\ eff'.resolved = <<>> /\ eff'.published = c
  <2> DEFINE z == IdleEffect.wroteOutputTex
  <2>1. eff' = Locals(d, w.binding, IdleEffect.next, IdleEffect.again, Top.image, Top.volume,
                      Top.geometry, Top.image, z, IdleEffect.resolved, c)
    <3> DEFINE f1 == [IdleEffect EXCEPT !.definition = d]
               f2 == [f1 EXCEPT !.binding = w.binding]
               f3 == [f2 EXCEPT !.input = Top.image]
               f4 == [f3 EXCEPT !.output = Top.image]
               f5 == [f4 EXCEPT !.volume = Top.volume]
               f6 == [f5 EXCEPT !.geometry = Top.geometry]
               f7 == [f6 EXCEPT !.published = c]
    <3>1. eff' = f7
      BY <1>1
    <3>2. f1 = Locals(d, IdleEffect.binding, IdleEffect.next, IdleEffect.again,
                      IdleEffect.input, IdleEffect.volume, IdleEffect.geometry,
                      IdleEffect.output, IdleEffect.wroteOutputTex, IdleEffect.resolved,
                      IdleEffect.published)
      BY <1>4 DEF IsRecord, Locals
    <3> HIDE DEF f1
    <3>3. f2 = Locals(d, w.binding, IdleEffect.next, IdleEffect.again, IdleEffect.input,
                      IdleEffect.volume, IdleEffect.geometry, IdleEffect.output,
                      IdleEffect.wroteOutputTex, IdleEffect.resolved,
                      IdleEffect.published)
      BY <3>2 DEF Locals
    <3> HIDE DEF f2
    <3>4. f3 = Locals(d, w.binding, IdleEffect.next, IdleEffect.again, Top.image,
                      IdleEffect.volume, IdleEffect.geometry, IdleEffect.output,
                      IdleEffect.wroteOutputTex, IdleEffect.resolved,
                      IdleEffect.published)
      BY <3>3 DEF Locals
    <3> HIDE DEF f3
    <3>5. f4 = Locals(d, w.binding, IdleEffect.next, IdleEffect.again, Top.image,
                      IdleEffect.volume, IdleEffect.geometry, Top.image,
                      IdleEffect.wroteOutputTex, IdleEffect.resolved,
                      IdleEffect.published)
      BY <3>4 DEF Locals
    <3> HIDE DEF f4
    <3>6. f5 = Locals(d, w.binding, IdleEffect.next, IdleEffect.again, Top.image,
                      Top.volume, IdleEffect.geometry, Top.image,
                      IdleEffect.wroteOutputTex, IdleEffect.resolved,
                      IdleEffect.published)
      BY <3>5 DEF Locals
    <3> HIDE DEF f5
    <3>7. f6 = Locals(d, w.binding, IdleEffect.next, IdleEffect.again, Top.image,
                      Top.volume, Top.geometry, Top.image, IdleEffect.wroteOutputTex,
                      IdleEffect.resolved, IdleEffect.published)
      BY <3>6 DEF Locals
    <3> HIDE DEF f6
    <3>8. f7 = Locals(d, w.binding, IdleEffect.next, IdleEffect.again, Top.image,
                      Top.volume, Top.geometry, Top.image, IdleEffect.wroteOutputTex,
                      IdleEffect.resolved, c)
      BY <3>7 DEF Locals
    <3> HIDE DEF f7
    <3> QED
      BY <3>1, <3>8
  <2> HIDE DEF z
  <2>2. /\ IsRecord(eff') /\ eff'.definition = d /\ eff'.binding = w.binding
        /\ eff'.next = IdleEffect.next /\ eff'.input = Top.image /\ eff'.volume = Top.volume
        /\ eff'.geometry = Top.geometry /\ eff'.output = Top.image
        /\ eff'.wroteOutputTex = z /\ eff'.resolved = IdleEffect.resolved
        /\ eff'.published = c
    BY <2>1, LocalsFields
  <2> QED
    BY <1>4, <2>2 DEF z
<1>6. /\ ImageNames \subseteq Names /\ VolumeNames \subseteq Names /\ GeometryNames \subseteq Names
  BY NamesFacts
<1>7. Balanced(arena, {}, NoResource) /\ arena.retired = {}
  BY <1>1, BalancedArena DEF IInv, ArenaOK, Lent, Pinned, InEffect
<1>8. /\ Tidy(a) /\ a.named = arena.named /\ Balanced(a, {}, Top.image)
      /\ a.owned = arena.owned
  <2>1. CASE Top.image = NoResource
    BY <1>2, <1>7, <2>1 DEF PinInput
  <2>2. CASE Top.image # NoResource
    <3>1. Top.image \in Resources /\ IsReferenced(arena, Top.image)
      BY <1>2, <1>6, <2>2, SecuredIsNamed DEF BundleSecured
    <3>2. arena.pin[Top.image] = 0
      BY <1>7, <3>1, NoResourceAssumption DEF Balanced
    <3>3. arena.pin[Top.image] < MaxCount
      BY <3>2, MaxCountAssumption
    <3>4. /\ Tidy(a) /\ a.named = arena.named /\ a.borrow = arena.borrow
          /\ a.pin = [arena.pin EXCEPT ![Top.image] = arena.pin[Top.image] + 1]
      BY <1>2, <2>2, <3>1, <3>3, PinTidy DEF PinInput
    <3>7. a.owned = arena.owned
      BY <2>2 DEF PinInput, Pin
    <3>5. arena.pin \in [Resources -> 0 .. MaxCount]
      BY <1>2 DEF Tidy, Arena
    <3> HIDE DEF a
    <3>6. Balanced(a, {}, Top.image)
      BY <1>7, <3>1, <3>2, <3>4, <3>5, NoResourceAssumption DEF Balanced
    <3> QED
      BY <3>4, <3>6, <3>7
  <2> QED
    BY <2>1, <2>2
<1> HIDE DEF a
<1>9. a.retired = {} /\ \A r \in Resources : a.pin[r] # 0 => r = Top.image
  BY <1>8, QuietArena DEF Balanced
<1>10. /\ d.cleared \in Seq(Names) /\ Len(d.cleared) \in Nat /\ Len(d.cleared) \in Bursts
       /\ \A k \in 1 .. Len(d.cleared) : d.cleared[k] \in Written(d, 0)
       /\ Len(d.passes) \in Nat
  BY <1>3, CatalogFacts
<1>11. /\ Tidy(b) /\ b.borrow = a.borrow /\ b.pin = a.pin
       /\ \A m \in Names : m \notin Written(d, 0) => Find(b, m) = Find(arena, m)
       /\ \A i \in 1 .. Len(d.cleared) : Find(b, d.cleared[i]) \in Resources \ arena.owned
       /\ \A i, j \in 1 .. Len(d.cleared) :
             Find(b, d.cleared[i]) = Find(b, d.cleared[j]) => d.cleared[i] = d.cleared[j]
  <2> DEFINE s == d.cleared
             n == Len(s)
  <2>1. /\ s \in Seq(Names) /\ n \in Nat /\ n \in Bursts /\ Len(s) <= n
        /\ Tidy(a) /\ a.retired = {} /\ OnePinned(a)
    BY <1>8, <1>9, <1>10 DEF OnePinned
  <2> HIDE DEF s, n
  <2>2. Published(InsertAll(a, s), a, s)
    BY <2>1, PublishCorrect
  <2>3. Published(b, a, s)
    BY <2>2 DEF s
  <2> HIDE DEF b
  <2>4. /\ Tidy(b) /\ b.borrow = a.borrow /\ b.pin = a.pin
        /\ \A m \in Names : (\A i \in 1 .. Len(d.cleared) : d.cleared[i] # m)
                              => Find(b, m) = Find(a, m)
        /\ \A i \in 1 .. Len(d.cleared) : Find(b, d.cleared[i]) \in Resources \ a.owned
        /\ \A i, j \in 1 .. Len(d.cleared) :
              Find(b, d.cleared[i]) = Find(b, d.cleared[j]) => d.cleared[i] = d.cleared[j]
    BY <2>3 DEF Published, s
  <2>5. \A m : Find(a, m) = Find(arena, m)
    BY <1>8 DEF Find
  <2> QED
    BY <1>8, <1>10, <2>4, <2>5
<1> HIDE DEF b
<1>12. Balanced(b, {}, Top.image) /\ b.retired = {}
  <2>1. Balanced(b, {}, Top.image)
    BY <1>8, <1>11 DEF Balanced
  <2> QED
    BY <1>11, <2>1, QuietArena
<1> QED
  BY <1>1, <1>3, <1>5, <1>11, <1>12 DEF w, d, c

LEMMA EffectBeginsKeeps ==
    ASSUME IInv, EffectBegins
    PROVE  IInv'
<1> DEFINE w == Top.waiting[1]
           d == w.definition
<1>1. /\ phase = "chain" /\ phase' = "effect" /\ d # NoEffect /\ frames' = frames
      /\ holds' = holds /\ inlines' = inlines
      /\ d \in Catalog /\ w.binding \in Bindings(d)
  BY EffectBegun
<1>2. /\ IsRecord(eff') /\ eff'.definition = d /\ eff'.binding = w.binding
      /\ eff'.next = 1 /\ eff'.input = Top.image /\ eff'.volume = Top.volume
      /\ eff'.geometry = Top.geometry /\ eff'.output = Top.image
      /\ eff'.wroteOutputTex = FALSE /\ eff'.resolved = <<>>
  BY EffectBegun
<1>3. /\ Tidy(arena') /\ arena'.retired = {} /\ Balanced(arena', {}, Top.image)
      /\ \A m \in Names : m \notin Written(d, 0) => Find(arena', m) = Find(arena, m)
  BY EffectBegun
<1> HIDE DEF w, d
<1>4. /\ BundleSecured(arena, holds, Top)
      /\ holds \in 0 .. Len(HoldNames) /\ holds \in Nat
      /\ Top.image \in Pointers /\ Top.volume \in Pointers /\ Top.geometry \in Pointers
  BY <1>1, RunningFrame
<1>5. ImageNames \subseteq Names /\ VolumeNames \subseteq Names /\ GeometryNames \subseteq Names
  BY NamesFacts
<1>6. Len(d.passes) \in Nat
  BY <1>1, CatalogFacts
<1>7. ArenaOK'
  <2>1. InEffect' /\ Lent' = {}
    BY <1>1 DEF InEffect, Lent
  <2> QED
    BY <1>1, <1>2, <1>3, <2>1, EffectArenaKeeps
<1>8. \A n \in Taken(holds) : Find(arena', n) = Find(arena, n)
  <2>1. Taken(holds) \subseteq Names /\ Taken(holds) \cap Written(d, 0) = {}
    BY <1>1, <1>4, <1>6, TakenFacts
  <2> QED
    BY <1>1, <1>3, <2>1
<1>9. Top' = Top
  BY <1>1 DEF Top
<1>10. LocalsOK'
  <2>1. 1 \in 1 .. Len(d.passes) + 1
    BY <1>6
  <2>2. eff'.wroteOutputTex \in BOOLEAN
    BY <1>2
  <2> QED
    BY <1>1, <1>2, <1>4, <1>9, <2>1, <2>2 DEF LocalsOK
<1>11. Needed("inputTex3d", eff.definition.outputTex3d)'
         => Secured(arena', holds', eff'.volume, VolumeNames)
  <2>1. CASE Written(d, 0) \cap VolumeNames = {}
    <3>1. \A n \in VolumeNames \cup Taken(holds) : Find(arena', n) = Find(arena, n)
      BY <1>1, <1>3, <1>5, <1>8, <2>1
    <3> QED
      BY <1>1, <1>2, <1>4, <3>1, SecuredStays DEF BundleSecured
  <2>2. CASE Written(d, 0) \cap VolumeNames # {}
    <3>1. KeepsInput(d, "inputTex3d", d.outputTex3d, VolumeNames)
      BY <1>1, CatalogAssumption
    <3>2. 0 \in 0 .. Len(d.passes) /\ 0 + 1 = 1
      BY <1>6
    <3>3. /\ ~PassesThrough(d.outputTex3d)
          /\ \A j \in 1 .. Len(d.passes) : "inputTex3d" \notin d.passes[j].inputs
      BY <2>2, <3>1, <3>2 DEF KeepsInput
    <3> QED
      BY <1>2, <3>3 DEF Needed, StillSampled
  <2> QED
    BY <2>1, <2>2
<1>12. Needed("inputGeo", eff.definition.outputGeo)'
         => Secured(arena', holds', eff'.geometry, GeometryNames)
  <2>1. CASE Written(d, 0) \cap GeometryNames = {}
    <3>1. \A n \in GeometryNames \cup Taken(holds) : Find(arena', n) = Find(arena, n)
      BY <1>1, <1>3, <1>5, <1>8, <2>1
    <3> QED
      BY <1>1, <1>2, <1>4, <3>1, SecuredStays DEF BundleSecured
  <2>2. CASE Written(d, 0) \cap GeometryNames # {}
    <3>1. KeepsInput(d, "inputGeo", d.outputGeo, GeometryNames)
      BY <1>1, CatalogAssumption
    <3>2. 0 \in 0 .. Len(d.passes) /\ 0 + 1 = 1
      BY <1>6
    <3>3. /\ ~PassesThrough(d.outputGeo)
          /\ \A j \in 1 .. Len(d.passes) : "inputGeo" \notin d.passes[j].inputs
      BY <2>2, <3>1, <3>2 DEF KeepsInput
    <3> QED
      BY <1>2, <3>3 DEF Needed, StillSampled
  <2> QED
    BY <2>1, <2>2
<1>13. ImageSecured'
  <2>1. Written(d, 0) \cap ImageNames = {}
    BY <1>1, CatalogAssumption
  <2>2. \A n \in ImageNames \cup Taken(holds) : Find(arena', n) = Find(arena, n)
    BY <1>1, <1>3, <1>5, <1>8, <2>1
  <2>3. Secured(arena', holds', eff'.input, ImageNames)
    BY <1>1, <1>2, <1>4, <2>2, SecuredStays DEF BundleSecured
  <2>4. 1 .. eff'.next - 1 = {}
    BY <1>2
  <2> QED
    BY <1>2, <2>3, <2>4 DEF ImageSecured
<1>14. EffectOK'
  BY <1>10, <1>11, <1>12, <1>13 DEF EffectOK
<1> QED
  BY <1>1, <1>7, <1>8, <1>14, EffectStepKeeps

LEMMA PassBeginsKeeps ==
    ASSUME IInv, PassBegins
    PROVE  IInv'
<1> DEFINE d == eff.definition
<1>1. /\ phase = "effect" /\ HasPass /\ arena' = arena /\ frames' = frames
      /\ holds' = holds /\ inlines' = inlines
  BY DEF PassBegins
<1>2. PICK n \in ThePass.repeats :
         IF n = 0 THEN eff' = [eff EXCEPT !.next = eff.next + 1] /\ phase' = phase
                  ELSE eff' = [eff EXCEPT !.again = n] /\ phase' = "pass"
  BY DEF PassBegins
<1>3. EffectOK /\ InEffect
  BY <1>1 DEF IInv, InEffect
<1>4. d \in Catalog /\ eff.next \in 1 .. Len(d.passes) /\ Len(d.passes) \in Nat
  <2>1. d \in Catalog /\ eff.next \in 1 .. Len(d.passes) + 1
    BY <1>3 DEF EffectOK, LocalsOK
  <2>2. Len(d.passes) \in Nat
    BY <2>1, CatalogFacts
  <2>3. eff.next <= Len(d.passes)
    BY <1>1 DEF HasPass
  <2> HIDE DEF d
  <2> QED
    BY <2>1, <2>2, <2>3
<1>5. n \in Nat
  <2>1. d.passes[eff.next].repeats \subseteq Nat
    BY <1>4, CatalogFacts
  <2> QED
    BY <2>1 DEF ThePass
<1>6. /\ eff'.definition = d /\ eff'.binding = eff.binding /\ eff'.input = eff.input
      /\ eff'.volume = eff.volume /\ eff'.geometry = eff.geometry
      /\ eff'.output = eff.output /\ eff'.wroteOutputTex = eff.wroteOutputTex
      /\ eff'.resolved = eff.resolved /\ IsRecord(eff')
      /\ n = 0 => eff'.next = eff.next + 1 /\ phase' = "effect"
      /\ n # 0 => eff'.next = eff.next /\ eff'.again = n /\ phase' = "pass"
  <2>1. IsRecord(eff)
    BY <1>3 DEF EffectOK, LocalsOK
  <2>2. CASE n = 0
    <3>1. eff' = Locals(eff.definition, eff.binding, eff.next + 1, eff.again, eff.input,
                        eff.volume, eff.geometry, eff.output, eff.wroteOutputTex,
                        eff.resolved, eff.published)
      BY <1>2, <2>1, <2>2, LocalsStepped
    <3> QED
      BY <1>1, <1>2, <2>2, <3>1, LocalsFields
  <2>3. CASE n # 0
    <3>1. eff' = Locals(eff.definition, eff.binding, eff.next, n, eff.input,
                        eff.volume, eff.geometry, eff.output, eff.wroteOutputTex,
                        eff.resolved, eff.published)
      BY <1>2, <2>1, <2>3, LocalsStepped
    <3> QED
      BY <1>1, <1>2, <2>3, <3>1, LocalsFields
  <2> QED
    BY <2>2, <2>3
<1>7. eff.resolved = <<>>
  BY <1>1, <1>3 DEF EffectOK, LocalsOK
<1>8. ArenaOK'
  <2>1. InEffect' /\ Lent' = {} /\ Lent = {}
    BY <1>1, <1>6 DEF InEffect, Lent
  <2>2. Balanced(arena, {}, eff.input)
    BY <1>3, <2>1, EffectArena
  <2> QED
    BY <1>1, <1>6, <2>1, <2>2, EffectArenaKeeps DEF IInv, ArenaOK
<1>9. Top' = Top
  BY <1>1 DEF Top
<1>10. LocalsOK'
  <2>1. eff'.next \in 1 .. Len(d.passes) + 1
    BY <1>4, <1>6
  <2>2. phase' # "effect" => HasPass' /\ \E m \in ThePass'.repeats : eff'.again \in 1 .. m
    <3>1. n # 0 => HasPass' /\ ThePass' = ThePass /\ eff'.again \in 1 .. n
      BY <1>4, <1>5, <1>6 DEF HasPass, ThePass
    <3> QED
      BY <1>6, <3>1
  <2>3. phase' # "bound"
    BY <1>6
  <2> QED
    BY <1>3, <1>6, <1>7, <1>9, <2>1, <2>2, <2>3 DEF EffectOK, LocalsOK
<1>11. \A route : StillSampled(route)' => StillSampled(route)
  BY <1>4, <1>6 DEF StillSampled
<1>12. eff'.next >= eff.next /\ \A j \in 1 .. eff'.next - 1 :
          j \in 1 .. eff.next - 1 \/ CanBeSkipped(d.passes[j])
  <2>1. n = 0 => CanBeSkipped(d.passes[eff.next])
    BY <1>2 DEF CanBeSkipped, ThePass
  <2> HIDE DEF d
  <2> QED
    BY <1>4, <1>6, <2>1
<1>13. ~eff.wroteOutputTex => ImageSecured'
  <2> SUFFICES ASSUME ~eff.wroteOutputTex PROVE ImageSecured'
    OBVIOUS
  <2>1. ImageSecured
    BY <1>3 DEF EffectOK
  <2>2. \A j \in 1 .. eff'.next - 1 :
           "outputTex" \in Routes(d.passes[j]) => CanBeSkipped(d.passes[j])
    BY <1>12, <2>1 DEF ImageSecured
  <2>3. \A i \in 1 .. Len(d.passes) : OutputOf(i) => OutputOf(i)'
    <3> SUFFICES ASSUME NEW i \in 1 .. Len(d.passes), OutputOf(i) PROVE OutputOf(i)'
      OBVIOUS
    <3>1. /\ Find(arena', LastSlot(d.passes[i])) = eff'.output
          /\ "outputTex" \notin Routes(d.passes[i])
      BY <1>1, <1>6 DEF OutputOf
    <3>2. i < eff.next
      BY <1>1 DEF OutputOf
    <3>3. i < eff'.next
      BY <1>4, <1>6, <3>2
    <3>4. \A j \in i + 1 .. eff.next - 1 : CanBeSkipped(d.passes[j])
      BY DEF OutputOf
    <3>5. \A j \in i + 1 .. eff'.next - 1 : CanBeSkipped(d.passes[j])
      BY <1>4, <1>6, <1>12, <3>4
    <3> QED
      BY <1>6, <3>1, <3>3, <3>5 DEF OutputOf
  <2> QED
    BY <1>1, <1>6, <2>1, <2>2, <2>3 DEF ImageSecured
<1>14. EffectOK'
  BY <1>1, <1>3, <1>6, <1>10, <1>11, <1>13 DEF EffectOK, Needed
<1> QED
  BY <1>1, <1>6, <1>8, <1>14, EffectStepKeeps

\* What an effect in progress relies on.
LEMMA EffectFacts ==
    ASSUME IInv, InEffect
    PROVE  /\ EffectOK /\ LocalsOK /\ IsRecord(eff)
           /\ eff.definition \in Catalog /\ Len(eff.definition.passes) \in Nat
           /\ eff.next \in 1 .. Len(eff.definition.passes) + 1
           /\ eff.input \in Pointers /\ eff.volume \in Pointers /\ eff.geometry \in Pointers
           /\ eff.output \in Pointers
           /\ Tidy(arena) /\ arena.retired = {} /\ Balanced(arena, Lent, eff.input)
           /\ \A r \in Resources : arena.pin[r] # 0 => r = eff.input
           /\ eff.input # NoResource => eff.input \in Resources /\ IsReferenced(arena, eff.input)
<1>1. EffectOK /\ LocalsOK /\ IsRecord(eff)
  BY DEF IInv, EffectOK, LocalsOK
<1>2. eff.definition \in Catalog /\ eff.next \in 1 .. Len(eff.definition.passes) + 1
  BY <1>1 DEF LocalsOK
<1>3. /\ eff.input \in Pointers /\ eff.volume \in Pointers /\ eff.geometry \in Pointers
      /\ eff.output \in Pointers
  BY <1>1, RunningFrame DEF LocalsOK
<1>4. Tidy(arena) /\ arena.retired = {} /\ Balanced(arena, Lent, eff.input)
  BY EffectArena DEF IInv, ArenaOK
<1>5. \A r \in Resources : arena.pin[r] # 0 => r = eff.input
  BY <1>4 DEF Balanced
<1>6. eff.input # NoResource => eff.input \in Resources /\ IsReferenced(arena, eff.input)
  BY <1>3, <1>4 DEF Balanced, Pointers, IsReferenced
<1> QED
  BY <1>1, <1>2, <1>3, <1>4, <1>5, <1>6, CatalogFacts

LEMMA PassFacts ==
    ASSUME IInv, phase \in {"pass", "bound"}
    PROVE  /\ InEffect /\ HasPass
           /\ eff.next \in 1 .. Len(eff.definition.passes)
           /\ ThePass = eff.definition.passes[eff.next]
           /\ \E n \in ThePass.repeats : n \in Nat /\ eff.again \in 1 .. n
<1>1. InEffect
  BY DEF InEffect
<1>2. HasPass /\ \E n \in ThePass.repeats : eff.again \in 1 .. n
  BY <1>1, EffectFacts DEF LocalsOK
<1>3. eff.next \in 1 .. Len(eff.definition.passes)
  <2> DEFINE m == Len(eff.definition.passes)
  <2>1. m \in Nat /\ eff.next \in 1 .. m + 1 /\ eff.next <= m
    BY <1>1, <1>2, EffectFacts DEF HasPass
  <2> HIDE DEF m
  <2> QED
    BY <2>1 DEF m
<1>4. ThePass.repeats \subseteq Nat
  BY <1>1, <1>3, EffectFacts, CatalogFacts DEF ThePass
<1> QED
  BY <1>1, <1>2, <1>3, <1>4 DEF ThePass

\* Whatever a sampler route resolves to can be bound.
LEMMA ResolvedIsNamed ==
    ASSUME IInv, phase = "pass", NEW r \in ThePass.inputs
    PROVE  /\ ResolveRoute(r) \in Pointers
           /\ ResolveRoute(r) # NoResource =>
                ResolveRoute(r) \in Resources /\ IsReferenced(arena, ResolveRoute(r))
<1> DEFINE d == eff.definition
           x == ResolveRoute(r)
<1>1. InEffect /\ eff.next \in 1 .. Len(d.passes) /\ r \in d.passes[eff.next].inputs
  BY PassFacts
<1>2. /\ d \in Catalog /\ eff.binding \in Bindings(d) /\ Tidy(arena)
      /\ eff.input \in Pointers /\ eff.volume \in Pointers /\ eff.geometry \in Pointers
      /\ eff.input # NoResource => eff.input \in Resources /\ IsReferenced(arena, eff.input)
      /\ Len(d.passes) \in Nat /\ EffectOK
  BY <1>1, EffectFacts DEF LocalsOK
<1>3. r \in Names \cup d.parameters \cup {"inputTex", "inputTex3d", "inputGeo"}
  BY <1>1, <1>2, CatalogFacts
<1>4. /\ d.parameters \cap {"inputTex", "inputTex3d", "inputGeo"} = {}
      /\ "null" \notin Surfaces /\ "input" \notin Surfaces /\ Surfaces \subseteq Names
      /\ VolumeNames \subseteq Names /\ GeometryNames \subseteq Names
  BY <1>2, CatalogAssumption, NamesAssumption
<1>5. r \in d.parameters => eff.binding[r] \in {"null", "input"} \cup Surfaces
  BY <1>2 DEF Bindings
<1>6. StillSampled(r)
  BY <1>1, <1>2 DEF StillSampled
<1>7. \A n \in Names : /\ Find(arena, n) \in Pointers
                       /\ Find(arena, n) # NoResource =>
                            Find(arena, n) \in Resources /\ IsReferenced(arena, Find(arena, n))
  BY <1>2, TidyNames DEF Pointers
<1>8. holds \in 0 .. Len(HoldNames)
  BY RunningFrame
<1>9. CASE r \in d.parameters
  <2>1. CASE eff.binding[r] = "null"
    <3>1. x = NoResource
      BY <1>4, <1>9, <2>1 DEF ResolveRoute, IsNull
    <3> HIDE DEF x
    <3> QED
      BY <3>1 DEF Pointers, x
  <2>2. CASE eff.binding[r] = "input"
    <3>1. x = eff.input
      BY <1>4, <1>9, <2>2 DEF ResolveRoute, IsNull
    <3> HIDE DEF x
    <3> QED
      BY <1>2, <3>1 DEF x
  <2>3. CASE eff.binding[r] \in Surfaces
    <3>1. x = Find(arena, eff.binding[r])
      BY <1>4, <1>9, <2>3 DEF ResolveRoute, IsNull
    <3> HIDE DEF x
    <3> QED
      BY <1>4, <1>7, <2>3, <3>1 DEF x
  <2> QED
    BY <1>5, <1>9, <2>1, <2>2, <2>3
<1>10. CASE r \notin d.parameters
  <2>1. CASE r = "inputTex"
    <3>1. x = eff.input
      BY <1>10, <2>1 DEF ResolveRoute, IsNull
    <3> HIDE DEF x
    <3> QED
      BY <1>2, <3>1 DEF x
  <2>2. CASE r = "inputTex3d"
    <3>1. x = eff.volume
      BY <1>10, <2>2 DEF ResolveRoute, IsNull
    <3>2. Secured(arena, holds, eff.volume, VolumeNames)
      BY <1>2, <1>6, <2>2 DEF EffectOK, Needed
    <3> HIDE DEF x
    <3> QED
      BY <1>2, <1>4, <1>8, <3>1, <3>2, SecuredIsNamed DEF x
  <2>3. CASE r = "inputGeo"
    <3>1. x = eff.geometry
      BY <1>10, <2>3 DEF ResolveRoute, IsNull
    <3>2. Secured(arena, holds, eff.geometry, GeometryNames)
      BY <1>2, <1>6, <2>3 DEF EffectOK, Needed
    <3> HIDE DEF x
    <3> QED
      BY <1>2, <1>4, <1>8, <3>1, <3>2, SecuredIsNamed DEF x
  <2>4. CASE r \notin {"inputTex", "inputTex3d", "inputGeo"}
    <3>1. x = Find(arena, r)
      BY <1>10, <2>4 DEF ResolveRoute, IsNull
    <3>2. r \in Names
      BY <1>3, <1>10, <2>4
    <3> HIDE DEF x
    <3> QED
      BY <1>7, <3>1, <3>2 DEF x
  <2> QED
    BY <2>1, <2>2, <2>3, <2>4
<1> QED
  BY <1>9, <1>10

\* Every sampler is bound: one binding of each, nothing renamed.
LEMMA SamplersBoundFacts ==
    ASSUME IInv, SamplersBound, \A r \in ThePass.inputs : IsResolved(r)
    PROVE  LET resolved == [r \in Sampled(ThePass) |->
                              IF r = "destination" THEN Find(arena, ThePass.outputs[1])
                                                   ELSE ResolveRoute(r)]
           IN  /\ phase = "pass" /\ phase' = "bound" /\ frames' = frames
               /\ holds' = holds /\ inlines' = inlines
               /\ IsRecord(eff') /\ eff'.definition = eff.definition
               /\ eff'.binding = eff.binding /\ eff'.next = eff.next /\ eff'.again = eff.again
               /\ eff'.input = eff.input /\ eff'.volume = eff.volume
               /\ eff'.geometry = eff.geometry /\ eff'.output = eff.output
               /\ eff'.wroteOutputTex = eff.wroteOutputTex
               /\ eff'.resolved = resolved /\ eff'.published = eff.published
               /\ DOMAIN resolved = Sampled(ThePass) /\ Borrowed' \in SUBSET Resources
               /\ Tidy(arena') /\ arena'.retired = {} /\ arena'.named = arena.named
               /\ Balanced(arena', Borrowed', eff.input)
<1> DEFINE d == eff.definition
           resolved == [r \in Sampled(ThePass) |->
                          IF r = "destination" THEN Find(arena, ThePass.outputs[1])
                                               ELSE ResolveRoute(r)]
           borrowed == {resolved[r] : r \in ThePass.inputs} \ {NoResource}
<1>1. phase = "pass"
  BY DEF SamplersBound
<1>2. /\ eff' = [eff EXCEPT !.resolved = resolved]
      /\ arena' = RetainAll(arena, borrowed)
      /\ phase' = "bound" /\ frames' = frames /\ holds' = holds /\ inlines' = inlines
  BY DEF SamplersBound
<1>3. InEffect /\ eff.next \in 1 .. Len(d.passes) /\ ThePass = d.passes[eff.next] /\ HasPass
      /\ \E n \in ThePass.repeats : eff.again \in 1 .. n
  BY <1>1, PassFacts
<1>4. /\ EffectOK /\ LocalsOK /\ IsRecord(eff) /\ d \in Catalog /\ Tidy(arena)
      /\ arena.retired = {} /\ Balanced(arena, Lent, eff.input)
  BY <1>3, EffectFacts
<1>5. "destination" \notin ThePass.inputs
  <2>1. ThePass.inputs \subseteq Names \cup d.parameters \cup {"inputTex", "inputTex3d", "inputGeo"}
    BY <1>3, <1>4, CatalogFacts
  <2>2. "destination" \notin Names /\ "destination" \notin d.parameters
    BY <1>4, CatalogAssumption, NamesAssumption
  <2> QED
    BY <2>1, <2>2
<1>6. /\ DOMAIN resolved = Sampled(ThePass)
      /\ DOMAIN resolved \ {"destination"} = ThePass.inputs
      /\ \A r \in ThePass.inputs : resolved[r] = ResolveRoute(r)
  BY <1>5 DEF Sampled
<1> HIDE DEF resolved
<1>7. /\ borrowed \in SUBSET Resources
      /\ \A r \in borrowed : IsReferenced(arena, r)
  BY <1>1, <1>6, ResolvedIsNamed
<1>8. eff' = Locals(d, eff.binding, eff.next, eff.again, eff.input, eff.volume,
                    eff.geometry, eff.output, eff.wroteOutputTex, resolved, eff.published)
  BY <1>2, <1>4, LocalsStepped
<1>9. /\ IsRecord(eff') /\ eff'.definition = d /\ eff'.binding = eff.binding
      /\ eff'.next = eff.next /\ eff'.again = eff.again /\ eff'.input = eff.input
      /\ eff'.volume = eff.volume /\ eff'.geometry = eff.geometry
      /\ eff'.output = eff.output /\ eff'.wroteOutputTex = eff.wroteOutputTex
      /\ eff'.resolved = resolved /\ eff'.published = eff.published
  BY <1>8, LocalsFields
<1>10. Borrowed' = borrowed
  BY <1>6, <1>9 DEF Borrowed
<1> HIDE DEF borrowed
<1>11. Balanced(arena, {}, eff.input)
  BY <1>1, <1>4 DEF Lent
<1>12. /\ Tidy(arena') /\ arena'.named = arena.named /\ arena'.pin = arena.pin
       /\ arena'.borrow = [r \in Resources |-> IF r \in borrowed THEN arena.borrow[r] + 1
                                                                 ELSE arena.borrow[r]]
       /\ arena'.retired = {}
  <2>1. \A r \in borrowed : arena.borrow[r] < MaxCount
    BY <1>7, <1>11, MaxCountAssumption DEF Balanced
  <2> QED
    BY <1>2, <1>4, <1>7, <2>1, RetainAllTidy
<1>13. Balanced(arena', borrowed, eff.input)
  BY <1>7, <1>11, <1>12 DEF Balanced
<1> QED
  BY <1>1, <1>2, <1>6, <1>7, <1>9, <1>10, <1>12, <1>13 DEF resolved

LEMMA SamplersBoundKeeps ==
    ASSUME IInv, SamplersBound
    PROVE  IInv'
<1> DEFINE d == eff.definition
<1>1. phase = "pass"
  BY DEF SamplersBound
<1>2. CASE ~\A r \in ThePass.inputs : IsResolved(r)
  <2>1. Throw
    BY <1>2 DEF SamplersBound
  <2> QED
    BY <1>1, <2>1, ThrowKeeps
<1>3. CASE \A r \in ThePass.inputs : IsResolved(r)
  <2> DEFINE resolved == [r \in Sampled(ThePass) |->
                            IF r = "destination" THEN Find(arena, ThePass.outputs[1])
                                                 ELSE ResolveRoute(r)]
  <2>1. phase' = "bound" /\ frames' = frames /\ holds' = holds /\ inlines' = inlines
    BY <1>3, SamplersBoundFacts
  <2>2. InEffect /\ eff.next \in 1 .. Len(d.passes) /\ ThePass = d.passes[eff.next] /\ HasPass
        /\ \E n \in ThePass.repeats : eff.again \in 1 .. n
    BY <1>1, PassFacts
  <2>3. EffectOK /\ LocalsOK
    BY <2>2, EffectFacts
  <2>4. /\ IsRecord(eff') /\ eff'.definition = d /\ eff'.binding = eff.binding
        /\ eff'.next = eff.next /\ eff'.again = eff.again /\ eff'.input = eff.input
        /\ eff'.volume = eff.volume /\ eff'.geometry = eff.geometry
        /\ eff'.output = eff.output /\ eff'.wroteOutputTex = eff.wroteOutputTex
        /\ eff'.resolved = resolved /\ DOMAIN resolved = Sampled(ThePass)
    BY <1>3, SamplersBoundFacts
  <2> HIDE DEF resolved
  <2>5. /\ Tidy(arena') /\ arena'.retired = {} /\ arena'.named = arena.named
        /\ Balanced(arena', Borrowed', eff.input) /\ Borrowed' \in SUBSET Resources
    BY <1>3, SamplersBoundFacts
  <2>6. ArenaOK'
    <3>1. InEffect' /\ Lent' = Borrowed'
      BY <2>1 DEF InEffect, Lent
    <3> QED
      BY <2>4, <2>5, <3>1, EffectArenaKeeps
  <2>7. \A n : Find(arena', n) = Find(arena, n)
    BY <2>5 DEF Find
  <2>8. Top' = Top
    BY <2>1 DEF Top
  <2>9. ThePass' = ThePass /\ HasPass' /\ \A route : StillSampled(route)' <=> StillSampled(route)
    BY <2>2, <2>4 DEF ThePass, HasPass, StillSampled
  <2>10. LocalsOK'
    BY <2>1, <2>2, <2>3, <2>4, <2>5, <2>8, <2>9 DEF LocalsOK
  <2>11. \A r, names : Secured(arena', holds', r, names) <=> Secured(arena, holds, r, names)
    BY <2>1, <2>7 DEF Secured
  <2>12. ImageSecured => ImageSecured'
    <3>1. \A i \in 1 .. Len(d.passes) : OutputOf(i) => OutputOf(i)'
      BY <1>1, <2>1, <2>4, <2>7 DEF OutputOf
    <3> QED
      BY <2>4, <2>11, <3>1 DEF ImageSecured
  <2>13. EffectOK'
    BY <2>3, <2>4, <2>9, <2>10, <2>11, <2>12 DEF EffectOK, Needed
  <2> QED
    BY <2>1, <2>6, <2>7, <2>13, EffectStepKeeps
<1> QED
  BY <1>2, <1>3

\* A component that came in is still named while it is still needed.
LEMMA NeededStaysSecured ==
    ASSUME IInv, phase = "bound",
           NEW x \in Nat, x = IF eff.again = 1 THEN eff.next + 1 ELSE eff.next,
           NEW input, NEW output, NEW names \in SUBSET Names, NEW r, NEW b,
           KeepsInput(eff.definition, input, output, names),
           Needed(input, output) => Secured(arena, holds, r, names),
           \A n \in Names : n \notin Routes(ThePass) => Find(b, n) = Find(arena, n),
           \/ PassesThrough(output)
           \/ \E i \in x .. Len(eff.definition.passes) : input \in eff.definition.passes[i].inputs
    PROVE  Secured(b, holds, r, names)
<1> DEFINE d == eff.definition
           m == Len(d.passes)
<1>1. /\ InEffect /\ eff.next \in 1 .. m /\ ThePass = d.passes[eff.next] /\ m \in Nat
      /\ d \in Catalog /\ \E n \in ThePass.repeats : n \in Nat /\ eff.again \in 1 .. n
  BY PassFacts, EffectFacts
<1>2. Written(d, eff.next) = Routes(ThePass)
  BY <1>1, CatalogFacts
<1>3. holds \in 0 .. Len(HoldNames) /\ holds \in Nat
  BY RunningFrame
<1>4. Taken(holds) \subseteq Names /\ Taken(holds) \cap Routes(ThePass) = {}
  <2>1. eff.next \in 0 .. m
    BY <1>1
  <2> QED
    BY <1>1, <1>2, <1>3, <2>1, TakenFacts
<1>5. x \in {eff.next, eff.next + 1} /\ (x = eff.next => eff.again # 1)
  <2> HIDE DEF m
  <2> QED
    BY <1>1
<1>6. Needed(input, output)
  <2>1. ASSUME NEW i \in x .. m, input \in d.passes[i].inputs PROVE StillSampled(input)
    <3>1. i \in eff.next .. m
      <4> HIDE DEF m
      <4> QED
        BY <1>1, <1>5
    <3> QED
      BY <2>1, <3>1 DEF StillSampled
  <2> QED
    BY <2>1 DEF Needed
<1>7. CASE Routes(ThePass) \cap names = {}
  <2>1. \A n \in names \cup Taken(holds) : Find(b, n) = Find(arena, n)
    BY <1>4, <1>7
  <2> QED
    BY <1>3, <1>6, <2>1, SecuredStays
<1>8. CASE Routes(ThePass) \cap names # {}
  <2>1. /\ ~PassesThrough(output)
        /\ \A j \in eff.next + 1 .. m : input \notin d.passes[j].inputs
        /\ input \in ThePass.inputs => ThePass.repeats \subseteq {0, 1}
    <3>1. eff.next \in 0 .. m /\ eff.next # 0
      BY <1>1
    <3> QED
      BY <1>1, <1>2, <1>8, <3>1 DEF KeepsInput
  <2>2. PICK i \in x .. m : input \in d.passes[i].inputs
    BY <2>1
  <2>3. i = eff.next /\ x = eff.next
    <3>1. i \notin eff.next + 1 .. m
      BY <2>1, <2>2
    <3> HIDE DEF m
    <3> QED
      BY <1>1, <1>5, <2>2, <3>1
  <2>4. ThePass.repeats \subseteq {0, 1}
    BY <1>1, <2>1, <2>2, <2>3
  <2>5. eff.again = 1
    BY <1>1, <2>4
  <2> QED
    BY <1>5, <2>3, <2>5
<1> QED
  BY <1>7, <1>8

\* What a pass leaves behind: its outputs, which are new, under its routes.
LEMMA PassPublished ==
    ASSUME IInv, PassPublishes
    PROVE  /\ phase = "bound" /\ phase' = (IF eff.again = 1 THEN "effect" ELSE "pass")
           /\ frames' = frames /\ holds' = holds /\ inlines' = inlines
           /\ IsRecord(eff') /\ eff'.definition = eff.definition
           /\ eff'.binding = eff.binding
           /\ eff'.next = (IF eff.again = 1 THEN eff.next + 1 ELSE eff.next)
           /\ eff'.again = eff.again - 1 /\ eff'.input = eff.input
           /\ eff'.volume = eff.volume /\ eff'.geometry = eff.geometry
           /\ eff'.output = Find(arena', LastSlot(ThePass))
           /\ eff'.wroteOutputTex = (eff.wroteOutputTex \/ "outputTex" \in Routes(ThePass))
           /\ eff'.resolved = <<>> /\ eff'.published = eff.published \cup Routes(ThePass)
           /\ Routes(ThePass) \subseteq Names /\ LastSlot(ThePass) \in Routes(ThePass)
           /\ Written(eff.definition, eff.next) = Routes(ThePass)
           /\ Tidy(arena') /\ Balanced(arena', {}, eff.input)
           /\ \A n \in Names : n \notin Routes(ThePass) => Find(arena', n) = Find(arena, n)
           /\ \A r \in Routes(ThePass) : Find(arena', r) \in Resources \ arena.owned
           /\ \A r, q \in Routes(ThePass) : Find(arena', r) = Find(arena', q) => r = q
<1> DEFINE d == eff.definition
           m == Len(d.passes)
           outs == ThePass.outputs
           b == InsertAll(arena, outs)
           o == Find(b, LastSlot(ThePass))
           u == eff.wroteOutputTex \/ "outputTex" \in Routes(ThePass)
           s == eff.published \cup Routes(ThePass)
           y == eff.again - 1
           x == IF eff.again = 1 THEN eff.next + 1 ELSE eff.next
<1>1. /\ phase = "bound" /\ arena' = ReleaseAll(b, Borrowed)
      /\ eff' = [eff EXCEPT !.output = o, !.wroteOutputTex = u, !.published = s,
                            !.resolved = <<>>, !.again = y, !.next = x]
      /\ phase' = (IF eff.again = 1 THEN "effect" ELSE "pass")
      /\ frames' = frames /\ holds' = holds /\ inlines' = inlines
  BY DEF PassPublishes
<1>2. /\ InEffect /\ HasPass /\ eff.next \in 1 .. m /\ ThePass = d.passes[eff.next]
      /\ \E n \in ThePass.repeats : n \in Nat /\ eff.again \in 1 .. n
  BY <1>1, PassFacts
<1>3. /\ EffectOK /\ LocalsOK /\ IsRecord(eff) /\ d \in Catalog /\ m \in Nat
      /\ eff.input \in Pointers /\ Tidy(arena) /\ arena.retired = {}
      /\ Balanced(arena, Lent, eff.input)
      /\ \A r \in Resources : arena.pin[r] # 0 => r = eff.input
      /\ eff.input # NoResource => eff.input \in Resources /\ IsReferenced(arena, eff.input)
  BY <1>2, EffectFacts
<1>4. /\ outs \in Seq(Names) /\ Len(outs) \in Nat /\ Len(outs) \in Bursts
      /\ Len(outs) \in 1 .. Len(outs) /\ LastSlot(ThePass) = outs[Len(outs)]
      /\ LastSlot(ThePass) \in Names
      /\ Written(d, eff.next) = Routes(ThePass)
      /\ \A i \in 1 .. Len(outs) : outs[i] \in Routes(ThePass)
  <2>1. /\ outs \in Seq(Names) /\ Len(outs) \in Nat /\ Len(outs) \in Bursts
        /\ Len(outs) \in 1 .. Len(outs) /\ LastSlot(ThePass) \in Names
        /\ Written(d, eff.next) = Routes(ThePass)
    BY <1>2, <1>3, CatalogFacts
  <2>2. LastSlot(ThePass) = outs[Len(outs)]
    BY DEF LastSlot
  <2>3. \A i \in 1 .. Len(outs) : outs[i] \in Routes(ThePass)
    BY DEF Routes
  <2> QED
    BY <2>1, <2>2, <2>3
<1>5. /\ IsRecord(eff') /\ eff'.definition = d /\ eff'.binding = eff.binding
      /\ eff'.next = x /\ eff'.again = y /\ eff'.input = eff.input
      /\ eff'.volume = eff.volume /\ eff'.geometry = eff.geometry /\ eff'.output = o
      /\ eff'.wroteOutputTex = u /\ eff'.resolved = <<>> /\ eff'.published = s
  <2>1. IsRecord(eff)
    BY <1>3
  <2> HIDE DEF o, u, s, y, x
  <2>2. eff' = Locals(d, eff.binding, x, y, eff.input, eff.volume, eff.geometry, o, u, <<>>, s)
    <3> DEFINE f1 == [eff EXCEPT !.output = o]
               f2 == [f1 EXCEPT !.wroteOutputTex = u]
               f3 == [f2 EXCEPT !.published = s]
               f4 == [f3 EXCEPT !.resolved = <<>>]
               f5 == [f4 EXCEPT !.again = y]
               f6 == [f5 EXCEPT !.next = x]
    <3>1. eff' = f6
      BY <1>1
    <3>2. f1 = Locals(eff.definition, eff.binding, eff.next, eff.again, eff.input,
                      eff.volume, eff.geometry, o, eff.wroteOutputTex, eff.resolved,
                      eff.published)
      BY <2>1 DEF IsRecord, Locals
    <3> HIDE DEF f1
    <3>3. f2 = Locals(eff.definition, eff.binding, eff.next, eff.again, eff.input,
                      eff.volume, eff.geometry, o, u, eff.resolved, eff.published)
      BY <3>2 DEF Locals
    <3> HIDE DEF f2
    <3>4. f3 = Locals(eff.definition, eff.binding, eff.next, eff.again, eff.input,
                      eff.volume, eff.geometry, o, u, eff.resolved, s)
      BY <3>3 DEF Locals
    <3> HIDE DEF f3
    <3>5. f4 = Locals(eff.definition, eff.binding, eff.next, eff.again, eff.input,
                      eff.volume, eff.geometry, o, u, <<>>, s)
      BY <3>4 DEF Locals
    <3> HIDE DEF f4
    <3>6. f5 = Locals(eff.definition, eff.binding, eff.next, y, eff.input, eff.volume,
                      eff.geometry, o, u, <<>>, s)
      BY <3>5 DEF Locals
    <3> HIDE DEF f5
    <3>7. f6 = Locals(eff.definition, eff.binding, x, y, eff.input, eff.volume,
                      eff.geometry, o, u, <<>>, s)
      BY <3>6 DEF Locals
    <3> HIDE DEF f6
    <3> QED
      BY <3>1, <3>7
  <2> QED
    BY <2>2, LocalsFields
<1>6. /\ Tidy(b) /\ b.borrow = arena.borrow /\ b.pin = arena.pin
      /\ \A n \in Names : n \notin Routes(ThePass) => Find(b, n) = Find(arena, n)
      /\ \A i \in 1 .. Len(outs) : Find(b, outs[i]) \in Resources \ arena.owned
      /\ \A i, j \in 1 .. Len(outs) : Find(b, outs[i]) = Find(b, outs[j]) => outs[i] = outs[j]
  <2> DEFINE n == Len(outs)
  <2>1. outs \in Seq(Names) /\ n \in Nat /\ n \in Bursts /\ Len(outs) <= n
    BY <1>4
  <2>2. Tidy(arena) /\ arena.retired = {} /\ OnePinned(arena)
    BY <1>3 DEF OnePinned
  <2> HIDE DEF n, outs
  <2>3. Published(InsertAll(arena, outs), arena, outs)
    BY <2>1, <2>2, PublishCorrect
  <2> HIDE DEF b
  <2>4. Published(b, arena, outs)
    BY <2>3 DEF b
  <2> QED
    BY <1>4, <2>4 DEF Published
<1> HIDE DEF b
<1>7. /\ Tidy(arena') /\ arena'.named = b.named /\ Balanced(arena', {}, eff.input)
  <2>1. Borrowed \in SUBSET Resources /\ Balanced(arena, Borrowed, eff.input)
    BY <1>2, EffectArena
  <2>2. Balanced(b, Borrowed, eff.input)
    BY <1>6, <2>1 DEF Balanced
  <2> QED
    BY <1>1, <1>6, <2>1, <2>2, ReleaseLentCorrect
<1>8. \A n : Find(arena', n) = Find(b, n)
  BY <1>7 DEF Find
<1>9. /\ Routes(ThePass) \subseteq Names /\ LastSlot(ThePass) \in Routes(ThePass)
      /\ \A r \in Routes(ThePass) : \E i \in 1 .. Len(outs) : r = outs[i]
  <2>1. \A i \in 1 .. Len(outs) : outs[i] \in Names
    BY <1>4
  <2> QED
    BY <1>4, <2>1 DEF Routes
<1>10. /\ \A n \in Names : n \notin Routes(ThePass) => Find(arena', n) = Find(arena, n)
       /\ \A r \in Routes(ThePass) : Find(arena', r) \in Resources \ arena.owned
       /\ \A r, q \in Routes(ThePass) : Find(arena', r) = Find(arena', q) => r = q
  BY <1>6, <1>8, <1>9
<1>11. o = Find(arena', LastSlot(ThePass))
  BY <1>8
<1> HIDE DEF o
<1> QED
  BY <1>1, <1>4, <1>5, <1>7, <1>9, <1>10, <1>11

LEMMA PassPublishesKeeps ==
    ASSUME IInv, PassPublishes
    PROVE  IInv'
<1> DEFINE d == eff.definition
           m == Len(d.passes)
           o == Find(arena', LastSlot(ThePass))
           u == eff.wroteOutputTex \/ "outputTex" \in Routes(ThePass)
           y == eff.again - 1
           x == IF eff.again = 1 THEN eff.next + 1 ELSE eff.next
<1>1. /\ phase = "bound"
      /\ phase' = (IF eff.again = 1 THEN "effect" ELSE "pass")
      /\ frames' = frames /\ holds' = holds /\ inlines' = inlines
  BY PassPublished
<1>2. /\ InEffect /\ HasPass /\ eff.next \in 1 .. m /\ ThePass = d.passes[eff.next]
      /\ \E n \in ThePass.repeats : n \in Nat /\ eff.again \in 1 .. n
  BY <1>1, PassFacts
<1>3. /\ EffectOK /\ LocalsOK /\ IsRecord(eff) /\ d \in Catalog /\ m \in Nat
      /\ eff.input \in Pointers /\ Tidy(arena) /\ arena.retired = {}
      /\ Balanced(arena, Lent, eff.input)
      /\ \A r \in Resources : arena.pin[r] # 0 => r = eff.input
      /\ eff.input # NoResource => eff.input \in Resources /\ IsReferenced(arena, eff.input)
  BY <1>2, EffectFacts
<1>4. Written(d, eff.next) = Routes(ThePass)
  BY PassPublished
<1>5. /\ IsRecord(eff') /\ eff'.definition = d /\ eff'.binding = eff.binding
      /\ eff'.next = x /\ eff'.again = y /\ eff'.input = eff.input
      /\ eff'.volume = eff.volume /\ eff'.geometry = eff.geometry /\ eff'.output = o
      /\ eff'.wroteOutputTex = u /\ eff'.resolved = <<>>
  BY PassPublished
<1>6. /\ x \in 1 .. m + 1 /\ x \in Nat /\ eff.next <= x
      /\ eff.again = 1 => x = eff.next + 1 /\ phase' = "effect"
      /\ eff.again # 1 => /\ x = eff.next /\ phase' = "pass"
                          /\ \E n \in ThePass.repeats : n \in Nat /\ y \in 1 .. n
  <2>1. eff.again = 1 => x = eff.next + 1 /\ phase' = "effect"
    BY <1>1
  <2>2. eff.again # 1 => x = eff.next /\ phase' = "pass"
    BY <1>1
  <2>3. eff.again # 1 => \E n \in ThePass.repeats : n \in Nat /\ y \in 1 .. n
    BY <1>2
  <2>4. x \in 1 .. m + 1 /\ x \in Nat /\ eff.next <= x
    <3> HIDE DEF m, x
    <3> QED
      BY <1>2, <1>3, <2>1, <2>2
  <2> QED
    BY <2>1, <2>2, <2>3, <2>4
<1>7. o \in Resources \ arena.owned
  BY PassPublished
<1>8. Tidy(arena') /\ Balanced(arena', {}, eff.input)
  BY PassPublished
<1>9. ArenaOK'
  <2>1. InEffect' /\ Lent' = {}
    BY <1>6 DEF InEffect, Lent
  <2>2. arena'.retired = {}
    BY <1>8, QuietArena
  <2> QED
    BY <1>5, <1>8, <2>1, <2>2, EffectArenaKeeps
<1>10. \A n \in Names : n \notin Routes(ThePass) => Find(arena', n) = Find(arena, n)
  BY PassPublished
<1>11. Taken(holds) \subseteq Names /\ Taken(holds) \cap Routes(ThePass) = {}
       /\ holds \in Nat
  <2>1. eff.next \in 0 .. m
    BY <1>2
  <2>2. holds \in 0 .. Len(HoldNames) /\ holds \in Nat
    BY RunningFrame
  <2> QED
    BY <1>3, <1>4, <2>1, <2>2, TakenFacts
<1>12. \A n \in Taken(holds) : Find(arena', n) = Find(arena, n)
  BY <1>10, <1>11
<1>13. Top' = Top
  BY <1>1 DEF Top
<1> HIDE DEF x, y, o, u
<1>14. LocalsOK'
  <2>1. phase' # "effect" => HasPass' /\ \E n \in ThePass'.repeats : eff'.again \in 1 .. n
    <3>1. phase' # "effect" => eff.again # 1
      BY <1>6
    <3>2. eff.again # 1 => ThePass' = ThePass /\ HasPass'
      BY <1>2, <1>5, <1>6 DEF ThePass, HasPass
    <3> QED
      BY <1>5, <1>6, <3>1, <3>2
  <2>2. o \in Pointers /\ phase' # "bound" /\ u \in BOOLEAN
    BY <1>6, <1>7 DEF Pointers, u
  <2> QED
    BY <1>3, <1>5, <1>6, <1>13, <2>1, <2>2 DEF LocalsOK
<1>15. \A route : StillSampled(route)' <=> \E i \in x .. m : route \in d.passes[i].inputs
  BY <1>5 DEF StillSampled
<1>16. /\ VolumeNames \subseteq Names /\ GeometryNames \subseteq Names /\ ImageNames \subseteq Names
  BY NamesFacts
<1>17. x = IF eff.again = 1 THEN eff.next + 1 ELSE eff.next
  BY DEF x
<1>18. Needed("inputTex3d", eff.definition.outputTex3d)'
         => Secured(arena', holds', eff'.volume, VolumeNames)
  <2>1. KeepsInput(d, "inputTex3d", d.outputTex3d, VolumeNames)
    BY <1>3, CatalogAssumption
  <2>2. Needed("inputTex3d", d.outputTex3d) => Secured(arena, holds, eff.volume, VolumeNames)
    BY <1>3 DEF EffectOK
  <2>3. Needed("inputTex3d", eff.definition.outputTex3d)'
          => \/ PassesThrough(d.outputTex3d)
             \/ \E i \in x .. m : "inputTex3d" \in d.passes[i].inputs
    BY <1>5, <1>15 DEF Needed
  <2>4. eff'.volume = eff.volume /\ holds' = holds
    BY <1>1, <1>5
  <2> QED
    BY <1>1, <1>6, <1>10, <1>16, <1>17, <2>1, <2>2, <2>3, <2>4, NeededStaysSecured
<1>19. Needed("inputGeo", eff.definition.outputGeo)'
         => Secured(arena', holds', eff'.geometry, GeometryNames)
  <2>1. KeepsInput(d, "inputGeo", d.outputGeo, GeometryNames)
    BY <1>3, CatalogAssumption
  <2>2. Needed("inputGeo", d.outputGeo) => Secured(arena, holds, eff.geometry, GeometryNames)
    BY <1>3 DEF EffectOK
  <2>3. Needed("inputGeo", eff.definition.outputGeo)'
          => \/ PassesThrough(d.outputGeo)
             \/ \E i \in x .. m : "inputGeo" \in d.passes[i].inputs
    BY <1>5, <1>15 DEF Needed
  <2>4. eff'.geometry = eff.geometry /\ holds' = holds
    BY <1>1, <1>5
  <2> QED
    BY <1>1, <1>6, <1>10, <1>16, <1>17, <2>1, <2>2, <2>3, <2>4, NeededStaysSecured
<1>20. ~eff'.wroteOutputTex => ImageSecured'
  <2> SUFFICES ASSUME ~eff'.wroteOutputTex PROVE ImageSecured'
    OBVIOUS
  <2>1. ~eff.wroteOutputTex /\ "outputTex" \notin Routes(ThePass)
    BY <1>5 DEF u
  <2>2. ImageSecured
    BY <1>3, <2>1 DEF EffectOK
  <2>3. \A j \in 1 .. x - 1 : j \in 1 .. eff.next - 1 \/ j = eff.next
    <3> HIDE DEF m
    <3> QED
      BY <1>2, <1>6
  <2>4. \A j \in 1 .. x - 1 : "outputTex" \in Routes(d.passes[j]) => CanBeSkipped(d.passes[j])
    BY <1>2, <2>1, <2>2, <2>3 DEF ImageSecured
  <2>5. o # eff.input
    BY <1>3, <1>7, NoResourceAssumption DEF Tidy, IsHeld
  <2>6. IsVolumeDomain(d.domain) => Secured(arena', holds, eff.input, ImageNames)
    <3> SUFFICES ASSUME IsVolumeDomain(d.domain)
                 PROVE  Secured(arena', holds, eff.input, ImageNames)
      OBVIOUS
    <3>1. Written(d, eff.next) \cap ImageNames \subseteq {"outputTex"}
      BY <1>2, <1>3, CatalogAssumption
    <3>2. Routes(ThePass) \cap ImageNames = {}
      BY <1>4, <2>1, <3>1
    <3>3. \A n \in ImageNames \cup Taken(holds) : Find(arena', n) = Find(arena, n)
      BY <1>10, <1>12, <1>16, <3>2
    <3>4. Secured(arena, holds, eff.input, ImageNames)
      BY <2>2 DEF ImageSecured
    <3> QED
      BY <1>11, <3>3, <3>4, SecuredStays
  <2>7. PICK k \in 1 .. m : k = eff.next
    BY <1>2
  <2>8. OutputOf(k)'
    <3>1. Find(arena', LastSlot(d.passes[k])) = o
      BY <1>2, <1>4, <1>10, <2>7 DEF o
    <3>2. k < x \/ (k = x /\ phase' # "effect")
      <4> HIDE DEF m
      <4> QED
        BY <1>2, <1>6, <2>7
    <3>3. k + 1 .. x - 1 = {}
      <4> HIDE DEF m
      <4> QED
        BY <1>2, <1>6, <2>7
    <3>4. "outputTex" \notin Routes(d.passes[k])
      BY <1>2, <2>1, <2>7
    <3> QED
      BY <1>5, <3>1, <3>2, <3>3, <3>4 DEF OutputOf
  <2>9. \E i \in 1 .. m : OutputOf(i)'
    BY <2>8
  <2>10. (\E i \in 1 .. Len(eff.definition.passes) : OutputOf(i))'
    BY <1>5, <2>9
  <2> QED
    BY <1>1, <1>5, <2>4, <2>5, <2>6, <2>10 DEF ImageSecured
<1>21. EffectOK'
  BY <1>14, <1>18, <1>19, <1>20 DEF EffectOK
<1>22. phase' \in {"effect", "pass", "bound"}
  BY <1>6
<1> QED
  BY <1>1, <1>9, <1>12, <1>21, <1>22, EffectStepKeeps

\* The last slot of the last pass that ran is a name the image may have.
LEMMA OutputSecured ==
    ASSUME IInv, phase = "effect", ~HasPass, ~eff.wroteOutputTex,
           ~IsVolumeDomain(eff.definition.domain)
    PROVE  Secured(arena, holds, eff.output, ImageNames)
<1> DEFINE d == eff.definition
           m == Len(d.passes)
<1>1. InEffect /\ EffectOK /\ d \in Catalog /\ m \in Nat /\ eff.next \in 1 .. m + 1
  BY EffectFacts DEF InEffect
<1>2. eff.next = m + 1
  <2>1. ~(eff.next <= m)
    BY DEF HasPass
  <2> HIDE DEF m
  <2> QED
    BY <1>1, <2>1
<1>3. ImageSecured
  BY <1>1 DEF EffectOK
<1>4. CASE eff.output = eff.input
  BY <1>3, <1>4 DEF ImageSecured
<1>5. CASE eff.output # eff.input
  <2>1. PICK i \in 1 .. m : OutputOf(i)
    BY <1>3, <1>5 DEF ImageSecured
  <2>2. \A j \in 1 .. m : j > i \/ "outputTex" \in Routes(d.passes[j]) => CanBeSkipped(d.passes[j])
    <3> SUFFICES ASSUME NEW j \in 1 .. m PROVE j > i \/ "outputTex" \in Routes(d.passes[j])
                                                 => CanBeSkipped(d.passes[j])
      OBVIOUS
    <3>1. j \in 1 .. eff.next - 1 /\ (j > i => j \in i + 1 .. eff.next - 1)
      <4> HIDE DEF m
      <4> QED
        BY <1>1, <1>2
    <3> QED
      BY <1>3, <2>1, <3>1 DEF ImageSecured, OutputOf
  <2>3. MayRunLast(d, i)
    BY <2>1, <2>2 DEF MayRunLast, OutputOf
  <2>4. LastSlot(d.passes[i]) \in ImageNames
    BY <1>1, <2>3 DEF ImageNames
  <2>5. Find(arena, LastSlot(d.passes[i])) = eff.output
    BY <2>1 DEF OutputOf
  <2> QED
    BY <2>4, <2>5 DEF Secured
<1> QED
  BY <1>4, <1>5

LEMMA ImageOutputSecured ==
    ASSUME IInv, phase = "effect", ~HasPass
    PROVE  ImageOutput \in Pointers /\ Secured(arena, holds, ImageOutput, ImageNames)
<1>1. InEffect /\ EffectOK /\ Tidy(arena) /\ eff.input \in Pointers /\ eff.output \in Pointers
  BY EffectFacts DEF InEffect
<1>2. CASE eff.wroteOutputTex
  <2>1. ImageOutput = Find(arena, "outputTex")
    BY <1>2 DEF ImageOutput
  <2> QED
    BY <1>1, <2>1, NamesFacts, FoundSecured
<1>3. CASE ~eff.wroteOutputTex /\ IsVolumeDomain(eff.definition.domain)
  <2>1. ImageOutput = eff.input
    BY <1>3 DEF ImageOutput
  <2>2. Secured(arena, holds, eff.input, ImageNames)
    BY <1>1, <1>3 DEF EffectOK, ImageSecured
  <2> QED
    BY <1>1, <2>1, <2>2
<1>4. CASE ~eff.wroteOutputTex /\ ~IsVolumeDomain(eff.definition.domain)
  <2>1. ImageOutput = eff.output
    BY <1>4 DEF ImageOutput
  <2> QED
    BY <1>1, <1>4, <2>1, OutputSecured
<1> QED
  BY <1>2, <1>3, <1>4

LEMMA BundleOutputSecured ==
    ASSUME NEW a, Tidy(a), NEW k, NEW names \in SUBSET Names, NEW name,
           PassesThrough(name) \/ name \in names, NEW input \in Pointers,
           PassesThrough(name) => Secured(a, k, input, names), a = arena
    PROVE  /\ BundleOutput(name, input) \in Pointers
           /\ Secured(a, k, BundleOutput(name, input), names)
<1>1. CASE PassesThrough(name)
  BY <1>1 DEF BundleOutput
<1>2. CASE ~PassesThrough(name)
  <2>1. name \in names /\ BundleOutput(name, input) = Find(a, name)
    BY <1>2 DEF BundleOutput
  <2> QED
    BY <2>1, FoundSecured
<1> QED
  BY <1>1, <1>2

LEMMA EffectEndsKeeps ==
    ASSUME IInv, EffectEnds
    PROVE  IInv'
<1> DEFINE d == eff.definition
           volume == BundleOutput(d.outputTex3d, eff.volume)
           geometry == BundleOutput(d.outputGeo, eff.geometry)
           f == [image |-> ImageOutput, volume |-> volume, geometry |-> geometry,
                 length |-> Top.length, waiting |-> <<>>]
           fails == \/ RequiresOutputImage(d.domain) /\ ImageOutput = NoResource
                    \/ RequiresOutputVolume(d.domain) /\ volume = NoResource
<1>1. phase = "effect" /\ ~HasPass
  BY DEF EffectEnds
<1>2. CASE fails
  <2>1. Throw
    BY <1>2 DEF EffectEnds
  <2> QED
    BY <1>1, <2>1, ThrowKeeps
<1>3. CASE ~fails
  <2>1. /\ SetTop(f) /\ arena' = UnpinInput(arena, eff.input) /\ eff' = IdleEffect
        /\ phase' = "chain" /\ holds' = holds /\ inlines' = inlines
    BY <1>3 DEF EffectEnds
  <2>2. /\ InEffect /\ EffectOK /\ d \in Catalog /\ Tidy(arena)
        /\ eff.input \in Pointers /\ eff.volume \in Pointers /\ eff.geometry \in Pointers
        /\ Balanced(arena, Lent, eff.input)
    BY <1>1, EffectFacts DEF InEffect
  <2>3. VolumeNames \subseteq Names /\ GeometryNames \subseteq Names
    BY NamesFacts
  <2>4. ImageOutput \in Pointers /\ Secured(arena, holds, ImageOutput, ImageNames)
    BY <1>1, ImageOutputSecured
  <2>5. volume \in Pointers /\ Secured(arena, holds, volume, VolumeNames)
    <3>1. PassesThrough(d.outputTex3d) \/ d.outputTex3d \in VolumeNames
      BY <2>2 DEF VolumeNames
    <3>2. PassesThrough(d.outputTex3d) => Secured(arena, holds, eff.volume, VolumeNames)
      BY <2>2 DEF EffectOK, Needed
    <3> QED
      BY <2>2, <2>3, <3>1, <3>2, BundleOutputSecured
  <2>6. geometry \in Pointers /\ Secured(arena, holds, geometry, GeometryNames)
    <3>1. PassesThrough(d.outputGeo) \/ d.outputGeo \in GeometryNames
      BY <2>2 DEF GeometryNames
    <3>2. PassesThrough(d.outputGeo) => Secured(arena, holds, eff.geometry, GeometryNames)
      BY <2>2 DEF EffectOK, Needed
    <3> QED
      BY <2>2, <2>3, <3>1, <3>2, BundleOutputSecured
  <2> HIDE DEF volume, geometry
  <2>7. f \in Frame /\ f.waiting = <<>> /\ BundleSecured(arena, holds, f)
    <3>1. Top.length \in Nat /\ <<>> \in Seq(WaitingStep)
      BY RunningFrame
    <3> QED
      BY <2>4, <2>5, <2>6, <3>1 DEF Frame, BundleSecured
  <2> HIDE DEF f
  <2>8. ~Suspended(f)
    BY <2>7 DEF Suspended
  <2>9. Balanced(arena, {}, eff.input)
    BY <1>1, <2>2 DEF Lent
  <2>10. Tidy(arena') /\ arena'.named = arena.named /\ Balanced(arena', {}, NoResource)
    BY <2>1, <2>2, <2>9, UnpinInputCorrect
  <2>11. ArenaOK'
    <3>1. arena'.retired = {}
      BY <2>10, QuietArena
    <3>2. HoldersBalance'
      BY <2>1, <2>10, NoResourceAssumption DEF HoldersBalance, Balanced
    <3> QED
      BY <2>10, <3>1, <3>2 DEF ArenaOK
  <2>12. \A n : Find(arena', n) = Find(arena, n)
    BY <2>10 DEF Find
  <2>13. StackOK(arena, holds, frames) /\ holds \in Nat
    BY RunningFrame
  <2> DEFINE gs == [frames EXCEPT ![Len(frames)] = f]
  <2>14. StackOK(arena', holds, gs) /\ gs[Len(gs)] = f
    BY <2>7, <2>8, <2>12, <2>13, StackReplaced
  <2>15. frames' = gs
    BY <2>1 DEF SetTop
  <2> HIDE DEF gs
  <2>16. BundleSecured(arena', holds, f)
    BY <2>7, <2>12 DEF BundleSecured, Secured
  <2>17. StackOK(arena', holds', frames') /\ BundleSecured(arena', holds', Top')
    BY <2>1, <2>14, <2>15, <2>16 DEF Top
  <2> QED
    BY <2>1, <2>11, <2>17 DEF IInv, InEffect
<1> QED
  BY <1>2, <1>3

LEMMA StepFailsKeeps ==
    ASSUME IInv, StepFails
    PROVE  IInv'
BY ThrowKeeps DEF StepFails, Ready

LEMMA StutterKeeps ==
    ASSUME IInv, UNCHANGED vars
    PROVE  IInv'
<1>1. /\ arena' = arena /\ frames' = frames /\ eff' = eff /\ phase' = phase
      /\ holds' = holds /\ inlines' = inlines
  BY DEF vars
<1>2. /\ ArenaOK' = ArenaOK /\ InEffect' = InEffect /\ EffectOK' = EffectOK /\ Top' = Top
  BY <1>1 DEF ArenaOK, HoldersBalance, Borrowed, InEffect, EffectOK, LocalsOK, Needed,
              StillSampled, ImageSecured, OutputOf, Top, HasPass, ThePass
<1> QED
  BY <1>1, <1>2 DEF IInv

LEMMA NextKeeps ==
    ASSUME IInv, [Next]_vars
    PROVE  IInv'
<1>1. CASE NextChain
  BY <1>1, NextChainKeeps
<1>2. CASE ChooseStep
  BY <1>2, StepArrivesKeeps DEF ChooseStep
<1>3. CASE ArgumentEnds
  BY <1>3, ArgumentEndsKeeps
<1>4. CASE IteratedGroupStep
  BY <1>4, IteratedGroupKeeps DEF IteratedGroupStep
<1>5. ASSUME NEW s \in ChainSurfaces, ReadStep(s) \/ WriteStep(s) \/ Finish(s) PROVE IInv'
  BY <1>5, ReadStepKeeps, WriteStepKeeps, FinishKeeps
<1>6. ASSUME NEW v \in Volumes, NEW g \in Geometries, Read3DStep(v, g) PROVE IInv'
  BY <1>6, Read3DStepKeeps
<1>7. ASSUME NEW v \in Volumes \cup {NoRoute}, NEW g \in Geometries \cup {NoRoute},
             Write3DStep(v, g)
      PROVE  IInv'
  BY <1>7, Write3DStepKeeps
<1>8. CASE EffectBegins
  BY <1>8, EffectBeginsKeeps
<1>9. CASE PassBegins
  BY <1>9, PassBeginsKeeps
<1>10. CASE SamplersBound
  BY <1>10, SamplersBoundKeeps
<1>11. CASE PassPublishes
  BY <1>11, PassPublishesKeeps
<1>12. CASE EffectEnds
  BY <1>12, EffectEndsKeeps
<1>13. CASE StepFails
  BY <1>13, StepFailsKeeps
<1>14. CASE UNCHANGED vars
  BY <1>14, StutterKeeps
<1>15. CASE Ended
  BY <1>14, <1>15 DEF Ended
<1> QED
  BY <1>1, <1>2, <1>3, <1>4, <1>5, <1>6, <1>7, <1>8, <1>9, <1>10, <1>11, <1>12, <1>13,
     <1>14, <1>15 DEF Next

\* The inductive invariant holds throughout.
THEOREM InductiveInvariant == Spec => []IInv
<1>1. IInv /\ [Next]_vars => IInv'
  BY NextKeeps
<1> QED
  BY SeedsKeep, <1>1, PTL DEF Spec

-----------------------------------------------------------------------------
\* What it implies.

\* What is live is named or pinned.
LEMMA LiveIsReferenced ==
    ASSUME IInv, NEW r \in LivePointers
    PROVE  r \in Resources /\ IsReferenced(arena, r)
<1>1. r # NoResource
  BY DEF LivePointers
<1>2. /\ ImageNames \subseteq Names /\ VolumeNames \subseteq Names /\ GeometryNames \subseteq Names
      /\ {} \in SUBSET Names
  BY NamesFacts
<1>3. /\ Tidy(arena) /\ holds \in 0 .. Len(HoldNames) /\ StackOK(arena, holds, frames)
  BY RunningFrame
<1>4. \A f : BundleSecured(arena, holds, f) /\ r \in {f.image, f.volume, f.geometry}
               => r \in Resources /\ IsReferenced(arena, r)
  BY <1>1, <1>2, <1>3, SecuredIsNamed DEF BundleSecured
<1>5. CASE \E i \in 1 .. Len(frames) - IF InEffect THEN 1 ELSE 0 :
              r \in {frames[i].image, frames[i].volume, frames[i].geometry}
  <2>1. PICK i \in 1 .. Len(frames) - IF InEffect THEN 1 ELSE 0 :
              r \in {frames[i].image, frames[i].volume, frames[i].geometry}
    BY <1>5
  <2>2. i \in 1 .. Len(frames) - 1 \/ (i = Len(frames) /\ ~InEffect)
    <3> DEFINE m == Len(frames)
    <3>1. m \in Nat
      BY <1>3, StackTop
    <3> HIDE DEF m
    <3> QED
      BY <2>1, <3>1 DEF m
  <2>3. CASE i \in 1 .. Len(frames) - 1
    BY <1>3, <1>4, <2>1, <2>3, HeldIsSecured DEF StackOK
  <2>4. CASE i = Len(frames) /\ ~InEffect
    BY <1>4, <2>1, <2>4 DEF IInv, Top
  <2> QED
    BY <2>2, <2>3, <2>4
<1>6. CASE InEffect
  <2>1. EffectOK /\ (eff.input # NoResource => eff.input \in Resources /\ IsReferenced(arena, eff.input))
    BY <1>6, EffectFacts
  <2>2. CASE r = eff.input
    BY <1>1, <2>1, <2>2
  <2>3. CASE r = eff.volume /\ Needed("inputTex3d", eff.definition.outputTex3d)
    BY <1>1, <1>2, <1>3, <2>1, <2>3, SecuredIsNamed DEF EffectOK
  <2>4. CASE r = eff.geometry /\ Needed("inputGeo", eff.definition.outputGeo)
    BY <1>1, <1>2, <1>3, <2>1, <2>4, SecuredIsNamed DEF EffectOK
  <2>5. CASE /\ r = eff.output
             /\ ~(HasPass \/ eff.wroteOutputTex \/ IsVolumeDomain(eff.definition.domain))
    <3>1. phase = "effect"
      BY <1>6, <2>1, <2>5 DEF EffectOK, LocalsOK, InEffect
    <3> QED
      BY <1>1, <1>2, <1>3, <2>5, <3>1, OutputSecured, SecuredIsNamed
  <2>6. \/ \E i \in 1 .. Len(frames) - IF InEffect THEN 1 ELSE 0 :
              r \in {frames[i].image, frames[i].volume, frames[i].geometry}
        \/ r = eff.input
        \/ r = eff.volume /\ Needed("inputTex3d", eff.definition.outputTex3d)
        \/ r = eff.geometry /\ Needed("inputGeo", eff.definition.outputGeo)
        \/ /\ r = eff.output
           /\ ~(HasPass \/ eff.wroteOutputTex \/ IsVolumeDomain(eff.definition.domain))
    BY <1>6 DEF LivePointers, Needed, InEffect
  <2> QED
    BY <1>5, <2>2, <2>3, <2>4, <2>5, <2>6
<1>7. CASE ~InEffect
  <2>1. \E i \in 1 .. Len(frames) - IF InEffect THEN 1 ELSE 0 :
           r \in {frames[i].image, frames[i].volume, frames[i].geometry}
    BY <1>7 DEF LivePointers, InEffect
  <2> QED
    BY <1>5, <2>1
<1> QED
  BY <1>6, <1>7

\* No pointer the executor keeps across arena calls dangles, for every
\* catalog, program and plan within the assumptions.
THEOREM LivePointersAreOwned == Spec => []NoDanglingPointer
<1>1. IInv => NoDanglingPointer
  <2> SUFFICES ASSUME IInv, NEW r \in LivePointers PROVE r \in arena.owned
    BY DEF NoDanglingPointer
  <2>1. r \in Resources /\ IsReferenced(arena, r) /\ Tidy(arena)
    BY LiveIsReferenced, RunningFrame
  <2> QED
    BY <2>1 DEF Tidy, IsHeld
<1> QED
  BY InductiveInvariant, <1>1, PTL

\* ... and each of them can be retained, pinned or aliased.
THEOREM LivePointersAreNotRetired == Spec => []LivePointersAreBindable
<1>1. IInv => LivePointersAreBindable
  BY DEF IInv, ArenaOK, LivePointersAreBindable
<1> QED
  BY InductiveInvariant, <1>1, PTL

\* retain and pin balance on every path.
THEOREM HoldersAreBalanced == Spec => []HoldersBalance
<1>1. IInv => HoldersBalance
  BY DEF IInv, ArenaOK
<1> QED
  BY InductiveInvariant, <1>1, PTL

\* Outside an effect the arena owns what has a name and nothing else.
THEOREM OnlyNamedRemains == Spec => []NothingLingers
<1>1. IInv => NothingLingers
  <2> SUFFICES ASSUME IInv, phase \in {"chain", "done", "failed"}
               PROVE  arena.owned = {Find(arena, n) : n \in Names} \ {NoResource}
    BY DEF NothingLingers
  <2>1. Tidy(arena) /\ Balanced(arena, {}, NoResource)
    BY BalancedArena DEF IInv, ArenaOK, Lent, Pinned, InEffect
  <2>2. \A r \in Resources : r \in arena.owned <=> HasAlias(arena, r)
    BY <2>1, NoResourceAssumption DEF Tidy, Balanced, IsHeld, IsReferenced
  <2>3. arena.owned \subseteq Resources /\ \A n \in Names : arena.named[n] \in Resources \cup {NoResource}
    BY <2>1 DEF Tidy, Arena
  <2> QED
    BY <2>2, <2>3, NoResourceAssumption DEF HasAlias, Find
<1> QED
  BY InductiveInvariant, <1>1, PTL

-----------------------------------------------------------------------------
\* The execution implements the value semantics.  What the refinement adds to
\* the inductive invariant: only known names are named, and an effect's map
\* has every route that the effect has certainly published.

MappedOK ==
    /\ eff.published \subseteq Names
    /\ \A r \in Names : Own(eff.definition, eff.next, r) => r \in eff.published
    /\ eff.wroteOutputTex <=> "outputTex" \in eff.published
    /\ eff.output = eff.input \/ HasAlias(arena, eff.output)
    /\ phase = "bound" => Routes(ThePass) \subseteq KnownNames

MapInv ==
    /\ \A n \in Names : Find(arena, n) # NoResource => n \in KnownNames
    /\ InEffect => MappedOK

\* The names a step may publish under.
LEMMA KnownFacts ==
    /\ Surfaces \subseteq KnownNames /\ Taken(Len(HoldNames)) \subseteq KnownNames
    /\ "outputTex" \in KnownNames /\ GroupVolume \in KnownNames /\ GroupGeometry \in KnownNames
    /\ \A i \in 1 .. Len(Seeds) : Seeds[i] \in KnownNames
    /\ \A d \in Catalog : Written(d, 0) \subseteq KnownNames
    /\ \A d \in Catalog : \A i \in 1 .. Len(d.passes) :
          Written(d, i) \ (d.passes[i].inputs \ d.parameters) \subseteq KnownNames
<1>1. ASSUME NEW d \in Catalog
      PROVE  /\ Written(d, 0) \subseteq KnownNames
             /\ \A i \in 1 .. Len(d.passes) :
                   Written(d, i) \ (d.passes[i].inputs \ d.parameters) \subseteq KnownNames
  <2> DEFINE K(i) == IF i = 0 THEN Written(d, 0)
                     ELSE Written(d, i) \ (d.passes[i].inputs \ d.parameters)
  <2>1. \A i \in 0 .. Len(d.passes) : K(i) \subseteq KnownNames
    BY DEF KnownNames
  <2>2. Len(d.passes) \in Nat
    BY CatalogFacts
  <2>3. 0 \in 0 .. Len(d.passes) /\ \A i \in 1 .. Len(d.passes) : i \in 0 .. Len(d.passes) /\ i # 0
    BY <2>2
  <2> QED
    BY <2>1, <2>3
<1>2. /\ Surfaces \subseteq KnownNames /\ GroupNames \subseteq KnownNames
      /\ \A i \in 1 .. Len(Seeds) : Seeds[i] \in KnownNames
      /\ \A i \in 1 .. Len(HoldNames) : HoldNames[i] \in KnownNames
  BY DEF KnownNames
<1>3. Taken(Len(HoldNames)) \subseteq KnownNames
  BY <1>2 DEF Taken
<1>4. {"outputTex", GroupVolume, GroupGeometry} \subseteq KnownNames
  BY <1>2 DEF GroupNames
<1> QED
  BY <1>1, <1>2, <1>3, <1>4

-----------------------------------------------------------------------------
\* Stacks of frames and stacks of bundles.

BundlesOf(fs) == [i \in 1 .. Len(fs) |-> Bundle(fs[i])]

LEMMA EmptyBundleMaps == Bundle(EmptyFrame) = Semantics!EmptyBundle
BY DEF Bundle, EmptyFrame, Semantics!EmptyBundle

LEMMA BundlesOfOne == BundlesOf(<<EmptyFrame>>) = <<Semantics!EmptyBundle>>
<1>1. Len(<<EmptyFrame>>) = 1 /\ <<EmptyFrame>>[1] = EmptyFrame
  OBVIOUS
<1>2. BundlesOf(<<EmptyFrame>>) = [i \in 1 .. 1 |-> Semantics!EmptyBundle]
  BY <1>1, EmptyBundleMaps DEF BundlesOf
<1> QED
  BY <1>2

LEMMA BundlesLength ==
    ASSUME NEW fs \in Seq(Frame)
    PROVE  /\ BundlesOf(fs) \in Seq([image : Pointers, volume : Pointers, geometry : Pointers])
           /\ Len(BundlesOf(fs)) = Len(fs) /\ Len(fs) \in Nat
           /\ DOMAIN BundlesOf(fs) = 1 .. Len(fs)
           /\ \A i \in 1 .. Len(fs) : BundlesOf(fs)[i] = Bundle(fs[i])
<1>1. Len(fs) \in Nat /\ fs \in [1 .. Len(fs) -> Frame]
  BY LenProperties
<1>2. \A i \in 1 .. Len(fs) :
         Bundle(fs[i]) \in [image : Pointers, volume : Pointers, geometry : Pointers]
  BY <1>1 DEF Bundle, Frame
<1> QED
  BY <1>1, <1>2 DEF BundlesOf

\* The top is replaced, another frame is pushed, the top is popped.
LEMMA BundlesReplaced ==
    ASSUME NEW fs \in Seq(Frame), fs # <<>>, NEW f \in Frame
    PROVE  BundlesOf([fs EXCEPT ![Len(fs)] = f])
             = [BundlesOf(fs) EXCEPT ![Len(BundlesOf(fs))] = Bundle(f)]
<1> DEFINE gs == [fs EXCEPT ![Len(fs)] = f]
           m  == Len(fs)
<1>1. m \in Nat /\ m # 0 /\ Len(BundlesOf(fs)) = m
  BY EmptySeq, LenProperties, BundlesLength
<1>2. m \in 1 .. m
  <2> HIDE DEF m
  <2> QED
    BY <1>1
<1>3. /\ gs \in Seq(Frame) /\ Len(gs) = m
      /\ \A j \in 1 .. m : gs[j] = IF j = m THEN f ELSE fs[j]
  BY <1>2, ExceptSeq
<1> HIDE DEF gs
<1>4. BundlesOf(gs) = [i \in 1 .. m |-> IF i = m THEN Bundle(f) ELSE Bundle(fs[i])]
  BY <1>3 DEF BundlesOf
<1> QED
  BY <1>1, <1>2, <1>4 DEF BundlesOf, gs

LEMMA BundlesPushed ==
    ASSUME NEW fs \in Seq(Frame), NEW f \in Frame
    PROVE  BundlesOf(Append(fs, f)) = Append(BundlesOf(fs), Bundle(f))
<1> DEFINE gs == Append(fs, f)
           m  == Len(fs)
<1>1. m \in Nat /\ Len(BundlesOf(fs)) = m
  BY BundlesLength
<1>2. Len(gs) = m + 1 /\ gs[m + 1] = f /\ \A i \in 1 .. m : gs[i] = fs[i]
  BY AppendProperties
<1> HIDE DEF gs, m
<1>3. BundlesOf(gs) = [i \in 1 .. m + 1 |-> IF i = m + 1 THEN Bundle(f) ELSE BundlesOf(fs)[i]]
  <2>1. \A i \in 1 .. m + 1 : Bundle(gs[i]) = IF i = m + 1 THEN Bundle(f) ELSE BundlesOf(fs)[i]
    <3>1. \A i \in 1 .. m + 1 : i = m + 1 \/ i \in 1 .. m
      BY <1>1
    <3> QED
      BY <1>2, <3>1 DEF BundlesOf, m
  <2> QED
    BY <1>2, <2>1 DEF BundlesOf
<1> DEFINE B == [image : Pointers, volume : Pointers, geometry : Pointers]
           bs == BundlesOf(fs)
           b == Bundle(f)
<1>4. bs \in Seq(B) /\ b \in B
  BY BundlesLength DEF Bundle, Frame
<1>5. BundlesOf(gs) = [i \in 1 .. m + 1 |-> IF i = m + 1 THEN b ELSE bs[i]]
  BY <1>3
<1> HIDE DEF B, bs, b
<1>6. Append(bs, b) = [i \in 1 .. m + 1 |-> IF i = m + 1 THEN b ELSE bs[i]]
  <2> DEFINE cs == Append(bs, b)
  <2>1. Len(bs) = m
    BY <1>1 DEF bs
  <2>2. /\ cs \in Seq(B) /\ Len(cs) = m + 1 /\ cs[m + 1] = b
        /\ \A i \in 1 .. m : cs[i] = bs[i]
    BY <1>4, <2>1, AppendProperties
  <2> HIDE DEF cs
  <2>3. cs = [i \in 1 .. m + 1 |-> cs[i]]
    BY <2>2
  <2>4. \A i \in 1 .. m + 1 : cs[i] = IF i = m + 1 THEN b ELSE bs[i]
    BY <1>1, <2>2
  <2> QED
    BY <2>3, <2>4 DEF cs
<1> QED
  BY <1>5, <1>6 DEF gs, bs, b

LEMMA BundlesPopped ==
    ASSUME NEW fs \in Seq(Frame), Len(fs) > 1
    PROVE  BundlesOf(SubSeq(fs, 1, Len(fs) - 1))
             = SubSeq(BundlesOf(fs), 1, Len(BundlesOf(fs)) - 1)
<1> DEFINE m == Len(fs)
           gs == SubSeq(fs, 1, m - 1)
<1>1. m \in Nat /\ m > 1 /\ Len(BundlesOf(fs)) = m
  BY BundlesLength
<1>2. /\ Len(gs) = m - 1 /\ \A i \in 1 .. m - 1 : gs[i] = fs[i]
  <2>1. \A i \in 1 .. m - 1 : fs[i] \in Frame
    BY <1>1, LenProperties
  <2>2. gs = [i \in 1 .. m - 1 |-> fs[i]]
    <3> HIDE DEF m
    <3> QED
      BY <1>1 DEF gs
  <2> HIDE DEF m
  <2> QED
    BY <1>1, <2>1, <2>2
<1> HIDE DEF gs
<1>3. BundlesOf(gs) = [i \in 1 .. m - 1 |-> Bundle(fs[i])]
  BY <1>2 DEF BundlesOf
<1>4. SubSeq(BundlesOf(fs), 1, m - 1) = [i \in 1 .. m - 1 |-> BundlesOf(fs)[i]]
  <2> HIDE DEF m
  <2> QED
    BY <1>1
<1>5. \A i \in 1 .. m - 1 : BundlesOf(fs)[i] = Bundle(fs[i])
  <2>1. 1 .. m - 1 \subseteq 1 .. m
    <3> HIDE DEF m
    <3> QED
      BY <1>1
  <2> QED
    BY <2>1 DEF BundlesOf
<1>6. SubSeq(BundlesOf(fs), 1, m - 1) = [i \in 1 .. m - 1 |-> Bundle(fs[i])]
  BY <1>4, <1>5
<1> QED
  BY <1>1, <1>3, <1>6 DEF gs

-----------------------------------------------------------------------------
\* The mapped state.

MapOf(a, published) == [r \in published |-> Find(a, r)]

EffectOf(a, e) ==
    [definition |-> e.definition, binding |-> e.binding, next |-> e.next,
     map |-> MapOf(a, e.published), output |-> e.output]

LEMMA IdleMaps ==
    ASSUME NEW a
    PROVE  EffectOf(a, IdleEffect) = Semantics!Idle
<1>1. MapOf(a, {}) = <<>>
  BY DEF MapOf
<1>2. Semantics!NoEffect = NoEffect
  BY DEF NoEffect, Effect, Semantics!NoEffect, Semantics!Effect
<1> QED
  BY <1>1, <1>2 DEF EffectOf, IdleEffect, Semantics!Idle

LEMMA MappedState ==
    /\ AbstractStack = BundlesOf(frames) /\ AbstractEffect = EffectOf(arena, eff)
    /\ AbstractStack' = BundlesOf(frames') /\ AbstractEffect' = EffectOf(arena', eff')
BY DEF AbstractStack, BundlesOf, AbstractEffect, EffectOf, MapOf

LEMMA MappedFields ==
    /\ AbstractEffect.definition = eff.definition /\ AbstractEffect.binding = eff.binding
    /\ AbstractEffect.next = eff.next /\ AbstractEffect.output = eff.output
    /\ AbstractEffect.map = MapOf(arena, eff.published)
    /\ DOMAIN AbstractEffect.map = eff.published
    /\ \A r \in eff.published : AbstractEffect.map[r] = Find(arena, r)
BY MappedState DEF EffectOf, MapOf

LEMMA MappedStack ==
    ASSUME IInv
    PROVE  /\ frames \in Seq(Frame) /\ frames # <<>> /\ Len(frames) \in Nat \ {0}
           /\ Len(AbstractStack) = Len(frames)
           /\ \A i \in 1 .. Len(frames) : AbstractStack[i] = Bundle(frames[i])
           /\ Semantics!Top = Bundle(Top)
<1>1. frames \in Seq(Frame) /\ frames # <<>> /\ Len(frames) \in Nat \ {0}
  BY StackTop DEF IInv, StackOK
<1>2. /\ Len(AbstractStack) = Len(frames)
      /\ \A i \in 1 .. Len(frames) : AbstractStack[i] = Bundle(frames[i])
  BY <1>1, MappedState, BundlesLength
<1>3. Len(frames) \in 1 .. Len(frames)
  <2> DEFINE m == Len(frames)
  <2>1. m \in Nat \ {0}
    BY <1>1
  <2> HIDE DEF m
  <2> QED
    BY <2>1 DEF m
<1> QED
  BY <1>1, <1>2, <1>3 DEF Semantics!Top, Top

LEMMA TopSetMaps ==
    ASSUME IInv, NEW f \in Frame, SetTop(f)
    PROVE  Semantics!SetTop(Bundle(f))
<1>1. frames' = [frames EXCEPT ![Len(frames)] = f]
  BY DEF SetTop
<1>2. BundlesOf([frames EXCEPT ![Len(frames)] = f])
        = [BundlesOf(frames) EXCEPT ![Len(BundlesOf(frames))] = Bundle(f)]
  BY MappedStack, BundlesReplaced
<1>3. AbstractStack' = [AbstractStack EXCEPT ![Len(AbstractStack)] = Bundle(f)]
  BY <1>1, <1>2, MappedState
<1> QED
  BY <1>3 DEF Semantics!SetTop

LEMMA SurfacesStay ==
    ASSUME \A n \in Surfaces : Find(arena', n) = Find(arena, n)
    PROVE  AbstractSurfaces' = AbstractSurfaces
BY DEF AbstractSurfaces

\* A step of a chain publishes under known names only.
LEMMA ChainKnows ==
    ASSUME MapInv, phase' \in {"chain", "done", "failed"},
           \A n \in Names : Find(arena', n) # Find(arena, n) => n \in KnownNames
    PROVE  MapInv'
BY DEF MapInv, InEffect

\* A throw.
LEMMA ThrowNames ==
    ASSUME IInv, phase \in {"chain", "effect", "pass", "bound"}, Throw
    PROVE  arena'.named = arena.named
<1>1. CASE phase = "chain"
  BY <1>1 DEF Throw
<1>2. CASE phase # "chain"
  <2>1. InEffect
    BY <1>2 DEF InEffect
  <2>2. /\ Balanced(arena, Borrowed, eff.input) /\ eff.input \in Pointers
        /\ Borrowed \in SUBSET Resources /\ Tidy(arena)
    BY <2>1, EffectArena DEF IInv, ArenaOK
  <2> DEFINE b == ReleaseAll(arena, Borrowed)
  <2>3. Tidy(b) /\ b.named = arena.named /\ Balanced(b, {}, eff.input)
    BY <2>2, ReleaseLentCorrect
  <2>4. arena' = UnpinInput(b, eff.input)
    BY <1>2 DEF Throw
  <2> HIDE DEF b
  <2> QED
    BY <2>2, <2>3, <2>4, UnpinInputCorrect
<1> QED
  BY <1>1, <1>2

LEMMA ThrowMaps ==
    ASSUME IInv, MapInv, phase \in {"chain", "effect", "pass", "bound"}, Throw
    PROVE  MapInv' /\ Semantics!Fail
<1>1. frames' = <<EmptyFrame>> /\ eff' = IdleEffect /\ phase' = "failed"
  BY DEF Throw
<1>2. \A n : Find(arena', n) = Find(arena, n)
  BY ThrowNames DEF Find
<1>3. MapInv'
  BY <1>1, <1>2, ChainKnows
<1>4. AbstractPhase \in {"chain", "effect", "pass"} /\ AbstractPhase' = "failed"
  BY <1>1 DEF AbstractPhase
<1>5. /\ AbstractStack' = <<Semantics!EmptyBundle>> /\ AbstractEffect' = Semantics!Idle
      /\ (eff.resolved)' = <<>>
  <2>1. IdleEffect.resolved = <<>>
    BY DEF IdleEffect
  <2> QED
    BY <1>1, <2>1, MappedState, BundlesOfOne, IdleMaps
<1>6. AbstractSurfaces' = AbstractSurfaces
  BY <1>2, SurfacesStay
<1> QED
  BY <1>3, <1>4, <1>5, <1>6 DEF Semantics!Fail

-----------------------------------------------------------------------------
\* Whatever the semantics still looks at is owned, so what a step takes as new
\* is new to the semantics.

LEMMA InUseOwned ==
    ASSUME IInv, MapInv
    PROVE  Semantics!InUse \subseteq arena.owned \cup {NoResource}
<1> DEFINE Ok(r) == r \in arena.owned \cup {NoResource}
<1>1. /\ Tidy(arena) /\ holds \in 0 .. Len(HoldNames) /\ StackOK(arena, holds, frames)
      /\ Top.image \in Pointers
  BY RunningFrame
<1>2. /\ ImageNames \subseteq Names /\ VolumeNames \subseteq Names /\ GeometryNames \subseteq Names
      /\ {} \in SUBSET Names /\ Surfaces \subseteq Names
  BY NamesFacts
<1>3. \A names \in SUBSET Names : \A r : Secured(arena, holds, r, names) => Ok(r)
  BY <1>1, SecuredIsNamed
<1>4. \A f : BundleSecured(arena, holds, f) => Ok(f.image) /\ Ok(f.volume) /\ Ok(f.geometry)
  BY <1>2, <1>3 DEF BundleSecured
<1>5. \A n \in Names : Ok(Find(arena, n))
  BY <1>1, TidyNames
<1>6. \A s \in Surfaces : Ok(AbstractSurfaces[s])
  BY <1>2, <1>5 DEF AbstractSurfaces
<1>7. \A i \in 1 .. Len(AbstractStack) - 1 :
         Ok(AbstractStack[i].image) /\ Ok(AbstractStack[i].volume) /\ Ok(AbstractStack[i].geometry)
  <2>1. ASSUME NEW i \in 1 .. Len(frames) - 1
        PROVE  Ok(frames[i].image) /\ Ok(frames[i].volume) /\ Ok(frames[i].geometry)
    BY <1>1, <1>4, HeldIsSecured DEF StackOK
  <2>2. /\ Len(AbstractStack) = Len(frames)
        /\ \A i \in 1 .. Len(frames) - 1 : AbstractStack[i] = Bundle(frames[i])
    <3> DEFINE m == Len(frames)
    <3>1. m \in Nat /\ Len(AbstractStack) = m /\ \A i \in 1 .. m : AbstractStack[i] = Bundle(frames[i])
      BY MappedStack
    <3> HIDE DEF m
    <3>2. \A i \in 1 .. m - 1 : i \in 1 .. m
      BY <3>1
    <3> QED
      BY <3>1, <3>2 DEF m
  <2>3. \A i \in 1 .. Len(frames) - 1 :
           /\ Bundle(frames[i]).image = frames[i].image
           /\ Bundle(frames[i]).volume = frames[i].volume
           /\ Bundle(frames[i]).geometry = frames[i].geometry
    BY DEF Bundle
  <2> HIDE DEF Ok
  <2> QED
    BY <2>1, <2>2, <2>3
<1>8. /\ Ok(Top.image) /\ Ok(eff.output)
      /\ Semantics!StillNeeded("inputTex3d", AbstractEffect.definition.outputTex3d) => Ok(Top.volume)
      /\ Semantics!StillNeeded("inputGeo", AbstractEffect.definition.outputGeo) => Ok(Top.geometry)
      /\ \A r \in eff.published : Ok(Find(arena, r))
  <2>1. CASE InEffect
    <3>1. /\ EffectOK /\ LocalsOK /\ MappedOK
          /\ eff.input # NoResource => eff.input \in Resources /\ IsReferenced(arena, eff.input)
      BY <2>1, EffectFacts DEF MapInv
    <3>2. /\ eff.input = Top.image /\ eff.volume = Top.volume /\ eff.geometry = Top.geometry
          /\ eff.output \in Pointers
      BY <3>1 DEF LocalsOK
    <3>3. \A r \in Resources : IsReferenced(arena, r) => Ok(r)
      BY <1>1 DEF Tidy, IsHeld
    <3>4. Ok(eff.input) /\ Ok(eff.output)
      BY <3>1, <3>2, <3>3 DEF MappedOK, Pointers, IsReferenced
    <3>5. \A route, output : Semantics!StillNeeded(route, output) => Needed(route, output)
      BY MappedFields DEF Semantics!StillNeeded, Needed, StillSampled, Semantics!PassesThrough,
                          PassesThrough
    <3>6. /\ Semantics!StillNeeded("inputTex3d", AbstractEffect.definition.outputTex3d)
               => Ok(Top.volume)
          /\ Semantics!StillNeeded("inputGeo", AbstractEffect.definition.outputGeo)
               => Ok(Top.geometry)
      BY <1>2, <1>3, <3>1, <3>2, <3>5, MappedFields DEF EffectOK
    <3>7. \A r \in eff.published : Ok(Find(arena, r))
      BY <1>5, <3>1 DEF MappedOK
    <3> QED
      BY <3>2, <3>4, <3>6, <3>7
  <2>2. CASE ~InEffect
    <3>1. eff = IdleEffect /\ BundleSecured(arena, holds, Top)
      BY <2>2 DEF IInv
    <3>2. IdleEffect.published = {} /\ IdleEffect.output = NoResource
      BY DEF IdleEffect
    <3> QED
      BY <1>4, <3>1, <3>2
  <2> QED
    BY <2>1, <2>2
<1>9. Semantics!Top = Bundle(Top) /\ AbstractEffect.output = eff.output
  BY MappedStack, MappedFields
<1>10. \A r \in DOMAIN AbstractEffect.map : Ok(AbstractEffect.map[r])
  BY <1>8, MappedFields
<1> HIDE DEF Ok
<1>11. \A r \in Semantics!InUse : Ok(r)
  BY <1>6, <1>7, <1>8, <1>9, <1>10 DEF Semantics!InUse, Bundle
<1> QED
  BY <1>11 DEF Ok

-----------------------------------------------------------------------------
\* The steps of a chain.

LEMMA ChainStays ==
    ASSUME IInv, phase = "chain", eff' = eff
    PROVE  /\ AbstractPhase = "chain" /\ AbstractEffect' = AbstractEffect
           /\ (eff.resolved)' = eff.resolved
           /\ phase' = "chain" => AbstractPhase' = AbstractPhase
           /\ phase' = "done" => AbstractPhase' = "done"
<1>1. eff = IdleEffect
  BY RunningFrame
<1>2. AbstractEffect' = AbstractEffect
  BY <1>1, MappedState, IdleMaps
<1> QED
  BY <1>2 DEF AbstractPhase

LEMMA NextChainMaps ==
    ASSUME IInv, MapInv, NextChain
    PROVE  MapInv' /\ Semantics!NextChain
<1>1. /\ phase = "chain" /\ phase' = "chain" /\ frames' = <<EmptyFrame>> /\ Len(frames) = 1
      /\ arena' = arena /\ eff' = eff
  BY DEF NextChain, AtEnd
<1>2. MapInv'
  BY <1>1, ChainKnows
<1>3. frames' = [frames EXCEPT ![Len(frames)] = EmptyFrame]
  BY <1>1, MappedStack
<1>4. Semantics!SetTop(Semantics!EmptyBundle)
  BY <1>3, TopSetMaps, EmptyStack, EmptyBundleMaps DEF SetTop
<1>5. Len(AbstractStack) = 1
  BY <1>1, MappedStack
<1> QED
  BY <1>1, <1>2, <1>4, <1>5, ChainStays, SurfacesStay DEF Semantics!NextChain

LEMMA AdvancedBundle ==
    ASSUME NEW f \in Frame
    PROVE  Advanced(f) \in Frame /\ Bundle(Advanced(f)) = Bundle(f)
<1>1. PICK i \in Pointers, v \in Pointers, g \in Pointers, l \in Nat, w \in Seq(WaitingStep) :
         f = [image |-> i, volume |-> v, geometry |-> g, length |-> l, waiting |-> w]
  BY DEF Frame
<1>2. Advanced(f) = [image |-> i, volume |-> v, geometry |-> g, length |-> l + 1, waiting |-> w]
  BY <1>1, AdvancedFrame
<1>3. l + 1 \in Nat
  OBVIOUS
<1> QED
  BY <1>1, <1>2, <1>3 DEF Frame, Bundle

LEMMA ReadStepMaps ==
    ASSUME IInv, MapInv, NEW s \in ChainSurfaces, ReadStep(s)
    PROVE  MapInv' /\ (Semantics!Fail \/ Semantics!Read(s))
<1>1. phase = "chain"
  BY DEF ReadStep, AtStep
<1>2. CASE Find(arena, s) = NoResource
  BY <1>1, <1>2, ThrowMaps DEF ReadStep
<1>3. CASE Find(arena, s) # NoResource
  <2> DEFINE e == [EmptyFrame EXCEPT !.image = Find(arena, s)]
  <2>1. SetTop(Advanced(e)) /\ arena' = arena /\ eff' = eff /\ phase' = phase
    BY <1>3 DEF ReadStep
  <2>2. s \in Surfaces /\ s \in Names
    BY NamesFacts
  <2>3. Find(arena, s) \in Pointers
    BY <2>2, RunningFrame, TidyNames DEF Pointers
  <2>4. e \in Frame /\ Bundle(e) = [Semantics!EmptyBundle EXCEPT !.image = AbstractSurfaces[s]]
    <3>1. e = [image |-> Find(arena, s), volume |-> NoResource, geometry |-> NoResource,
               length |-> 0, waiting |-> <<>>]
      BY DEF EmptyFrame
    <3>2. <<>> \in Seq(WaitingStep) /\ NoResource \in Pointers
      BY DEF Pointers
    <3>3. AbstractSurfaces[s] = Find(arena, s)
      BY <2>2 DEF AbstractSurfaces
    <3> HIDE DEF e
    <3>4. e \in Frame
      BY <2>3, <3>1, <3>2 DEF Frame
    <3> QED
      BY <3>1, <3>3, <3>4 DEF Bundle, Semantics!EmptyBundle
  <2> HIDE DEF e
  <2>5. Semantics!SetTop(Bundle(e))
    BY <2>1, <2>4, AdvancedBundle, TopSetMaps
  <2>6. MapInv' /\ AbstractSurfaces' = AbstractSurfaces /\ AbstractSurfaces[s] # NoResource
    BY <1>1, <1>3, <2>1, <2>2, ChainKnows, SurfacesStay DEF AbstractSurfaces
  <2> QED
    BY <1>1, <2>1, <2>4, <2>5, <2>6, ChainStays DEF Semantics!Read
<1> QED
  BY <1>2, <1>3

LEMMA Read3DStepMaps ==
    ASSUME IInv, MapInv, NEW v \in Volumes, NEW g \in Geometries, Read3DStep(v, g)
    PROVE  MapInv' /\ (Semantics!Fail \/ Semantics!Read3D(v, g))
<1>1. phase = "chain"
  BY DEF Read3DStep, AtStep
<1>2. CASE Find(arena, v) = NoResource
  BY <1>1, <1>2, ThrowMaps DEF Read3DStep
<1>3. CASE Find(arena, v) # NoResource
  <2> DEFINE e == [EmptyFrame EXCEPT !.volume = Find(arena, v), !.geometry = Find(arena, g)]
  <2>1. SetTop(Advanced(e)) /\ arena' = arena /\ eff' = eff /\ phase' = phase
    BY <1>3 DEF Read3DStep
  <2>2. v \in Surfaces /\ v \in Names /\ g \in Surfaces /\ g \in Names
    BY NamesFacts
  <2>3. Find(arena, v) \in Pointers /\ Find(arena, g) \in Pointers
    BY <2>2, RunningFrame, TidyNames DEF Pointers
  <2>4. /\ e \in Frame
        /\ Bundle(e) = [image |-> NoResource, volume |-> AbstractSurfaces[v],
                        geometry |-> AbstractSurfaces[g]]
    <3>1. e = [image |-> NoResource, volume |-> Find(arena, v), geometry |-> Find(arena, g),
               length |-> 0, waiting |-> <<>>]
      <4> DEFINE x == [EmptyFrame EXCEPT !.volume = Find(arena, v)]
      <4>1. x = [image |-> NoResource, volume |-> Find(arena, v), geometry |-> NoResource,
                 length |-> 0, waiting |-> <<>>]
        BY DEF EmptyFrame
      <4>2. e = [x EXCEPT !.geometry = Find(arena, g)]
        OBVIOUS
      <4> HIDE DEF x, e
      <4> QED
        BY <4>1, <4>2
    <3>2. <<>> \in Seq(WaitingStep) /\ NoResource \in Pointers
      BY DEF Pointers
    <3>3. AbstractSurfaces[v] = Find(arena, v) /\ AbstractSurfaces[g] = Find(arena, g)
      BY <2>2 DEF AbstractSurfaces
    <3> HIDE DEF e
    <3>4. e \in Frame
      BY <2>3, <3>1, <3>2 DEF Frame
    <3> QED
      BY <3>1, <3>3, <3>4 DEF Bundle
  <2> HIDE DEF e
  <2>5. Semantics!SetTop(Bundle(e))
    BY <2>1, <2>4, AdvancedBundle, TopSetMaps
  <2>6. MapInv' /\ AbstractSurfaces' = AbstractSurfaces /\ AbstractSurfaces[v] # NoResource
    BY <1>1, <1>3, <2>1, <2>2, ChainKnows, SurfacesStay DEF AbstractSurfaces
  <2> QED
    BY <1>1, <2>1, <2>4, <2>5, <2>6, ChainStays DEF Semantics!Read3D
<1> QED
  BY <1>2, <1>3

\* A step that leaves the running bundle as it was.
LEMMA TopStaysMaps ==
    ASSUME IInv, SetTop(Advanced(Top))
    PROVE  AbstractStack' = AbstractStack
<1>1. Semantics!SetTop(Bundle(Top))
  BY RunningFrame, AdvancedBundle, TopSetMaps
<1>2. /\ AbstractStack' = [AbstractStack EXCEPT ![Len(AbstractStack)] = Bundle(Top)]
      /\ AbstractStack[Len(AbstractStack)] = Bundle(Top)
  BY <1>1, MappedStack DEF Semantics!SetTop, Semantics!Top
<1> QED
  BY <1>2 DEF AbstractStack

LEMMA WriteStepMaps ==
    ASSUME IInv, MapInv, NEW s \in ChainSurfaces, WriteStep(s)
    PROVE  MapInv' /\ (Semantics!Fail \/ Semantics!Write(s))
<1>1. phase = "chain"
  BY DEF WriteStep, AtStep
<1>2. CASE Top.image = NoResource
  BY <1>1, <1>2, ThrowMaps DEF WriteStep
<1>3. CASE Top.image # NoResource
  <2>1. /\ SetTop(Advanced(Top)) /\ arena' = Alias(arena, s, Top.image)
        /\ eff' = eff /\ phase' = phase
    BY <1>3 DEF WriteStep
  <2>2. /\ Tidy(arena) /\ holds \in 0 .. Len(HoldNames) /\ BundleSecured(arena, holds, Top)
        /\ s \in Names /\ s \in Surfaces /\ Surfaces \subseteq Names
    BY <1>1, RunningFrame, NamesFacts
  <2>3. Top.image \in Resources /\ IsReferenced(arena, Top.image)
    BY <1>3, <2>2, NamesFacts, SecuredIsNamed DEF BundleSecured
  <2>4. /\ Find(arena', s) = Top.image
        /\ \A m \in Names : m # s => Find(arena', m) = Find(arena, m)
    BY <2>1, <2>2, <2>3, AliasCorrect
  <2>5. MapInv'
    BY <1>1, <2>1, <2>2, <2>4, ChainKnows, KnownFacts
  <2>6. AbstractSurfaces' = [AbstractSurfaces EXCEPT ![s] = Top.image]
    BY <2>2, <2>4 DEF AbstractSurfaces
  <2>7. Semantics!Top.image = Top.image
    BY MappedStack DEF Bundle
  <2> QED
    BY <1>1, <1>3, <2>1, <2>5, <2>6, <2>7, ChainStays, TopStaysMaps DEF Semantics!Write
<1> QED
  BY <1>2, <1>3

LEMMA Write3DStepMaps ==
    ASSUME IInv, MapInv, NEW v \in Volumes \cup {NoRoute}, NEW g \in Geometries \cup {NoRoute},
           Write3DStep(v, g)
    PROVE  MapInv' /\ Semantics!Write3D(v, g)
<1> DEFINE b == AliasBundle(arena, v, Top.volume)
<1>1. /\ phase = "chain" /\ SetTop(Advanced(Top)) /\ eff' = eff /\ phase' = phase
      /\ arena' = AliasBundle(b, g, Top.geometry)
  BY DEF Write3DStep, AtStep
<1>2. /\ Tidy(arena) /\ holds \in 0 .. Len(HoldNames) /\ BundleSecured(arena, holds, Top)
      /\ Top.volume \in Pointers /\ Top.geometry \in Pointers
  BY <1>1, RunningFrame
<1>3. /\ v \in Surfaces \cup {NoRoute} /\ g \in Surfaces \cup {NoRoute}
      /\ Surfaces \subseteq Names /\ NoRoute \notin Names
      /\ VolumeNames \subseteq Names /\ GeometryNames \subseteq Names
      /\ v \in Names \cup {NoRoute} /\ g \in Names \cup {NoRoute}
      /\ v # NoRoute => v \in VolumeNames /\ g # v
  BY NamesFacts
<1>4. /\ Top.volume # NoResource => IsReferenced(arena, Top.volume)
  BY <1>2, <1>3, SecuredIsNamed DEF BundleSecured
<1>5. /\ Tidy(b)
      /\ \A m \in Names : m # v => Find(b, m) = Find(arena, m)
      /\ v = NoRoute \/ Top.volume = NoResource \/ Find(b, v) = Top.volume
      /\ v = NoRoute \/ Top.volume = NoResource => b = arena
  <2>1. v = NoRoute \/ Top.volume = NoResource => b = arena
    BY DEF AliasBundle
  <2> QED
    BY <1>2, <1>3, <1>4, <2>1, AliasBundleCorrect
<1> HIDE DEF b
<1>6. Secured(b, holds, Top.geometry, GeometryNames)
  <2>1. \A n \in GeometryNames \cup Taken(holds) : n \in Names /\ n # v
    BY <1>2, <1>3, NamesFacts, TakenFacts
  <2>2. \A n \in GeometryNames \cup Taken(holds) : Find(b, n) = Find(arena, n)
    BY <1>5, <2>1
  <2> QED
    BY <1>2, <2>2, RunningFrame, SecuredStays DEF BundleSecured
<1>7. Top.geometry # NoResource => IsReferenced(b, Top.geometry)
  BY <1>2, <1>3, <1>5, <1>6, SecuredIsNamed
<1>8. /\ \A m \in Names : m # g => Find(arena', m) = Find(b, m)
      /\ g = NoRoute \/ Top.geometry = NoResource \/ Find(arena', g) = Top.geometry
      /\ g = NoRoute \/ Top.geometry = NoResource => arena' = b
  <2>1. g = NoRoute \/ Top.geometry = NoResource => arena' = b
    BY <1>1 DEF AliasBundle
  <2> QED
    BY <1>1, <1>2, <1>3, <1>5, <1>7, <2>1, AliasBundleCorrect
<1>9. \A s \in Surfaces : Find(arena', s) = IF s = v /\ Top.volume # NoResource THEN Top.volume
                                            ELSE IF s = g /\ Top.geometry # NoResource THEN Top.geometry
                                            ELSE Find(arena, s)
  BY <1>3, <1>5, <1>8
<1>10. MapInv'
  <2>1. \A n \in Names : Find(arena', n) # Find(arena, n) => n = v \/ n = g
    BY <1>5, <1>8
  <2> QED
    BY <1>1, <1>3, <2>1, ChainKnows, KnownFacts
<1>11. Semantics!Top.volume = Top.volume /\ Semantics!Top.geometry = Top.geometry
  BY MappedStack DEF Bundle
<1>12. AbstractSurfaces'
         = [s \in Surfaces |-> IF s = v /\ Top.volume # NoResource THEN Top.volume
                               ELSE IF s = g /\ Top.geometry # NoResource THEN Top.geometry
                               ELSE AbstractSurfaces[s]]
  BY <1>9 DEF AbstractSurfaces
<1> QED
  BY <1>1, <1>10, <1>11, <1>12, ChainStays, TopStaysMaps DEF Semantics!Write3D

LEMMA FinishMaps ==
    ASSUME IInv, MapInv, NEW s \in ChainSurfaces, Finish(s)
    PROVE  MapInv' /\ (Semantics!Fail \/ Semantics!Finish(s))
<1>1. phase = "chain" /\ Len(frames) = 1
  BY DEF Finish, AtEnd
<1>2. CASE Find(arena, s) = NoResource
  BY <1>1, <1>2, ThrowMaps DEF Finish
<1>3. CASE Find(arena, s) # NoResource
  <2>1. phase' = "done" /\ arena' = arena /\ frames' = frames /\ eff' = eff
    BY <1>3 DEF Finish
  <2>2. AbstractSurfaces[s] # NoResource /\ Len(AbstractStack) = 1
    BY <1>1, <1>3, NamesFacts, MappedStack DEF AbstractSurfaces
  <2>3. MapInv' /\ AbstractSurfaces' = AbstractSurfaces /\ AbstractStack' = AbstractStack
    BY <2>1, ChainKnows DEF AbstractSurfaces, AbstractStack
  <2> QED
    BY <1>1, <2>1, <2>2, <2>3, ChainStays DEF Semantics!Finish
<1> QED
  BY <1>2, <1>3

\* A step arrives: its arguments run first, or it is next.
LEMMA StepArrivesMaps ==
    ASSUME IInv, MapInv, NEW d \in Catalog, NEW chosen \in BindingsOf(d),
           NEW order \in Orders({p \in DOMAIN chosen : chosen[p] = "argument"}),
           StepArrives(d, chosen, order)
    PROVE  MapInv' /\ (UNCHANGED Semantics!vars \/ Semantics!EnterArgument)
<1> DEFINE n == Cardinality(DOMAIN order)
           w == Arrived(d, chosen, order)
           f == [Advanced(Top) EXCEPT !.waiting = <<w>>]
           gs == [frames EXCEPT ![Len(frames)] = f]
<1>1. /\ phase = "chain"
      /\ inlines + n <= Len(Inlines)
      /\ n # 0 => holds + HoldsOf(Top) <= Len(HoldNames)
      /\ IF n = 0 THEN frames' = gs /\ arena' = arena
         ELSE arena' = HoldBundle(arena, Top) /\ frames' = Append(gs, EmptyFrame)
      /\ eff' = eff /\ phase' = phase
  BY DEF StepArrives, AtStep, Waiting, Arrived, ArgumentsOf, BindingOf
<1>2. inlines \in Nat
  BY NamesFacts DEF IInv
<1>3. w \in WaitingStep
  BY <1>1, <1>2, ArrivedStep
<1> HIDE DEF w, n
<1>4. f \in Frame /\ Bundle(f) = Bundle(Top)
  BY <1>3, WaitingFrame
<1> HIDE DEF f
<1>5. /\ gs \in Seq(Frame) /\ BundlesOf(gs) = AbstractStack
  <2>1. /\ frames \in Seq(Frame) /\ frames # <<>> /\ Len(frames) \in 1 .. Len(frames)
    <3> DEFINE m == Len(frames)
    <3>1. m \in Nat \ {0}
      BY MappedStack
    <3>2. m \in 1 .. m
      <4> HIDE DEF m
      <4> QED
        BY <3>1
    <3> QED
      BY <3>2, MappedStack
  <2>2. gs \in Seq(Frame)
    BY <1>4, <2>1, ExceptSeq
  <2>3. BundlesOf(gs) = [BundlesOf(frames) EXCEPT ![Len(BundlesOf(frames))] = Bundle(Top)]
    BY <1>4, <2>1, BundlesReplaced
  <2>4. BundlesOf(frames)[Len(BundlesOf(frames))] = Bundle(Top)
    BY MappedStack, MappedState DEF Semantics!Top
  <2> HIDE DEF gs
  <2>5. BundlesOf(gs) = BundlesOf(frames)
    BY <2>3, <2>4 DEF BundlesOf
  <2> QED
    BY <2>2, <2>5, MappedState DEF gs
<1> HIDE DEF gs
<1>6. CASE n = 0
  <2>1. MapInv' /\ AbstractSurfaces' = AbstractSurfaces /\ AbstractStack' = AbstractStack
    BY <1>1, <1>5, <1>6, ChainKnows, MappedState DEF AbstractSurfaces
  <2> QED
    BY <1>1, <2>1, ChainStays DEF Semantics!vars
<1>7. CASE n # 0
  <2>1. \A m \in Names \ Taken(Len(HoldNames)) : Find(arena', m) = Find(arena, m)
    BY <1>1, <1>7, HoldBundleCorrect
  <2>2. MapInv'
    BY <1>1, <2>1, ChainKnows, KnownFacts
  <2>3. AbstractSurfaces' = AbstractSurfaces
    <3>1. Surfaces \subseteq Names /\ Len(HoldNames) \in 0 .. Len(HoldNames)
      BY NamesFacts
    <3>2. Taken(Len(HoldNames)) \cap Surfaces = {}
      BY <3>1, TakenFacts
    <3> QED
      BY <2>1, <3>1, <3>2, SurfacesStay
  <2>4. AbstractStack' = Append(AbstractStack, Semantics!EmptyBundle)
    BY <1>1, <1>5, <1>7, MappedState, BundlesPushed, EmptyStack, EmptyBundleMaps
  <2> QED
    BY <1>1, <2>2, <2>3, <2>4, ChainStays DEF Semantics!EnterArgument
<1> QED
  BY <1>6, <1>7

\* The chain of an argument ends.
LEMMA ArgumentEndsMaps ==
    ASSUME IInv, MapInv, ArgumentEnds
    PROVE  MapInv' /\ (Semantics!Fail \/ \E s \in Surfaces, more \in BOOLEAN :
                                             Semantics!LeaveArgument(s, more))
<1>1. phase = "chain" /\ Len(frames) > 1
  BY DEF ArgumentEnds, AtEnd
<1>2. CASE Top.image = NoResource
  BY <1>1, <1>2, ThrowMaps DEF ArgumentEnds
<1>3. CASE Top.image # NoResource
  <2> DEFINE outer == SubSeq(frames, 1, Len(frames) - 1)
             f == outer[Len(outer)]
             w == f.waiting[1]
             t == Tail(w.arguments)
             e == [f EXCEPT !.waiting = [f.waiting EXCEPT ![1] =
                                           [w EXCEPT !.arguments = Tail(w.arguments)]]]
             resumed == [outer EXCEPT ![Len(outer)] = e]
             gs == IF Tail(w.arguments) = <<>> THEN resumed ELSE Append(resumed, EmptyFrame)
             s == Head(w.arguments)
             bs == SubSeq(AbstractStack, 1, Len(AbstractStack) - 1)
  <2>1. /\ arena' = Alias(arena, Head(w.arguments), Top.image)
        /\ frames' = gs /\ eff' = eff /\ phase' = phase
    BY <1>3 DEF ArgumentEnds
  <2>2. /\ Tidy(arena) /\ BundleSecured(arena, holds, Top)
        /\ holds \in 0 .. Len(HoldNames) /\ StackOK(arena, holds, frames)
    BY <1>1, RunningFrame
  <2>3. frames \in Seq(Frame) /\ Len(frames) \in Nat
    BY MappedStack
  <2>4. /\ outer \in Seq(Frame) /\ outer # <<>> /\ Len(outer) \in 1 .. Len(outer)
        /\ f \in Frame /\ Suspended(f)
    <3> DEFINE m == Len(frames)
    <3>1. m \in Nat /\ m > 1 /\ m - 1 \in 1 - 1 .. m
      BY <1>1, <2>3
    <3>2. /\ outer \in Seq(Frame)
          /\ Len(outer) = IF 1 <= m - 1 THEN m - 1 - 1 + 1 ELSE 0
          /\ \A i \in 1 .. m - 1 - 1 + 1 : outer[i] = frames[1 + i - 1]
      <4>1. 1 \in 1 .. Len(frames) + 1 /\ m - 1 \in 1 - 1 .. Len(frames)
        BY <3>1
      <4> QED
        BY <2>3, <4>1, SubSeqProperties
    <3>3. \A i \in 1 .. m - 1 : Suspended(frames[i])
      BY <2>2 DEF StackOK
    <3> HIDE DEF m, outer
    <3>4. Len(outer) = m - 1 /\ Len(outer) \in 1 .. Len(outer) /\ f = frames[m - 1]
      BY <3>1, <3>2
    <3>5. f \in Frame
      BY <3>2, <3>4, ElementOfSeq
    <3>6. outer # <<>> /\ m - 1 \in 1 .. m - 1
      BY <3>1, <3>4, EmptySeq
    <3> QED
      BY <3>2, <3>3, <3>4, <3>5, <3>6
  <2>5. BundlesOf(outer) = bs
    BY <1>1, <2>3, BundlesPopped, MappedState
  <2> HIDE DEF outer, f, bs
  <2>6. s \in Inline /\ e \in Frame /\ Bundle(e) = Bundle(f)
    BY <2>4, ResumedFrame
  <2>7. s \in Surfaces /\ s \in Names /\ Surfaces \subseteq Names
    BY <2>6, NamesFacts
  <2> HIDE DEF e, w, s
  <2>8. resumed \in Seq(Frame) /\ BundlesOf(resumed) = bs
    <3>1. resumed \in Seq(Frame)
      BY <2>4, <2>6, ExceptSeq
    <3>2. BundlesOf(resumed) = [BundlesOf(outer) EXCEPT ![Len(BundlesOf(outer))] = Bundle(f)]
      BY <2>4, <2>6, BundlesReplaced
    <3>3. BundlesOf(outer)[Len(BundlesOf(outer))] = Bundle(f)
      BY <2>4, BundlesLength DEF f
    <3> HIDE DEF resumed
    <3>4. BundlesOf(resumed) = BundlesOf(outer)
      BY <3>2, <3>3 DEF BundlesOf
    <3> QED
      BY <2>5, <3>1, <3>4
  <2> HIDE DEF resumed, t
  <2>9. AbstractStack' = IF t # <<>> THEN Append(bs, Semantics!EmptyBundle) ELSE bs
    <3>1. frames' = IF t # <<>> THEN Append(resumed, EmptyFrame) ELSE resumed
      BY <2>1 DEF t
    <3> QED
      BY <2>8, <3>1, MappedState, BundlesPushed, EmptyStack, EmptyBundleMaps
  <2>10. /\ Find(arena', s) = Top.image
         /\ \A m \in Names : m # s => Find(arena', m) = Find(arena, m)
    <3>1. Top.image \in Resources /\ IsReferenced(arena, Top.image)
      BY <1>3, <2>2, NamesFacts, SecuredIsNamed DEF BundleSecured
    <3> QED
      BY <2>1, <2>2, <2>7, <3>1, AliasCorrect DEF s
  <2>11. MapInv'
    BY <1>1, <2>1, <2>7, <2>10, ChainKnows, KnownFacts
  <2>12. AbstractSurfaces' = [AbstractSurfaces EXCEPT ![s] = Top.image]
    BY <2>7, <2>10 DEF AbstractSurfaces
  <2>13. Semantics!Top.image = Top.image /\ Len(AbstractStack) > 1
    BY <1>1, MappedStack DEF Bundle
  <2> DEFINE more == t # <<>>
  <2>14. more \in BOOLEAN
    OBVIOUS
  <2>15. AbstractStack' = IF more THEN Append(bs, Semantics!EmptyBundle) ELSE bs
    BY <2>9
  <2> HIDE DEF more
  <2>16. Semantics!LeaveArgument(s, more)
    BY <1>1, <1>3, <2>1, <2>12, <2>13, <2>15, ChainStays DEF Semantics!LeaveArgument, bs
  <2> QED
    BY <2>7, <2>11, <2>14, <2>16
<1> QED
  BY <1>2, <1>3

\* An iterated group leaves what came in or what it has just published.
LEMMA IteratedGroupMaps ==
    ASSUME IInv, MapInv,
           NEW image \in {"none", "inputTex", "outputTex"},
           NEW volume \in {"none", "inputTex3d", GroupVolume},
           NEW geometry \in {"none", "inputGeo", GroupGeometry},
           IteratedGroup(image, volume, geometry)
    PROVE  MapInv' /\ Semantics!IteratedGroup
<1> DEFINE routes == RoutesOfGroup(image, volume, geometry)
           b == InsertAll(arena, routes)
           f == [image    |-> Component(b, image, Top.image),
                 volume   |-> Component(b, volume, Top.volume),
                 geometry |-> Component(b, geometry, Top.geometry),
                 length |-> Top.length, waiting |-> <<>>]
           Passes(r, input) == r \in {NoResource, input} \cup (Resources \ arena.owned)
<1>1. /\ phase = "chain" /\ arena' = b /\ SetTop(f)
      /\ eff' = eff /\ phase' = phase
  <2>1. PublishGroup(arena, image, volume, geometry) = b
    BY DEF PublishGroup, RoutesOfGroup, NewRoute, IsNew
  <2> QED
    BY <2>1 DEF IteratedGroup, Ready
<1>2. /\ Tidy(arena) /\ BundleSecured(arena, holds, Top) /\ holds \in 0 .. Len(HoldNames)
      /\ Top.image \in Pointers /\ Top.volume \in Pointers /\ Top.geometry \in Pointers
      /\ Top.length \in Nat
  BY <1>1, RunningFrame
<1>3. GroupNames \subseteq Names /\ GroupNames \cap Surfaces = {} /\ GroupNames \subseteq KnownNames
  BY NamesFacts, SamplesAssumption, KnownFacts DEF GroupNames
<1>4. \A n \in {image, volume, geometry} : IsNew(n) => n \in GroupNames
  BY DEF IsNew, PassesThrough, GroupNames
<1>5. /\ routes \in Seq(Names) /\ Len(routes) <= 3
      /\ \A i \in 1 .. Len(routes) : routes[i] \in GroupNames
      /\ \A n \in {image, volume, geometry} :
            IsNew(n) => \E i \in 1 .. Len(routes) : routes[i] = n
  BY <1>3, <1>4, GroupRoutes
<1> HIDE DEF routes
<1>6. /\ \A m \in Names : m \notin GroupNames => Find(b, m) = Find(arena, m)
      /\ \A i \in 1 .. Len(routes) : Find(b, routes[i]) \in Resources \ arena.owned
  <2>1. Balanced(arena, {}, NoResource) /\ arena.retired = {}
    BY <1>1, BalancedArena DEF IInv, ArenaOK, Lent, Pinned, InEffect
  <2>2. OnePinned(arena)
    BY <2>1 DEF Balanced, OnePinned
  <2>3. 3 \in Bursts
    BY DEF Bursts
  <2>4. Published(b, arena, routes)
    BY <1>2, <1>5, <2>1, <2>2, <2>3, PublishCorrect
  <2> HIDE DEF b
  <2>5. /\ \A m \in Names : (\A i \in 1 .. Len(routes) : routes[i] # m)
                                => Find(b, m) = Find(arena, m)
        /\ \A i \in 1 .. Len(routes) : Find(b, routes[i]) \in Resources \ arena.owned
    BY <2>4 DEF Published
  <2> QED
    BY <1>5, <2>5
<1> HIDE DEF b
<1>7. ASSUME NEW n \in {image, volume, geometry}, NEW input \in Pointers
      PROVE  Passes(Component(b, n, input), input) /\ Component(b, n, input) \in Pointers
  <2>1. CASE IsNew(n)
    <3>1. PICK i \in 1 .. Len(routes) : routes[i] = n
      BY <1>5, <2>1
    <3>2. Component(b, n, input) = Find(b, n) /\ Find(b, n) \in Resources \ arena.owned
      BY <1>6, <2>1, <3>1 DEF Component, IsNew
    <3> QED
      BY <3>2 DEF Pointers
  <2>2. CASE ~IsNew(n)
    BY <2>2 DEF Component, IsNew, Pointers
  <2> QED
    BY <2>1, <2>2
<1>8. {Top.image, Top.volume, Top.geometry} \subseteq arena.owned \cup {NoResource}
  <2>1. ImageNames \subseteq Names /\ VolumeNames \subseteq Names /\ GeometryNames \subseteq Names
    BY NamesFacts
  <2> QED
    BY <1>2, <2>1, SecuredIsNamed DEF BundleSecured
<1>9. /\ f \in Frame
      /\ Bundle(f).image = f.image /\ Bundle(f).volume = f.volume
      /\ Bundle(f).geometry = f.geometry
      /\ Bundle(f) = [image |-> f.image, volume |-> f.volume, geometry |-> f.geometry]
      /\ Passes(f.image, Top.image) /\ Passes(f.volume, Top.volume)
      /\ Passes(f.geometry, Top.geometry)
  <2>1. <<>> \in Seq(WaitingStep)
    OBVIOUS
  <2>2. f \in Frame
    BY <1>2, <1>7, <2>1 DEF Frame
  <2>3. /\ f.image = Component(b, image, Top.image)
        /\ f.volume = Component(b, volume, Top.volume)
        /\ f.geometry = Component(b, geometry, Top.geometry)
    OBVIOUS
  <2> HIDE DEF f, Passes
  <2>4. Passes(f.image, Top.image) /\ Passes(f.volume, Top.volume)
        /\ Passes(f.geometry, Top.geometry)
    BY <1>2, <1>7, <2>3
  <2> QED
    BY <2>2, <2>4 DEF Bundle
<1> HIDE DEF f
<1>10. Semantics!SetTop(Bundle(f))
  BY <1>1, <1>9, TopSetMaps
<1>11. /\ Len(AbstractStack') = Len(AbstractStack)
       /\ AbstractStack'[Len(AbstractStack)] = Bundle(f)
  <2>1. AbstractStack' = [AbstractStack EXCEPT ![Len(AbstractStack)] = Bundle(f)]
    BY <1>10 DEF Semantics!SetTop
  <2>2. frames \in Seq(Frame) /\ AbstractStack = BundlesOf(frames) /\ Len(AbstractStack) = Len(frames)
        /\ Len(frames) \in Nat \ {0}
    BY MappedStack, MappedState
  <2>3. DOMAIN AbstractStack = 1 .. Len(frames)
    BY <2>2, BundlesLength
  <2> DEFINE m == Len(frames)
             st == AbstractStack
  <2>4. m \in 1 .. m /\ DOMAIN st = 1 .. m /\ Len(st) = m /\ m \in Nat
    <3>1. m \in Nat \ {0}
      BY <2>2
    <3>2. m \in 1 .. m
      <4> HIDE DEF m
      <4> QED
        BY <3>1
    <3> QED
      BY <2>2, <2>3, <3>1, <3>2
  <2>5. AbstractStack' = [st EXCEPT ![m] = Bundle(f)]
    BY <2>1, <2>4
  <2> HIDE DEF m, st
  <2>6. DOMAIN AbstractStack' = 1 .. m /\ AbstractStack'[m] = Bundle(f)
    BY <2>4, <2>5
  <2>7. Len(AbstractStack') = m
    <3>1. AbstractStack' = BundlesOf(frames') /\ frames' = [frames EXCEPT ![Len(frames)] = f]
      BY <1>1, MappedState DEF SetTop
    <3>2. frames' \in Seq(Frame)
      BY <1>9, <2>2, <2>4, <3>1, ExceptSeq DEF m
    <3>3. DOMAIN BundlesOf(frames') = 1 .. Len(frames') /\ Len(BundlesOf(frames')) = Len(frames')
          /\ Len(frames') \in Nat
      BY <3>2, BundlesLength
    <3>4. Len(frames') = Len(frames)
      BY <1>9, <2>2, <2>4, <3>1, ExceptSeq DEF m
    <3> QED
      BY <3>1, <3>3, <3>4 DEF m
  <2> QED
    BY <2>4, <2>6, <2>7 DEF st
<1>12. MapInv' /\ AbstractSurfaces' = AbstractSurfaces
  <2>1. \A s \in Surfaces : s \in Names /\ s \notin GroupNames
    BY <1>3, NamesFacts
  <2> QED
    BY <1>1, <1>3, <1>6, <2>1, ChainKnows, SurfacesStay
<1>13. Semantics!InUse \subseteq arena.owned \cup {NoResource}
  BY InUseOwned
<1>14. /\ Semantics!Top.image = Top.image /\ Semantics!Top.volume = Top.volume
       /\ Semantics!Top.geometry = Top.geometry
  BY MappedStack DEF Bundle
<1>15. NoResource \notin Resources
  BY NoResourceAssumption
<1> DEFINE new == {f.image, f.volume, f.geometry}
                    \ {NoResource, Top.image, Top.volume, Top.geometry}
<1>16. /\ new \cap Semantics!InUse = {}
       /\ f.image \in {NoResource, Top.image} \cup new
       /\ f.volume \in {NoResource, Top.volume} \cup new
       /\ f.geometry \in {NoResource, Top.geometry} \cup new
  BY <1>8, <1>9, <1>13, <1>15
<1> QED
  BY <1>1, <1>9, <1>10, <1>11, <1>12, <1>14, <1>16, ChainStays DEF Semantics!IteratedGroup

-----------------------------------------------------------------------------
\* The steps of an effect.

\* The publications of one step are new and distinct, so they are a fresh map.
LEMMA FreshMap ==
    ASSUME IInv, MapInv, NEW a, NEW routes,
           \A r \in routes : Find(a, r) \in Resources \ arena.owned,
           \A r, q \in routes : Find(a, r) = Find(a, q) => r = q
    PROVE  MapOf(a, routes) \in Semantics!Fresh(routes)
<1>1. Semantics!InUse \subseteq arena.owned \cup {NoResource} /\ NoResource \notin Resources
  BY InUseOwned, NoResourceAssumption
<1>2. \A r \in routes : MapOf(a, routes)[r] = Find(a, r)
  BY DEF MapOf
<1>3. MapOf(a, routes) \in [routes -> Resources \ Semantics!InUse]
  BY <1>1 DEF MapOf
<1> QED
  BY <1>2, <1>3 DEF Semantics!Fresh

LEMMA SameNoEffect == Semantics!NoEffect = NoEffect
BY DEF NoEffect, Effect, Semantics!NoEffect, Semantics!Effect

LEMMA EffectBeginsMaps ==
    ASSUME IInv, MapInv, EffectBegins
    PROVE  /\ MapInv'
           /\ \E d \in Catalog \ {Semantics!NoEffect} : \E binding \in Semantics!Bindings(d) :
                 Semantics!BeginEffect(d, binding)
<1> DEFINE w == Top.waiting[1]
           d == w.definition
           c == {d.cleared[i] : i \in 1 .. Len(d.cleared)}
<1>1. /\ phase = "chain" /\ phase' = "effect" /\ d # NoEffect /\ frames' = frames
      /\ d \in Catalog /\ w.binding \in Bindings(d)
  BY EffectBegun
<1>2. /\ eff'.definition = d /\ eff'.binding = w.binding /\ eff'.next = 1
      /\ eff'.input = Top.image /\ eff'.output = Top.image
      /\ eff'.wroteOutputTex = FALSE /\ eff'.resolved = <<>> /\ eff'.published = c
  BY EffectBegun
<1>3. /\ \A m \in Names : m \notin Written(d, 0) => Find(arena', m) = Find(arena, m)
      /\ \A r \in c : Find(arena', r) \in Resources \ arena.owned
      /\ \A r, q \in c : Find(arena', r) = Find(arena', q) => r = q
  BY EffectBegun
<1>4. c = Written(d, 0)
  BY DEF Written
<1> HIDE DEF w, d, c
<1>5. Written(d, 0) \subseteq Names
  BY <1>1, CatalogFacts
<1>6. MapOf(arena', c) \in Semantics!Fresh(c)
  BY <1>3, FreshMap
<1>7. AbstractEffect' = [definition |-> d, binding |-> w.binding, next |-> 1,
                         map |-> MapOf(arena', c), output |-> Top.image]
  BY <1>2, MappedState DEF EffectOf
<1>8. MappedOK'
  <2>1. \A r \in Names : Own(eff'.definition, eff'.next, r) => r \in eff'.published
    <3>1. 1 .. 1 - 1 = {}
      OBVIOUS
    <3> QED
      BY <1>2, <1>4, <3>1 DEF Own
  <2>2. "outputTex" \notin c
    BY <1>1, <1>4, CatalogAssumption, NamesFacts
  <2>3. ~(phase' = "bound")
    BY <1>1
  <2> QED
    BY <1>2, <1>4, <1>5, <2>1, <2>2, <2>3 DEF MappedOK
<1>9. MapInv'
  <2>1. \A n \in Names : Find(arena', n) # NoResource => n \in KnownNames
    BY <1>1, <1>3, KnownFacts DEF MapInv
  <2> QED
    BY <1>8, <2>1 DEF MapInv
<1>10. AbstractSurfaces' = AbstractSurfaces
  <2>1. \A s \in Surfaces : s \in Names /\ s \notin Written(d, 0)
    <3>1. 0 \in 0 .. Len(d.passes)
      BY <1>1, CatalogFacts
    <3> QED
      BY <1>1, <3>1, NamesFacts, SamplesAssumption
  <2> QED
    BY <1>3, <2>1, SurfacesStay
<1>11. AbstractStack' = AbstractStack
  BY <1>1 DEF AbstractStack
<1>12. AbstractPhase = "chain" /\ AbstractPhase' = "effect"
  BY <1>1 DEF AbstractPhase
<1>13. (eff.resolved)' = eff.resolved
  <2>1. eff = IdleEffect /\ IdleEffect.resolved = <<>>
    BY <1>1, RunningFrame DEF IdleEffect
  <2> QED
    BY <1>2, <2>1
<1>14. Semantics!Top.image = Top.image
  BY MappedStack DEF Bundle
<1>15. w.binding \in Semantics!Bindings(d)
  BY <1>1 DEF Bindings, Semantics!Bindings
<1>16. Semantics!BeginEffect(d, w.binding)
  BY <1>6, <1>7, <1>10, <1>11, <1>12, <1>13, <1>14 DEF Semantics!BeginEffect, c
<1> QED
  BY <1>1, <1>9, <1>15, <1>16, SameNoEffect

\* A pass is skipped, or is due.
LEMMA PassBeginsMaps ==
    ASSUME IInv, MapInv, PassBegins
    PROVE  MapInv' /\ (Semantics!SkipPass \/ UNCHANGED Semantics!vars)
<1> DEFINE d == eff.definition
<1>1. phase = "effect" /\ HasPass /\ arena' = arena /\ frames' = frames /\ InEffect
  BY DEF PassBegins, InEffect
<1>2. PICK n \in ThePass.repeats :
         IF n = 0 THEN eff' = [eff EXCEPT !.next = eff.next + 1] /\ phase' = phase
                  ELSE eff' = [eff EXCEPT !.again = n] /\ phase' = "pass"
  BY DEF PassBegins
<1>3. IsRecord(eff) /\ eff.next \in Nat /\ MappedOK
  <2>1. IsRecord(eff) /\ eff.next \in 1 .. Len(eff.definition.passes) + 1
    BY <1>1, EffectFacts
  <2> QED
    BY <1>1, <2>1 DEF MapInv
<1>4. /\ eff'.definition = d /\ eff'.binding = eff.binding /\ eff'.input = eff.input
      /\ eff'.output = eff.output /\ eff'.wroteOutputTex = eff.wroteOutputTex
      /\ eff'.resolved = eff.resolved /\ eff'.published = eff.published
      /\ eff'.next = (IF n = 0 THEN eff.next + 1 ELSE eff.next)
  <2>1. CASE n = 0
    <3>1. eff' = Locals(eff.definition, eff.binding, eff.next + 1, eff.again, eff.input,
                        eff.volume, eff.geometry, eff.output, eff.wroteOutputTex,
                        eff.resolved, eff.published)
      BY <1>2, <1>3, <2>1, LocalsStepped
    <3> QED
      BY <2>1, <3>1, LocalsFields
  <2>2. CASE n # 0
    <3>1. eff' = Locals(eff.definition, eff.binding, eff.next, n, eff.input,
                        eff.volume, eff.geometry, eff.output, eff.wroteOutputTex,
                        eff.resolved, eff.published)
      BY <1>2, <1>3, <2>2, LocalsStepped
    <3> QED
      BY <2>2, <3>1, LocalsFields
  <2> QED
    BY <2>1, <2>2
<1>5. n = 0 => CanBeSkipped(d.passes[eff.next])
  BY <1>2 DEF CanBeSkipped, ThePass
<1>6. \A r : Own(eff'.definition, eff'.next, r) => Own(d, eff.next, r)
  <2>1. \A j \in 1 .. eff'.next - 1 :
           j \in 1 .. eff.next - 1 \/ CanBeSkipped(d.passes[j])
    <3>1. CASE n # 0
      BY <1>4, <3>1
    <3>2. CASE n = 0
      <4>1. \A j \in 1 .. eff.next + 1 - 1 : j \in 1 .. eff.next - 1 \/ j = eff.next
        BY <1>3
      <4>2. eff'.next = eff.next + 1
        BY <1>4, <3>2
      <4>3. CanBeSkipped(d.passes[eff.next])
        BY <1>5, <3>2
      <4>4. \A j \in 1 .. eff'.next - 1 : j \in 1 .. eff.next - 1 \/ j = eff.next
        BY <1>3, <4>1, <4>2
      <4> QED
        BY <4>3, <4>4
    <3> QED
      BY <3>1, <3>2
  <2> QED
    BY <1>4, <2>1 DEF Own
<1>7. phase' \in {"effect", "pass"}
  BY <1>1, <1>2
<1>8. MapInv'
  <2>1. MappedOK'
    BY <1>1, <1>3, <1>4, <1>6, <1>7 DEF MappedOK, HasAlias
  <2> QED
    BY <1>1, <2>1 DEF MapInv
<1>9. /\ AbstractSurfaces' = AbstractSurfaces /\ AbstractStack' = AbstractStack
      /\ AbstractPhase' = AbstractPhase /\ AbstractPhase = "effect"
  BY <1>1, <1>7 DEF AbstractSurfaces, AbstractStack, AbstractPhase
<1>10. AbstractEffect' = [definition |-> d, binding |-> eff.binding, next |-> eff'.next,
                          map |-> MapOf(arena, eff.published), output |-> eff.output]
  BY <1>1, <1>4, MappedState DEF EffectOf
<1>11. AbstractEffect = [definition |-> d, binding |-> eff.binding, next |-> eff.next,
                         map |-> MapOf(arena, eff.published), output |-> eff.output]
  BY MappedState DEF EffectOf
<1>12. CASE n # 0
  <2>1. AbstractEffect' = AbstractEffect
    BY <1>4, <1>10, <1>11, <1>12
  <2> QED
    BY <1>4, <1>8, <1>9, <2>1 DEF Semantics!vars
<1>13. CASE n = 0
  <2>1. AbstractEffect' = [AbstractEffect EXCEPT !.next = eff.next + 1]
    BY <1>4, <1>10, <1>11, <1>13
  <2>2. AbstractEffect.next = eff.next /\ AbstractEffect.definition = d
    BY MappedFields
  <2>3. Semantics!HasPass
    BY <1>1, <1>9, <2>2 DEF HasPass, Semantics!HasPass
  <2>4. 0 \in Semantics!ThePass.repeats
    BY <1>2, <1>13, <2>2 DEF ThePass, Semantics!ThePass
  <2>5. Semantics!SkipPass
    BY <1>4, <1>9, <2>1, <2>2, <2>3, <2>4 DEF Semantics!SkipPass
  <2> QED
    BY <1>8, <2>5
<1> QED
  BY <1>12, <1>13

\* What an effect finds under a route is what it has published there, or
\* nothing is there at all.
LEMMA OwnRouteMaps ==
    ASSUME MapInv, MappedOK, NEW r \in Names,
           Own(eff.definition, eff.next, r) \/ r \notin KnownNames
    PROVE  Find(arena, r) = IF r \in DOMAIN AbstractEffect.map THEN AbstractEffect.map[r]
                                                               ELSE NoResource
<1>1. DOMAIN AbstractEffect.map = eff.published
  BY MappedFields
<1>2. CASE r \in eff.published
  BY <1>1, <1>2, MappedFields
<1>3. CASE r \notin eff.published
  <2>1. Find(arena, r) = NoResource
    BY <1>3 DEF MappedOK, MapInv
  <2> QED
    BY <1>1, <1>3, <2>1
<1> QED
  BY <1>2, <1>3

\* A sampler route resolves to the value it has in the semantics.
LEMMA ResolvedMaps ==
    ASSUME IInv, MapInv, phase = "pass", NEW r \in ThePass.inputs
    PROVE  /\ Semantics!Resolve(r) = ResolveRoute(r)
           /\ Semantics!IsNull(AbstractEffect.definition, AbstractEffect.binding, r)
                <=> IsNull(eff.definition, eff.binding, r)
           /\ r \in Names \ eff.definition.parameters => ResolveRoute(r) = Find(arena, r)
<1> DEFINE d == eff.definition
           e == AbstractEffect
           x == ResolveRoute(r)
           y == Semantics!Resolve(r)
<1>1. InEffect /\ eff.next \in 1 .. Len(d.passes) /\ r \in d.passes[eff.next].inputs
  BY PassFacts
<1>2. /\ d \in Catalog /\ eff.binding \in Bindings(d) /\ LocalsOK /\ MappedOK
  BY <1>1, EffectFacts DEF LocalsOK, MapInv
<1>3. r \in Names \cup d.parameters \cup {"inputTex", "inputTex3d", "inputGeo"}
  BY <1>1, <1>2, CatalogFacts
<1>4. /\ d.parameters \cap {"inputTex", "inputTex3d", "inputGeo"} = {}
      /\ {"inputTex", "inputTex3d", "inputGeo"} \cap Names = {}
      /\ "null" \notin Surfaces /\ "input" \notin Surfaces
  BY <1>2, CatalogAssumption, NamesAssumption
<1>5. r \in d.parameters => eff.binding[r] \in {"null", "input"} \cup Surfaces
  BY <1>2 DEF Bindings
<1>6. /\ e.definition = d /\ e.binding = eff.binding
      /\ Semantics!Top.image = eff.input /\ Semantics!Top.volume = eff.volume
      /\ Semantics!Top.geometry = eff.geometry
  <2>1. eff.input = Top.image /\ eff.volume = Top.volume /\ eff.geometry = Top.geometry
    BY <1>2 DEF LocalsOK
  <2> QED
    BY <2>1, MappedFields, MappedStack DEF Bundle
<1>7. \A s \in Surfaces : AbstractSurfaces[s] = Find(arena, s)
  BY DEF AbstractSurfaces
<1>8. Semantics!IsNull(e.definition, e.binding, r) <=> IsNull(d, eff.binding, r)
  BY <1>6 DEF Semantics!IsNull, IsNull
<1> HIDE DEF e
<1>9. CASE r \in d.parameters
  <2>1. CASE eff.binding[r] = "null"
    <3>1. x = NoResource
      BY <1>4, <1>9, <2>1 DEF ResolveRoute, IsNull
    <3>2. y = NoResource
      BY <1>4, <1>6, <1>9, <2>1 DEF Semantics!Resolve, Semantics!IsNull, e
    <3> HIDE DEF x, y
    <3> QED
      BY <1>8, <1>9, <3>1, <3>2 DEF x, y, e
  <2>2. CASE eff.binding[r] = "input"
    <3>1. x = eff.input
      BY <1>4, <1>9, <2>2 DEF ResolveRoute, IsNull
    <3>2. y = eff.input
      BY <1>4, <1>6, <1>9, <2>2 DEF Semantics!Resolve, Semantics!IsNull, e
    <3> HIDE DEF x, y
    <3> QED
      BY <1>8, <1>9, <3>1, <3>2 DEF x, y, e
  <2>3. CASE eff.binding[r] \in Surfaces
    <3>1. x = Find(arena, eff.binding[r])
      BY <1>4, <1>9, <2>3 DEF ResolveRoute, IsNull
    <3>2. y = AbstractSurfaces[eff.binding[r]]
      BY <1>4, <1>6, <1>9, <2>3 DEF Semantics!Resolve, Semantics!IsNull, e
    <3> HIDE DEF x, y
    <3> QED
      BY <1>7, <1>8, <1>9, <2>3, <3>1, <3>2 DEF x, y, e
  <2> QED
    BY <1>5, <1>9, <2>1, <2>2, <2>3
<1>10. CASE r \notin d.parameters
  <2>1. CASE r = "inputTex"
    <3>1. x = eff.input
      BY <1>10, <2>1 DEF ResolveRoute, IsNull
    <3>2. y = eff.input
      BY <1>6, <1>10, <2>1 DEF Semantics!Resolve, Semantics!IsNull, e
    <3> HIDE DEF x, y
    <3> QED
      BY <1>4, <1>8, <2>1, <3>1, <3>2 DEF x, y, e
  <2>2. CASE r = "inputTex3d"
    <3>1. x = eff.volume
      BY <1>10, <2>2 DEF ResolveRoute, IsNull
    <3>2. y = eff.volume
      BY <1>6, <1>10, <2>2 DEF Semantics!Resolve, Semantics!IsNull, e
    <3> HIDE DEF x, y
    <3> QED
      BY <1>4, <1>8, <2>2, <3>1, <3>2 DEF x, y, e
  <2>3. CASE r = "inputGeo"
    <3>1. x = eff.geometry
      BY <1>10, <2>3 DEF ResolveRoute, IsNull
    <3>2. y = eff.geometry
      BY <1>6, <1>10, <2>3 DEF Semantics!Resolve, Semantics!IsNull, e
    <3> HIDE DEF x, y
    <3> QED
      BY <1>4, <1>8, <2>3, <3>1, <3>2 DEF x, y, e
  <2>4. CASE r \notin {"inputTex", "inputTex3d", "inputGeo"}
    <3>1. x = Find(arena, r)
      BY <1>10, <2>4 DEF ResolveRoute, IsNull
    <3>2. r \in Names
      BY <1>3, <1>10, <2>4
    <3>3. Own(d, eff.next, r) \/ r \notin KnownNames
      BY <1>1, <1>2, <1>10, <2>4, SamplesAssumption
    <3>4. y = IF r \in DOMAIN e.map THEN e.map[r] ELSE NoResource
      BY <1>6, <1>10, <2>4 DEF Semantics!Resolve, Semantics!IsNull, e
    <3> HIDE DEF x, y
    <3>5. x = y
      BY <1>2, <3>1, <3>2, <3>3, <3>4, OwnRouteMaps DEF e
    <3> QED
      BY <1>8, <3>1, <3>5 DEF x, y, e
  <2> QED
    BY <2>1, <2>2, <2>3, <2>4
<1> QED
  BY <1>9, <1>10

LEMMA SamplersBoundMaps ==
    ASSUME IInv, MapInv, SamplersBound
    PROVE  MapInv' /\ (Semantics!Fail \/ Semantics!BindPass)
<1> DEFINE d == eff.definition
<1>1. phase = "pass"
  BY DEF SamplersBound
<1>2. CASE ~\A r \in ThePass.inputs : IsResolved(r)
  <2>1. Throw
    BY <1>2 DEF SamplersBound
  <2> QED
    BY <1>1, <2>1, ThrowMaps
<1>3. CASE \A r \in ThePass.inputs : IsResolved(r)
  <2> DEFINE resolved == [r \in Sampled(ThePass) |->
                            IF r = "destination" THEN Find(arena, ThePass.outputs[1])
                                                 ELSE ResolveRoute(r)]
  <2>1. /\ phase' = "bound" /\ frames' = frames
        /\ eff'.definition = d /\ eff'.binding = eff.binding /\ eff'.next = eff.next
        /\ eff'.input = eff.input /\ eff'.output = eff.output
        /\ eff'.wroteOutputTex = eff.wroteOutputTex /\ eff'.published = eff.published
        /\ arena'.named = arena.named /\ eff'.resolved = resolved
    BY <1>3, SamplersBoundFacts
  <2>2. /\ InEffect /\ HasPass /\ eff.next \in 1 .. Len(d.passes)
        /\ ThePass = d.passes[eff.next]
    BY <1>1, PassFacts
  <2>3. d \in Catalog /\ MappedOK /\ Len(d.passes) \in Nat
    BY <2>2, EffectFacts DEF MapInv
  <2>4. /\ ThePass.outputs \in Seq(Names) /\ 1 \in 1 .. Len(ThePass.outputs)
        /\ Written(d, eff.next) = Routes(ThePass) /\ Routes(ThePass) \subseteq Names
        /\ ThePass.inputs \subseteq Names \cup d.parameters \cup {"inputTex", "inputTex3d", "inputGeo"}
    <3> DEFINE outs == ThePass.outputs
               l == Len(outs)
    <3>1. /\ outs \in Seq(Names) /\ l \in Nat /\ l \in 1 .. l
          /\ Written(d, eff.next) = Routes(ThePass)
          /\ ThePass.inputs \subseteq Names \cup d.parameters \cup {"inputTex", "inputTex3d", "inputGeo"}
      BY <2>2, <2>3, CatalogFacts
    <3>2. \A i \in 1 .. l : outs[i] \in Names
      BY <3>1
    <3>3. 1 \in 1 .. l
      <4> HIDE DEF l
      <4> QED
        BY <3>1
    <3> QED
      BY <3>1, <3>2, <3>3 DEF Routes
  <2>5. \A n : Find(arena', n) = Find(arena, n)
    BY <2>1 DEF Find
  <2>6. ASSUME NEW r \in ThePass.inputs
        PROVE  /\ Semantics!Resolve(r) = ResolveRoute(r)
               /\ \/ Semantics!Resolve(r) # NoResource
                  \/ Semantics!IsNull(AbstractEffect.definition, AbstractEffect.binding, r)
    BY <1>1, <1>3, ResolvedMaps DEF IsResolved
  <2>7. /\ Semantics!ThePass = ThePass /\ AbstractEffect.definition = d
        /\ Semantics!Sampled(ThePass) = Sampled(ThePass)
    BY MappedFields DEF Semantics!ThePass, ThePass, Semantics!Sampled, Sampled
  <2>8. "destination" \in Sampled(ThePass) =>
           Find(arena, ThePass.outputs[1]) = Semantics!Selected(ThePass.outputs[1], NoResource)
    <3> DEFINE r == ThePass.outputs[1]
    <3>1. r \in Names /\ ~Semantics!PassesThrough(r)
      BY <2>4, NamesAssumption DEF Semantics!PassesThrough
    <3>2. ASSUME "destination" \in Sampled(ThePass) PROVE Own(d, eff.next, r)
      <4>1. "destination" \notin ThePass.inputs
        BY <2>3, <2>4, CatalogAssumption, NamesAssumption
      <4>2. ThePass.accumulates
        BY <3>2, <4>1 DEF Sampled
      <4> QED
        BY <2>2, <2>3, <4>2, SamplesAssumption
    <3> HIDE DEF r
    <3>3. Own(d, eff.next, r) => Find(arena, r) = Semantics!Selected(r, NoResource)
      BY <2>3, <3>1, OwnRouteMaps DEF Semantics!Selected
    <3> QED
      BY <3>2, <3>3 DEF r
  <2>9. resolved = [r \in Sampled(ThePass) |->
                      IF r # "destination" THEN Semantics!Resolve(r)
                      ELSE Semantics!Selected(ThePass.outputs[1], NoResource)]
    <3>1. \A r \in Sampled(ThePass) : r = "destination" \/ r \in ThePass.inputs
      BY DEF Sampled
    <3> QED
      BY <2>6, <2>8, <3>1
  <2> HIDE DEF resolved
  <2>10. Routes(ThePass) \subseteq KnownNames
    <3> SUFFICES ASSUME NEW r \in Routes(ThePass) PROVE r \in KnownNames
      OBVIOUS
    <3>1. r \in Names /\ r \in Written(d, eff.next)
      BY <2>4
    <3>2. CASE r \in ThePass.inputs \ d.parameters
      <4>1. ResolveRoute(r) = Find(arena, r)
        BY <1>1, <3>1, <3>2, ResolvedMaps
      <4>2. ResolveRoute(r) # NoResource
        BY <1>3, <3>2 DEF IsResolved, IsNull
      <4> QED
        BY <3>1, <4>1, <4>2 DEF MapInv
    <3>3. CASE r \notin ThePass.inputs \ d.parameters
      <4>1. Written(d, eff.next) \ (d.passes[eff.next].inputs \ d.parameters) \subseteq KnownNames
        BY <2>2, <2>3, KnownFacts
      <4> QED
        BY <2>2, <3>1, <3>3, <4>1
    <3> QED
      BY <3>2, <3>3
  <2>11. MapInv'
    <3>1. ThePass' = ThePass
      BY <2>1 DEF ThePass
    <3>2. MappedOK'
      BY <2>1, <2>3, <2>10, <3>1 DEF MappedOK, HasAlias
    <3> QED
      BY <2>5, <3>2 DEF MapInv
  <2>12. /\ AbstractSurfaces' = AbstractSurfaces /\ AbstractStack' = AbstractStack
         /\ AbstractPhase = "effect" /\ AbstractPhase' = "pass"
    BY <1>1, <2>1, <2>5 DEF AbstractSurfaces, AbstractStack, AbstractPhase
  <2>13. AbstractEffect' = AbstractEffect
    <3>1. MapOf(arena', eff.published) = MapOf(arena, eff.published)
      BY <2>5 DEF MapOf
    <3> QED
      BY <2>1, <3>1, MappedState DEF EffectOf
  <2>14. Semantics!HasPass
    BY <2>2, <2>12, MappedFields DEF HasPass, Semantics!HasPass
  <2> QED
    BY <2>1, <2>6, <2>7, <2>9, <2>11, <2>12, <2>13, <2>14 DEF Semantics!BindPass
<1> QED
  BY <1>2, <1>3

\* The outputs of a pass enter the map together.
LEMMA PassPublishesMaps ==
    ASSUME IInv, MapInv, PassPublishes
    PROVE  MapInv' /\ \E again \in BOOLEAN : Semantics!PublishPass(again)
<1> DEFINE d == eff.definition
           m == Len(d.passes)
           R == Routes(ThePass)
           L == LastSlot(ThePass)
           x == IF eff.again = 1 THEN eff.next + 1 ELSE eff.next
           again == eff.again # 1
           fresh == MapOf(arena', R)
<1>1. /\ phase = "bound" /\ phase' = (IF eff.again = 1 THEN "effect" ELSE "pass")
      /\ frames' = frames
      /\ eff'.definition = d /\ eff'.binding = eff.binding /\ eff'.next = x
      /\ eff'.input = eff.input /\ eff'.output = Find(arena', L)
      /\ eff'.wroteOutputTex = (eff.wroteOutputTex \/ "outputTex" \in R)
      /\ eff'.resolved = <<>> /\ eff'.published = eff.published \cup R
  BY PassPublished
<1>2. /\ R \subseteq Names /\ L \in R /\ Written(d, eff.next) = R
      /\ \A n \in Names : n \notin R => Find(arena', n) = Find(arena, n)
      /\ \A r \in R : Find(arena', r) \in Resources \ arena.owned
      /\ \A r, q \in R : Find(arena', r) = Find(arena', q) => r = q
  BY PassPublished
<1>3. /\ InEffect /\ eff.next \in 1 .. m /\ eff.next \in Nat /\ ThePass = d.passes[eff.next]
  BY <1>1, PassFacts, EffectFacts
<1>4. d \in Catalog /\ MappedOK /\ m \in Nat
  BY <1>3, EffectFacts DEF MapInv
<1> HIDE DEF R, L
<1>5. fresh \in Semantics!Fresh(R)
  BY <1>2, FreshMap
<1>6. \A r : Own(d, x, r) => Own(d, eff.next, r) \/ r \in R
  <2>1. \A j \in 1 .. x - 1 : j \in 1 .. eff.next - 1 \/ j = eff.next
    <3>1. CASE eff.again = 1
      <4>1. x = eff.next + 1
        BY <3>1
      <4> HIDE DEF x
      <4> QED
        BY <1>3, <4>1
    <3>2. CASE eff.again # 1
      BY <3>2
    <3> QED
      BY <3>1, <3>2
  <2>2. Routes(d.passes[eff.next]) = R
    BY <1>3 DEF R
  <2> HIDE DEF x
  <2> QED
    BY <2>1, <2>2 DEF Own
<1>7. MappedOK'
  <2>1. phase' # "bound"
    BY <1>1
  <2>2. HasAlias(arena', eff'.output)
    BY <1>1, <1>2 DEF HasAlias, Find
  <2>3. \A r \in Names : Own(eff'.definition, eff'.next, r) => r \in eff'.published
    <3> HIDE DEF x, d
    <3> QED
      BY <1>1, <1>4, <1>6 DEF MappedOK, d
  <2>4. eff'.published \subseteq Names /\ (eff'.wroteOutputTex <=> "outputTex" \in eff'.published)
    BY <1>1, <1>2, <1>4 DEF MappedOK
  <2> QED
    BY <2>1, <2>2, <2>3, <2>4 DEF MappedOK
<1>8. MapInv'
  <2>1. \A n \in Names : Find(arena', n) # NoResource => n \in KnownNames
    <3>1. R \subseteq KnownNames
      BY <1>1, <1>4 DEF MappedOK, R
    <3> QED
      BY <1>2, <3>1 DEF MapInv
  <2> QED
    BY <1>7, <2>1 DEF MapInv
<1>9. AbstractSurfaces' = AbstractSurfaces
  <2>1. \A s \in Surfaces : s \in Names /\ s \notin R
    <3>1. eff.next \in 0 .. m
      BY <1>3
    <3> QED
      BY <1>2, <1>4, <3>1, NamesFacts, SamplesAssumption
  <2> QED
    BY <1>2, <2>1, SurfacesStay
<1>10. /\ AbstractStack' = AbstractStack /\ AbstractPhase = "pass" /\ AbstractPhase' = "effect"
  BY <1>1 DEF AbstractStack, AbstractPhase
<1>11. Semantics!ThePass = ThePass /\ Semantics!Routes(ThePass) = R
  BY MappedFields DEF Semantics!ThePass, ThePass, Semantics!Routes, Routes, R
<1>12. ThePass.outputs[Len(ThePass.outputs)] = L
  BY DEF LastSlot, L
<1>13. AbstractEffect' = [definition |-> d, binding |-> eff.binding, next |-> x,
                          map |-> MapOf(arena', eff.published \cup R),
                          output |-> Find(arena', L)]
  <2> HIDE DEF x, d
  <2> QED
    BY <1>1, MappedState DEF EffectOf
<1>14. AbstractEffect = [definition |-> d, binding |-> eff.binding, next |-> eff.next,
                         map |-> MapOf(arena, eff.published), output |-> eff.output]
  BY MappedState DEF EffectOf
<1> DEFINE e == AbstractEffect
           f == [r \in DOMAIN e.map \cup R |-> IF r \in R THEN fresh[r] ELSE e.map[r]]
<1>15. MapOf(arena', eff.published \cup R) = f
  <2>1. DOMAIN e.map = eff.published /\ \A r \in eff.published : e.map[r] = Find(arena, r)
    BY MappedFields
  <2>2. \A r \in eff.published \cup R :
           Find(arena', r) = IF r \in R THEN fresh[r] ELSE e.map[r]
    BY <1>2, <1>4, <2>1 DEF MappedOK, MapOf
  <2> HIDE DEF e, fresh
  <2> QED
    BY <2>1, <2>2 DEF MapOf
<1>16. fresh[L] = Find(arena', L)
  BY <1>2 DEF MapOf
<1>17. AbstractEffect' = [e EXCEPT !.map = f, !.output = fresh[L],
                                   !.next = IF again THEN e.next ELSE e.next + 1]
  <2>1. x = IF again THEN e.next ELSE e.next + 1
    BY <1>14
  <2> HIDE DEF x, f, fresh, again
  <2>2. [e EXCEPT !.map = f, !.output = fresh[L], !.next = x]
          = [definition |-> d, binding |-> eff.binding, next |-> x, map |-> f,
             output |-> fresh[L]]
    <3> DEFINE old == MapOf(arena, eff.published)
               e1 == [e EXCEPT !.map = f]
               e2 == [e1 EXCEPT !.output = fresh[L]]
               e3 == [e2 EXCEPT !.next = x]
    <3>1. e = [definition |-> d, binding |-> eff.binding, next |-> eff.next,
               map |-> old, output |-> eff.output]
      BY <1>14
    <3> HIDE DEF e, old
    <3>2. e1 = [definition |-> d, binding |-> eff.binding, next |-> eff.next,
                map |-> f, output |-> eff.output]
      BY <3>1
    <3> HIDE DEF e1
    <3>3. e2 = [definition |-> d, binding |-> eff.binding, next |-> eff.next,
                map |-> f, output |-> fresh[L]]
      BY <3>2
    <3> HIDE DEF e2
    <3>4. e3 = [definition |-> d, binding |-> eff.binding, next |-> x,
                map |-> f, output |-> fresh[L]]
      BY <3>3
    <3> HIDE DEF e3
    <3> QED
      BY <3>4 DEF e3, e2, e1
  <2> QED
    BY <1>13, <1>15, <1>16, <2>1, <2>2
<1>18. Semantics!PublishPass(again)
  <2> HIDE DEF fresh, again
  <2> QED
    BY <1>1, <1>5, <1>9, <1>10, <1>11, <1>12, <1>17 DEF Semantics!PublishPass
<1> QED
  BY <1>8, <1>18

\* The bundle of the next step.
LEMMA OutputMaps ==
    ASSUME IInv, MapInv, phase = "effect", ~HasPass,
           NEW name \in {eff.definition.outputTex3d, eff.definition.outputGeo}, NEW input
    PROVE  BundleOutput(name, input) = Semantics!Selected(name, input)
<1> DEFINE d == eff.definition
           m == Len(d.passes)
<1>1. /\ InEffect /\ MappedOK /\ d \in Catalog /\ m \in Nat /\ eff.next \in 1 .. m + 1
  BY EffectFacts DEF InEffect, MapInv
<1>2. eff.next = m + 1
  <2>1. ~(eff.next <= m)
    BY DEF HasPass
  <2> HIDE DEF m
  <2> QED
    BY <1>1, <2>1
<1>3. CASE PassesThrough(name)
  BY <1>3 DEF BundleOutput, Semantics!Selected, PassesThrough, Semantics!PassesThrough
<1>4. CASE ~PassesThrough(name)
  <2>1. ~Semantics!PassesThrough(name)
    BY <1>4 DEF PassesThrough, Semantics!PassesThrough
  <2>2. name \in Names
    BY <1>1, <1>4, NamesFacts DEF VolumeNames, GeometryNames
  <2>3. Own(d, eff.next, name)
    BY <1>1, <1>2, <1>4, SamplesAssumption
  <2>4. Find(arena, name) = IF name \in DOMAIN AbstractEffect.map THEN AbstractEffect.map[name]
                                                                  ELSE NoResource
    BY <1>1, <2>2, <2>3, OwnRouteMaps
  <2> QED
    BY <1>4, <2>1, <2>4 DEF BundleOutput, Semantics!Selected
<1> QED
  BY <1>3, <1>4

LEMMA EffectEndsMaps ==
    ASSUME IInv, MapInv, EffectEnds
    PROVE  MapInv' /\ (Semantics!Fail \/ Semantics!EndEffect)
<1> DEFINE d == eff.definition
           volume == BundleOutput(d.outputTex3d, eff.volume)
           geometry == BundleOutput(d.outputGeo, eff.geometry)
           f == [image |-> ImageOutput, volume |-> volume, geometry |-> geometry,
                 length |-> Top.length, waiting |-> <<>>]
           fails == \/ RequiresOutputImage(d.domain) /\ ImageOutput = NoResource
                    \/ RequiresOutputVolume(d.domain) /\ volume = NoResource
<1>1. phase = "effect" /\ ~HasPass
  BY DEF EffectEnds
<1>2. CASE fails
  <2>1. Throw
    BY <1>2 DEF EffectEnds
  <2> QED
    BY <1>1, <2>1, ThrowMaps
<1>3. CASE ~fails
  <2>1. /\ SetTop(f) /\ arena' = UnpinInput(arena, eff.input) /\ eff' = IdleEffect
        /\ phase' = "chain"
    BY <1>3 DEF EffectEnds
  <2>2. /\ InEffect /\ MappedOK /\ LocalsOK /\ EffectOK /\ d \in Catalog /\ Tidy(arena)
        /\ eff.input \in Pointers /\ eff.volume \in Pointers /\ eff.geometry \in Pointers
        /\ Balanced(arena, Lent, eff.input)
    BY <1>1, EffectFacts DEF InEffect, MapInv
  <2>3. /\ eff.input = Top.image /\ eff.volume = Top.volume /\ eff.geometry = Top.geometry
        /\ Semantics!Top.image = Top.image /\ Semantics!Top.volume = Top.volume
        /\ Semantics!Top.geometry = Top.geometry
    BY <2>2, MappedStack DEF LocalsOK, Bundle
  <2>4. /\ volume = Semantics!Selected(d.outputTex3d, Semantics!Top.volume)
        /\ geometry = Semantics!Selected(d.outputGeo, Semantics!Top.geometry)
    BY <1>1, <2>3, OutputMaps
  <2>5. ImageOutput \in Pointers /\ volume \in Pointers /\ geometry \in Pointers
    <3>1. ImageOutput \in Pointers
      BY <1>1, ImageOutputSecured
    <3>2. \A n \in Names : Find(arena, n) \in Pointers
      BY <2>2, TidyNames DEF Pointers
    <3>3. /\ PassesThrough(d.outputTex3d) \/ d.outputTex3d \in Names
          /\ PassesThrough(d.outputGeo) \/ d.outputGeo \in Names
      BY <2>2, NamesFacts DEF VolumeNames, GeometryNames
    <3> QED
      BY <2>2, <3>1, <3>2, <3>3 DEF BundleOutput
  <2>6. ImageOutput = IF "outputTex" \in DOMAIN AbstractEffect.map
                      THEN AbstractEffect.map["outputTex"]
                      ELSE IF Semantics!IsVolumeDomain(d.domain) THEN Semantics!Top.image
                      ELSE AbstractEffect.output
    <3>1. /\ DOMAIN AbstractEffect.map = eff.published /\ AbstractEffect.output = eff.output
          /\ \A r \in eff.published : AbstractEffect.map[r] = Find(arena, r)
      BY MappedFields
    <3>2. Semantics!IsVolumeDomain(d.domain) <=> IsVolumeDomain(d.domain)
      BY DEF Semantics!IsVolumeDomain, IsVolumeDomain
    <3> QED
      BY <2>2, <2>3, <3>1, <3>2 DEF ImageOutput, MappedOK
  <2> HIDE DEF volume, geometry
  <2>7. /\ f \in Frame
        /\ Bundle(f) = [image |-> ImageOutput, volume |-> volume, geometry |-> geometry]
    <3>1. Top.length \in Nat /\ <<>> \in Seq(WaitingStep)
      BY RunningFrame
    <3> QED
      BY <2>5, <3>1 DEF Frame, Bundle
  <2> HIDE DEF f
  <2>8. Semantics!SetTop(Bundle(f))
    BY <2>1, <2>7, TopSetMaps
  <2>9. \A n : Find(arena', n) = Find(arena, n)
    <3>1. Balanced(arena, {}, eff.input)
      BY <1>1, <2>2 DEF Lent
    <3>2. arena'.named = arena.named
      BY <2>1, <2>2, <3>1, UnpinInputCorrect
    <3> QED
      BY <3>2 DEF Find
  <2>10. MapInv' /\ AbstractSurfaces' = AbstractSurfaces
    BY <2>1, <2>9, ChainKnows, SurfacesStay
  <2>11. AbstractEffect' = Semantics!Idle
    BY <2>1, MappedState, IdleMaps
  <2>12. (eff.resolved)' = eff.resolved
    <3>1. eff.resolved = <<>>
      BY <1>1, <2>2 DEF LocalsOK
    <3> QED
      BY <2>1, <3>1 DEF IdleEffect
  <2>13. AbstractPhase = "effect" /\ AbstractPhase' = "chain"
    BY <1>1, <2>1 DEF AbstractPhase
  <2>14. AbstractEffect.definition = d /\ ~Semantics!HasPass
    BY <1>1, <2>13, MappedFields DEF HasPass, Semantics!HasPass
  <2> QED
    BY <2>4, <2>6, <2>7, <2>8, <2>10, <2>11, <2>12, <2>13, <2>14 DEF Semantics!EndEffect
<1> QED
  BY <1>2, <1>3

LEMMA StepFailsMaps ==
    ASSUME IInv, MapInv, StepFails
    PROVE  MapInv' /\ Semantics!Fail
BY ThrowMaps DEF StepFails, Ready

LEMMA StutterMaps ==
    ASSUME MapInv, UNCHANGED vars
    PROVE  MapInv' /\ UNCHANGED Semantics!vars
<1>1. arena' = arena /\ frames' = frames /\ eff' = eff /\ phase' = phase
  BY DEF vars
<1>2. MapInv'
  BY <1>1 DEF MapInv, MappedOK, InEffect, ThePass, HasAlias
<1>3. /\ AbstractSurfaces' = AbstractSurfaces /\ AbstractStack' = AbstractStack
      /\ AbstractEffect' = AbstractEffect /\ AbstractPhase' = AbstractPhase
  BY <1>1 DEF AbstractSurfaces, AbstractStack, AbstractEffect, AbstractPhase
<1> QED
  BY <1>1, <1>2, <1>3 DEF Semantics!vars

LEMMA InitMaps == Init => MapInv /\ Semantics!Init
<1> SUFFICES ASSUME Init PROVE MapInv /\ Semantics!Init
  OBVIOUS
<1>1. PICK k \in 0 .. Len(Seeds) : arena = InsertAll(EmptyArena, SubSeq(Seeds, 1, k))
  BY DEF Init
<1>2. frames = <<EmptyFrame>> /\ eff = IdleEffect /\ phase = "chain"
  BY DEF Init
<1> DEFINE s == SubSeq(Seeds, 1, k)
           m == Len(Seeds)
<1>3. /\ s \in Seq(Names) /\ Len(s) <= m /\ m \in Nat /\ m \in Bursts
      /\ \A i \in 1 .. Len(s) : s[i] \in KnownNames
  <2>1. Seeds \in Seq(Names) /\ m \in Nat
    BY NamesFacts
  <2>2. \A i \in 1 .. k : Seeds[i] \in Names
    BY <2>1
  <2>3. /\ s \in Seq(Names) /\ Len(s) = (IF 1 <= k THEN k - 1 + 1 ELSE 0)
        /\ \A i \in 1 .. k - 1 + 1 : s[i] = Seeds[1 + i - 1]
    BY <2>1, <2>2, SubSeqProperties
  <2> HIDE DEF s, m
  <2>4. Len(s) = k
    BY <2>1, <2>3 DEF m
  <2>5. \A i \in 1 .. k : s[i] = Seeds[i]
    BY <2>1, <2>3 DEF m
  <2>6. \A i \in 1 .. k : i \in 1 .. m
    BY <2>1 DEF m
  <2>7. m \in Bursts
    BY DEF Bursts, m
  <2> QED
    BY <2>1, <2>3, <2>4, <2>5, <2>6, <2>7, KnownFacts DEF m
<1>4. /\ Tidy(EmptyArena) /\ EmptyArena.retired = {}
      /\ \A r \in Resources : EmptyArena.pin[r] = 0
      /\ \A n \in Names : Find(EmptyArena, n) = NoResource
  BY EmptyTidy DEF EmptyArena, Find
<1> HIDE DEF s, m
<1>5. /\ Tidy(arena)
      /\ \A n \in Names : (\A i \in 1 .. Len(s) : s[i] # n) => Find(arena, n) = Find(EmptyArena, n)
      /\ \A i, j \in 1 .. Len(s) : Find(arena, s[i]) = Find(arena, s[j]) => s[i] = s[j]
  <2>1. OnePinned(EmptyArena)
    BY <1>4 DEF OnePinned
  <2>2. Published(InsertAll(EmptyArena, s), EmptyArena, s)
    BY <1>3, <1>4, <2>1, PublishCorrect
  <2>3. Published(arena, EmptyArena, s)
    BY <1>1, <2>2 DEF s
  <2> QED
    BY <2>3 DEF Published
<1>6. \A n \in Names : Find(arena, n) # NoResource => \E i \in 1 .. Len(s) : s[i] = n
  <2> SUFFICES ASSUME NEW n \in Names, \A i \in 1 .. Len(s) : s[i] # n
               PROVE  Find(arena, n) = NoResource
    OBVIOUS
  <2> QED
    BY <1>4, <1>5
<1>7. MapInv
  BY <1>2, <1>3, <1>6 DEF MapInv, InEffect
<1>8. Surfaces \subseteq Names /\ \A n \in Names : Find(arena, n) \in Resources \cup {NoResource}
  BY <1>5, TidyNames, NamesFacts DEF Pointers
<1>9. /\ AbstractSurfaces \in [Surfaces -> Resources \cup {NoResource}]
      /\ \A a, b \in Surfaces :
            AbstractSurfaces[a] = AbstractSurfaces[b] => a = b \/ AbstractSurfaces[a] = NoResource
  <2>1. \A a \in Surfaces : a \in Names /\ AbstractSurfaces[a] = Find(arena, a)
    BY <1>8 DEF AbstractSurfaces
  <2>2. \A a, b \in Names : Find(arena, a) = Find(arena, b) /\ Find(arena, a) # NoResource => a = b
    BY <1>5, <1>6
  <2>3. AbstractSurfaces \in [Surfaces -> Resources \cup {NoResource}]
    BY <1>8 DEF AbstractSurfaces
  <2> QED
    BY <2>1, <2>2, <2>3
<1>10. /\ AbstractStack = <<Semantics!EmptyBundle>> /\ AbstractEffect = Semantics!Idle
       /\ AbstractPhase = "chain" /\ eff.resolved = <<>>
  <2>1. AbstractPhase = "chain" /\ eff.resolved = <<>>
    BY <1>2 DEF AbstractPhase, IdleEffect
  <2> QED
    BY <1>2, <2>1, MappedState, BundlesOfOne, IdleMaps
<1> QED
  BY <1>7, <1>9, <1>10 DEF Semantics!Init

\* Every step is a step of the semantics, or changes nothing it can see.
LEMMA NextMaps ==
    ASSUME IInv, MapInv, [Next]_vars
    PROVE  MapInv' /\ [Semantics!Next]_Semantics!vars
<1> DEFINE Goal == MapInv' /\ (Semantics!Next \/ UNCHANGED Semantics!vars)
<1>1. CASE NextChain
  BY <1>1, NextChainMaps DEF Semantics!Next
<1>2. CASE ChooseStep
  <2>1. ASSUME NEW d \in Catalog, NEW chosen \in BindingsOf(d),
               NEW order \in Orders({p \in DOMAIN chosen : chosen[p] = "argument"}),
               StepArrives(d, chosen, order)
        PROVE  MapInv' /\ (Semantics!EnterArgument \/ UNCHANGED Semantics!vars)
    BY <2>1, StepArrivesMaps
  <2>2. MapInv' /\ (Semantics!EnterArgument \/ UNCHANGED Semantics!vars)
    BY <1>2, <2>1 DEF ChooseStep
  <2> QED
    BY <2>2 DEF Semantics!Next
<1>3. CASE ArgumentEnds
  <2>1. MapInv' /\ (Semantics!Fail \/ \E s \in Surfaces, more \in BOOLEAN :
                                          Semantics!LeaveArgument(s, more))
    BY <1>3, ArgumentEndsMaps
  <2> QED
    BY <2>1 DEF Semantics!Next
<1>4. CASE IteratedGroupStep
  <2>1. MapInv' /\ Semantics!IteratedGroup
    BY <1>4, IteratedGroupMaps DEF IteratedGroupStep
  <2> QED
    BY <2>1 DEF Semantics!Next
<1>5. ASSUME NEW s \in ChainSurfaces, ReadStep(s) \/ WriteStep(s) \/ Finish(s) PROVE Goal
  <2>1. s \in Surfaces
    BY NamesAssumption
  <2>2. /\ MapInv'
        /\ Semantics!Fail \/ Semantics!Read(s) \/ Semantics!Write(s) \/ Semantics!Finish(s)
    BY <1>5, ReadStepMaps, WriteStepMaps, FinishMaps
  <2> QED
    BY <2>1, <2>2 DEF Semantics!Next
<1>6. ASSUME NEW v \in Volumes, NEW g \in Geometries, Read3DStep(v, g) PROVE Goal
  <2>1. v \in Surfaces /\ g \in Surfaces
    BY NamesAssumption
  <2>2. MapInv' /\ (Semantics!Fail \/ Semantics!Read3D(v, g))
    BY <1>6, Read3DStepMaps
  <2> QED
    BY <2>1, <2>2 DEF Semantics!Next
<1>7. ASSUME NEW v \in Volumes \cup {NoRoute}, NEW g \in Geometries \cup {NoRoute},
             Write3DStep(v, g)
      PROVE  Goal
  <2>1. v \in Surfaces \cup {NoRoute} /\ g \in Surfaces \cup {NoRoute}
    BY NamesAssumption
  <2>2. MapInv' /\ Semantics!Write3D(v, g)
    BY <1>7, Write3DStepMaps
  <2> QED
    BY <2>1, <2>2 DEF Semantics!Next
<1>8. CASE EffectBegins
  <2>1. /\ MapInv'
        /\ \E d \in Catalog \ {Semantics!NoEffect} : \E binding \in Semantics!Bindings(d) :
              Semantics!BeginEffect(d, binding)
    BY <1>8, EffectBeginsMaps
  <2> QED
    BY <2>1 DEF Semantics!Next
<1>9. CASE PassBegins
  <2>1. MapInv' /\ (Semantics!SkipPass \/ UNCHANGED Semantics!vars)
    BY <1>9, PassBeginsMaps
  <2> QED
    BY <2>1 DEF Semantics!Next
<1>10. CASE SamplersBound
  <2>1. MapInv' /\ (Semantics!Fail \/ Semantics!BindPass)
    BY <1>10, SamplersBoundMaps
  <2> QED
    BY <2>1 DEF Semantics!Next
<1>11. CASE PassPublishes
  <2>1. MapInv' /\ \E again \in BOOLEAN : Semantics!PublishPass(again)
    BY <1>11, PassPublishesMaps
  <2> QED
    BY <2>1 DEF Semantics!Next
<1>12. CASE EffectEnds
  <2>1. MapInv' /\ (Semantics!Fail \/ Semantics!EndEffect)
    BY <1>12, EffectEndsMaps
  <2> QED
    BY <2>1 DEF Semantics!Next
<1>13. CASE StepFails
  <2>1. MapInv' /\ Semantics!Fail
    BY <1>13, StepFailsMaps
  <2> QED
    BY <2>1 DEF Semantics!Next
<1>14. CASE UNCHANGED vars
  BY <1>14, StutterMaps
<1>15. CASE Ended
  BY <1>14, <1>15 DEF Ended
<1> QED
  BY <1>1, <1>2, <1>3, <1>4, <1>5, <1>6, <1>7, <1>8, <1>9, <1>10, <1>11, <1>12, <1>13,
     <1>14, <1>15 DEF Next

\* The execution over one shared arena implements the value semantics of
\* ChainSemantics: every pass samples, and every step hands on, the surfaces
\* that the chain, its arguments and the effect's own map give, for every
\* catalog, program and plan within the assumptions.
THEOREM ImplementsSemantics == Spec => ImplementsValueSemantics
<1>1. Init => IInv /\ MapInv /\ Semantics!Init
  BY SeedsKeep, InitMaps
<1>2. IInv /\ MapInv /\ [Next]_vars => IInv' /\ MapInv' /\ [Semantics!Next]_Semantics!vars
  BY NextKeeps, NextMaps
<1> QED
  BY <1>1, <1>2, PTL DEF Spec, Semantics!Spec, ImplementsValueSemantics
=============================================================================
