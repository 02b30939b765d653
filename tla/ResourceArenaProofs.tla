------------------------ MODULE ResourceArenaProofs ------------------------
(***************************************************************************)
(* The arena's methods preserve WellFormed, for any sets of pointees and   *)
(* names and any width of the counters; hence type correctness, exact      *)
(* reclamation and the finality of retirement of every behaviour.          *)
(***************************************************************************)
EXTENDS ResourceArena, TLAPS

\* WellFormed but for r, which may have just lost its last reference.
WellFormedBut(a, r) ==
    /\ \A q \in Resources \ a.owned :
          a.borrow[q] = 0 /\ a.pin[q] = 0 /\ q \notin a.retired
    /\ \A n \in Names : a.named[n] # NoResource =>
          a.named[n] \in a.owned \ a.retired
    /\ \A q \in a.owned \ {r} :
          IsReferenced(a, q) \/ (q \in a.retired /\ a.borrow[q] # 0)

-----------------------------------------------------------------------------

\* collect_retired on a pointee that is retired and unreferenced restores the
\* invariant: it frees the pointee, or a binding still holds it.
LEMMA CollectRetiredCorrect ==
    ASSUME NEW a \in Arena, NEW r \in Resources, WellFormedBut(a, r),
           r \in a.owned => r \in a.retired \/ IsReferenced(a, r)
    PROVE  CollectRetired(a, r) \in Arena /\ WellFormed(CollectRetired(a, r))
<1> DEFINE b == CollectRetired(a, r)
<1>1. CASE r \in a.owned /\ r \in a.retired /\ ~IsHeld(a, r)
  <2>1. b = [a EXCEPT !.owned = @ \ {r}, !.retired = @ \ {r}]
    BY <1>1 DEF CollectRetired
  <2>2. /\ b.owned = a.owned \ {r} /\ b.retired = a.retired \ {r}
        /\ b.named = a.named /\ b.borrow = a.borrow /\ b.pin = a.pin
        /\ b \in Arena
    BY <2>1 DEF Arena
  <2>3. \A n \in Names : a.named[n] # r
    BY <1>1 DEF IsHeld, IsReferenced, HasAlias
  <2>4. a.borrow[r] = 0 /\ a.pin[r] = 0
    BY <1>1 DEF IsHeld, IsReferenced
  <2> QED
    BY <2>2, <2>3, <2>4 DEF WellFormed, WellFormedBut, IsReferenced, HasAlias
<1>2. CASE ~(r \in a.owned /\ r \in a.retired /\ ~IsHeld(a, r))
  <2>1. b = a
    BY <1>2 DEF CollectRetired
  <2>2. r \in a.owned => IsReferenced(a, r) \/ (r \in a.retired /\ a.borrow[r] # 0)
    BY <1>2 DEF IsHeld
  <2> QED
    BY <2>1, <2>2 DEF WellFormed, WellFormedBut
<1> QED
  BY <1>1, <1>2

\* The shared tail of insert, alias and remove_alias.
LEMMA DropIfUnreferencedCorrect ==
    ASSUME NEW a \in Arena, NEW r \in Resources \cup {NoResource}, WellFormedBut(a, r),
           r # NoResource => r \in a.owned
    PROVE  /\ DropIfUnreferenced(a, r) \in Arena
           /\ WellFormed(DropIfUnreferenced(a, r))
<1>1. CASE r = NoResource \/ IsReferenced(a, r)
  <2>1. DropIfUnreferenced(a, r) = a
    BY <1>1 DEF DropIfUnreferenced
  <2>2. NoResource \notin a.owned
    BY NoResourceAssumption DEF Arena
  <2> QED
    BY <1>1, <2>1, <2>2 DEF WellFormed, WellFormedBut
<1>2. CASE r # NoResource /\ ~IsReferenced(a, r)
  <2> DEFINE b == [a EXCEPT !.retired = @ \cup {r}]
  <2>1. DropIfUnreferenced(a, r) = CollectRetired(b, r)
    BY <1>2 DEF DropIfUnreferenced
  <2>2. r \in Resources /\ r \in a.owned
    BY <1>2
  <2>3. /\ b.owned = a.owned /\ b.retired = a.retired \cup {r}
        /\ b.named = a.named /\ b.borrow = a.borrow /\ b.pin = a.pin
        /\ b \in Arena
    BY <2>2 DEF Arena
  <2>4. \A n \in Names : a.named[n] # r
    BY <1>2 DEF IsReferenced, HasAlias
  <2>5. WellFormedBut(b, r)
    BY <2>2, <2>3, <2>4 DEF WellFormedBut, IsReferenced, HasAlias
  <2> QED
    BY <2>1, <2>2, <2>3, <2>5, CollectRetiredCorrect
<1> QED
  BY <1>1, <1>2

-----------------------------------------------------------------------------

\* insert publishes a fresh pointee and drops the one it supersedes.
LEMMA InsertCorrect ==
    ASSUME NEW a \in Arena, NEW n \in Names, NEW r, WellFormed(a), CanInsert(a, r)
    PROVE  Insert(a, n, r) \in Arena /\ WellFormed(Insert(a, n, r))
<1> DEFINE previous == Find(a, n)
           b == [PushBack(a, r) EXCEPT !.named[n] = r]
<1>1. r \in Resources /\ r \notin a.owned
  BY DEF CanInsert
<1>2. /\ b.owned = a.owned \cup {r} /\ b.retired = a.retired
      /\ b.named = [a.named EXCEPT ![n] = r]
      /\ b.borrow = a.borrow /\ b.pin = a.pin
      /\ b \in Arena
  BY <1>1 DEF Arena, PushBack
<1>3. previous \in Resources \cup {NoResource}
  BY DEF Arena, Find
<1>4. previous # NoResource => previous \in a.owned
  BY DEF Find, WellFormed
<1>5. r # NoResource
  BY <1>1, NoResourceAssumption
<1>6. WellFormedBut(b, previous)
  <2>1. \A q \in Resources \ b.owned :
          b.borrow[q] = 0 /\ b.pin[q] = 0 /\ q \notin b.retired
    BY <1>2 DEF WellFormed
  <2>2. \A m \in Names : b.named[m] # NoResource => b.named[m] \in b.owned \ b.retired
    BY <1>1, <1>2 DEF WellFormed, Arena
  <2>3. ASSUME NEW q \in b.owned, q # previous
        PROVE  IsReferenced(b, q) \/ (q \in b.retired /\ b.borrow[q] # 0)
    <3>1. CASE q = r
      BY <3>1, <1>2 DEF IsReferenced, HasAlias, Arena
    <3>2. CASE q \in a.owned
      <4>1. HasAlias(a, q) => HasAlias(b, q)
        BY <1>2, <2>3 DEF HasAlias, Find, Arena
      <4> QED
        BY <1>2, <3>2, <4>1 DEF IsReferenced, WellFormed
    <3> QED
      BY <1>2, <2>3, <3>1, <3>2
  <2> QED
    BY <2>1, <2>2, <2>3 DEF WellFormedBut
<1>7. Insert(a, n, r) = DropIfUnreferenced(b, previous)
  BY DEF Insert
<1> QED
  <2>1. previous # NoResource => previous \in b.owned
    BY <1>2, <1>4
  <2> QED
    BY <1>2, <1>3, <1>6, <1>7, <2>1, DropIfUnreferencedCorrect

\* insert that throws leaves no trace of the pointee it had pushed.
LEMMA InsertRolledBackCorrect ==
    ASSUME NEW a \in Arena, NEW r, WellFormed(a), CanInsert(a, r)
    PROVE  InsertRolledBack(a, r) = a
BY DEF InsertRolledBack, PushBack, PopBack, CanInsert, Arena

\* alias moves a name to an owned, bindable pointee.
LEMMA AliasCorrect ==
    ASSUME NEW a \in Arena, NEW n \in Names, NEW r, WellFormed(a), CanAlias(a, r)
    PROVE  Alias(a, n, r) \in Arena /\ WellFormed(Alias(a, n, r))
<1> DEFINE previous == Find(a, n)
           b == [a EXCEPT !.named[n] = r]
<1>1. r \in a.owned /\ r \notin a.retired /\ r \in Resources
  BY DEF CanAlias, Arena
<1>2. /\ b.owned = a.owned /\ b.retired = a.retired
      /\ b.named = [a.named EXCEPT ![n] = r]
      /\ b.borrow = a.borrow /\ b.pin = a.pin
      /\ b \in Arena
  BY <1>1 DEF Arena
<1>3. previous \in Resources \cup {NoResource}
  BY DEF Arena, Find
<1>4. previous # NoResource => previous \in a.owned
  BY DEF Find, WellFormed
<1>5. ASSUME NEW q \in b.owned, q = r \/ q # previous
      PROVE  IsReferenced(b, q) \/ (q \in b.retired /\ b.borrow[q] # 0)
  <2>1. HasAlias(a, q) => HasAlias(b, q)
    BY <1>2, <1>5 DEF HasAlias, Find, Arena
  <2> QED
    BY <1>2, <2>1 DEF IsReferenced, WellFormed
<1>6. \A m \in Names : b.named[m] # NoResource => b.named[m] \in b.owned \ b.retired
  BY <1>1, <1>2 DEF WellFormed, Arena
<1>7. WellFormedBut(b, previous)
  BY <1>2, <1>5, <1>6 DEF WellFormedBut, WellFormed
<1>8. CASE previous = r
  <2>1. Alias(a, n, r) = b
    BY <1>8 DEF Alias
  <2>2. WellFormed(b)
    BY <1>2, <1>5, <1>6, <1>8 DEF WellFormed
  <2> QED
    BY <1>2, <2>1, <2>2
<1>9. CASE previous # r
  <2>1. Alias(a, n, r) = DropIfUnreferenced(b, previous)
    BY <1>9 DEF Alias
  <2> QED
    BY <1>2, <1>3, <1>4, <1>7, <2>1, DropIfUnreferencedCorrect
<1> QED
  BY <1>8, <1>9

\* remove_alias drops a name, and the pointee with its last one.
LEMMA RemoveAliasCorrect ==
    ASSUME NEW a \in Arena, NEW n \in Names, WellFormed(a), Find(a, n) # NoResource
    PROVE  RemoveAlias(a, n) \in Arena /\ WellFormed(RemoveAlias(a, n))
<1> DEFINE previous == Find(a, n)
           b == [a EXCEPT !.named[n] = NoResource]
<1>1. /\ b.owned = a.owned /\ b.retired = a.retired
      /\ b.named = [a.named EXCEPT ![n] = NoResource]
      /\ b.borrow = a.borrow /\ b.pin = a.pin
      /\ b \in Arena
  BY DEF Arena
<1>2. previous \in Resources /\ previous \in b.owned
  BY <1>1 DEF Arena, Find, WellFormed
<1>3. ASSUME NEW q \in b.owned, q # previous
      PROVE  IsReferenced(b, q) \/ (q \in b.retired /\ b.borrow[q] # 0)
  <2>1. HasAlias(a, q) => HasAlias(b, q)
    BY <1>1, <1>3 DEF HasAlias, Find, Arena
  <2> QED
    BY <1>1, <2>1 DEF IsReferenced, WellFormed
<1>4. WellFormedBut(b, previous)
  BY <1>1, <1>3 DEF WellFormedBut, WellFormed, Arena
<1> QED
  BY <1>1, <1>2, <1>4, DropIfUnreferencedCorrect DEF RemoveAlias

-----------------------------------------------------------------------------

\* retain and pin take a holder; the pointee was bindable.
LEMMA RetainCorrect ==
    ASSUME NEW a \in Arena, NEW r, WellFormed(a), CanRetain(a, r)
    PROVE  Retain(a, r) \in Arena /\ WellFormed(Retain(a, r))
<1>1. r \in Resources /\ r \in a.owned /\ r \notin a.retired
  BY DEF CanRetain, Arena
<1>2. a.borrow[r] + 1 \in 1 .. MaxCount
  BY <1>1, MaxCountAssumption DEF CanRetain, Arena
<1>3. Retain(a, r) \in Arena
  BY <1>1, <1>2 DEF Retain, Arena
<1> QED
  BY <1>1, <1>2, <1>3 DEF Retain, WellFormed, IsReferenced, HasAlias, Arena

LEMMA PinCorrect ==
    ASSUME NEW a \in Arena, NEW r, WellFormed(a), CanPin(a, r)
    PROVE  Pin(a, r) \in Arena /\ WellFormed(Pin(a, r))
<1>1. r \in Resources /\ r \in a.owned /\ r \notin a.retired
  BY DEF CanPin, Arena
<1>2. a.pin[r] + 1 \in 1 .. MaxCount
  BY <1>1, MaxCountAssumption DEF CanPin, Arena
<1>3. Pin(a, r) \in Arena
  BY <1>1, <1>2 DEF Pin, Arena
<1> QED
  BY <1>1, <1>2, <1>3 DEF Pin, WellFormed, IsReferenced, HasAlias, Arena

\* release gives a binding back; the last one collects what was retired.
LEMMA ReleaseCorrect ==
    ASSUME NEW a \in Arena, NEW r, WellFormed(a), CanRelease(a, r)
    PROVE  Release(a, r) \in Arena /\ WellFormed(Release(a, r))
<1> DEFINE b == [a EXCEPT !.borrow[r] = @ - 1]
<1>1. r \in Resources /\ r \in a.owned
  BY DEF CanRelease, Arena
<1>2. a.borrow[r] - 1 \in 0 .. MaxCount
  BY <1>1, MaxCountAssumption DEF CanRelease, Arena
<1>3. /\ b.owned = a.owned /\ b.retired = a.retired /\ b.named = a.named
      /\ b.borrow = [a.borrow EXCEPT ![r] = a.borrow[r] - 1] /\ b.pin = a.pin
      /\ b \in Arena
  BY <1>1, <1>2 DEF Arena
<1>4. WellFormedBut(b, r)
  BY <1>1, <1>3 DEF WellFormedBut, WellFormed, IsReferenced, HasAlias, Arena
<1>5. r \in b.retired \/ IsReferenced(b, r)
  BY <1>1, <1>3 DEF WellFormed, IsReferenced, HasAlias
<1> QED
  BY <1>1, <1>3, <1>4, <1>5, CollectRetiredCorrect DEF Release

\* unpin retires and collects exactly as the removal of the last name does.
LEMMA UnpinCorrect ==
    ASSUME NEW a \in Arena, NEW r, WellFormed(a), CanUnpin(a, r)
    PROVE  Unpin(a, r) \in Arena /\ WellFormed(Unpin(a, r))
<1> DEFINE b == [a EXCEPT !.pin[r] = @ - 1]
           c == IF IsReferenced(b, r) THEN b ELSE [b EXCEPT !.retired = @ \cup {r}]
<1>1. r \in Resources /\ r \in a.owned
  BY DEF CanUnpin, Arena
<1>2. a.pin[r] - 1 \in 0 .. MaxCount
  BY <1>1, MaxCountAssumption DEF CanUnpin, Arena
<1>3. /\ b.owned = a.owned /\ b.retired = a.retired /\ b.named = a.named
      /\ b.pin = [a.pin EXCEPT ![r] = a.pin[r] - 1] /\ b.borrow = a.borrow
      /\ b \in Arena
  BY <1>1, <1>2 DEF Arena
<1>4. WellFormedBut(b, r)
  BY <1>1, <1>3 DEF WellFormedBut, WellFormed, IsReferenced, HasAlias, Arena
<1>5. Unpin(a, r) = CollectRetired(c, r)
  BY DEF Unpin
<1>6. CASE IsReferenced(b, r)
  BY <1>1, <1>3, <1>4, <1>5, <1>6, CollectRetiredCorrect
<1>7. CASE ~IsReferenced(b, r)
  <2>1. /\ c.owned = b.owned /\ c.retired = b.retired \cup {r} /\ c.named = b.named
        /\ c.borrow = b.borrow /\ c.pin = b.pin
        /\ c \in Arena
    BY <1>1, <1>3, <1>7 DEF Arena
  <2>2. WellFormedBut(c, r)
    BY <1>1, <1>3, <1>4, <1>7, <2>1 DEF WellFormedBut, IsReferenced, HasAlias
  <2> QED
    BY <1>1, <1>5, <2>1, <2>2, CollectRetiredCorrect
<1> QED
  BY <1>6, <1>7

\* retire erases every name; a pin or a binding still delays the collection.
LEMMA RetireCorrect ==
    ASSUME NEW a \in Arena, NEW r, WellFormed(a), r \in a.owned
    PROVE  Retire(a, r) \in Arena /\ WellFormed(Retire(a, r))
<1> DEFINE b == [a EXCEPT !.retired = @ \cup {r},
                          !.named = [n \in Names |-> IF @[n] = r THEN NoResource ELSE @[n]]]
<1>1. r \in Resources /\ r # NoResource
  BY NoResourceAssumption DEF Arena
<1>2. /\ b.owned = a.owned /\ b.retired = a.retired \cup {r}
      /\ b.named = [n \in Names |-> IF a.named[n] = r THEN NoResource ELSE a.named[n]]
      /\ b.borrow = a.borrow /\ b.pin = a.pin
      /\ b \in Arena
  BY <1>1 DEF Arena
<1>3. ASSUME NEW q \in b.owned, q # r
      PROVE  IsReferenced(b, q) \/ (q \in b.retired /\ b.borrow[q] # 0)
  <2>1. HasAlias(a, q) => HasAlias(b, q)
    BY <1>2, <1>3 DEF HasAlias
  <2> QED
    BY <1>2, <2>1 DEF IsReferenced, WellFormed
<1>4. WellFormedBut(b, r)
  BY <1>2, <1>3 DEF WellFormedBut, WellFormed, Arena
<1> QED
  BY <1>1, <1>2, <1>4, CollectRetiredCorrect DEF Retire
-----------------------------------------------------------------------------

Inv == TypeOK /\ ArenaWellFormed

LEMMA InitInv == Init => Inv
<1> SUFFICES ASSUME Init PROVE Inv
  OBVIOUS
<1>1. EmptyArena \in Arena
  BY MaxCountAssumption DEF EmptyArena, Arena
<1>2. WellFormed(EmptyArena)
  BY DEF EmptyArena, WellFormed
<1> QED
  BY <1>1, <1>2 DEF Init, Inv, TypeOK, ArenaWellFormed

LEMMA StepInv == Inv /\ [Next]_vars => Inv'
<1> SUFFICES ASSUME Inv, [Next]_vars PROVE Inv'
  OBVIOUS
<1> USE DEF Inv, TypeOK, ArenaWellFormed
<1>1. ASSUME NEW n \in Names, NEW r \in Resources, InsertStep(n, r) PROVE Inv'
  BY <1>1, InsertCorrect DEF InsertStep
<1>2. ASSUME NEW n \in Names, NEW r \in Resources, AliasStep(n, r) PROVE Inv'
  BY <1>2, AliasCorrect DEF AliasStep
<1>3. ASSUME NEW n \in Names, RemoveAliasStep(n) PROVE Inv'
  BY <1>3, RemoveAliasCorrect DEF RemoveAliasStep
<1>4. ASSUME NEW r \in Resources, InsertThrows(r) PROVE Inv'
  BY <1>4, InsertRolledBackCorrect DEF InsertThrows
<1>5. ASSUME NEW r \in Resources, RetireStep(r) PROVE Inv'
  BY <1>5, RetireCorrect DEF RetireStep
<1>6. ASSUME NEW r \in Resources, RetainStep(r) PROVE Inv'
  BY <1>6, RetainCorrect DEF RetainStep
<1>7. ASSUME NEW r \in Resources, ReleaseStep(r) PROVE Inv'
  BY <1>7, ReleaseCorrect DEF ReleaseStep
<1>8. ASSUME NEW r \in Resources, PinStep(r) PROVE Inv'
  BY <1>8, PinCorrect DEF PinStep
<1>9. ASSUME NEW r \in Resources, UnpinStep(r) PROVE Inv'
  BY <1>9, UnpinCorrect DEF UnpinStep
<1>10. CASE UNCHANGED vars
  BY <1>10 DEF vars
<1> QED
  BY <1>1, <1>2, <1>3, <1>4, <1>5, <1>6, <1>7, <1>8, <1>9, <1>10 DEF Next

\* The arena is well-formed after any sequence of calls, for any sets of
\* pointees and names and any counter width.
THEOREM WellFormedness == Spec => []ArenaWellFormed
<1>1. Inv => ArenaWellFormed
  BY DEF Inv
<1> QED
  BY <1>1, InitInv, StepInv, PTL DEF Spec

\* Every component of the arena keeps its type.
THEOREM TypeCorrectness == Spec => []TypeOK
<1>1. Inv => TypeOK
  BY DEF Inv
<1> QED
  BY <1>1, InitInv, StepInv, PTL DEF Spec

\* Nothing is freed while a name, a pin or a binding holds it, and nothing is
\* kept once none does.
THEOREM ExactReclamation == Spec => []OwnedExactlyWhileHeld
<1>1. Inv => OwnedExactlyWhileHeld
  <2> SUFFICES ASSUME Inv PROVE OwnedExactlyWhileHeld
    OBVIOUS
  <2>1. ASSUME NEW r \in arena.owned PROVE r \in Resources /\ IsHeld(arena, r)
    BY DEF Inv, TypeOK, Arena, ArenaWellFormed, WellFormed, IsHeld
  <2>2. ASSUME NEW r \in Resources, IsHeld(arena, r) PROVE r \in arena.owned
    BY <2>2, NoResourceAssumption
       DEF Inv, ArenaWellFormed, WellFormed, IsHeld, IsReferenced, HasAlias
  <2> QED
    BY <2>1, <2>2 DEF OwnedExactlyWhileHeld
<1> QED
  BY <1>1, InitInv, StepInv, PTL DEF Spec

-----------------------------------------------------------------------------

\* What a retired pointee may still undergo: lose holders, or be freed.
OnlyWanes(a, b, q) ==
    q \in b.owned => /\ q \in b.retired
                     /\ ~HasAlias(b, q)
                     /\ b.borrow[q] <= a.borrow[q]
                     /\ b.pin[q] <= a.pin[q]

\* No tail of a method can do more to it than free it.
LEMMA WanesUnderCollect ==
    ASSUME NEW a, NEW b, NEW q, OnlyWanes(a, b, q), NEW s
    PROVE  OnlyWanes(a, CollectRetired(b, s), q)
BY DEF OnlyWanes, CollectRetired, HasAlias

LEMMA WanesUnderDrop ==
    ASSUME NEW a, NEW b, NEW q, OnlyWanes(a, b, q), NEW s
    PROVE  OnlyWanes(a, DropIfUnreferenced(b, s), q)
BY DEF OnlyWanes, DropIfUnreferenced, CollectRetired, HasAlias

LEMMA RetiredOnlyWanes ==
    ASSUME Inv, [Next]_vars, NEW q \in arena.retired
    PROVE  OnlyWanes(arena, arena', q)
<1> USE DEF Inv, TypeOK, ArenaWellFormed
<1>1. q \in arena.owned /\ q \in Resources /\ q # NoResource
  BY NoResourceAssumption DEF Arena, WellFormed
<1>2. ~HasAlias(arena, q)
  BY <1>1 DEF WellFormed, HasAlias
<1>3. arena.borrow[q] \in Nat /\ arena.pin[q] \in Nat
  BY <1>1, MaxCountAssumption DEF Arena
<1>4. ASSUME NEW n \in Names, NEW r \in Resources, InsertStep(n, r)
      PROVE  OnlyWanes(arena, arena', q)
  <2> DEFINE b == [PushBack(arena, r) EXCEPT !.named[n] = r]
  <2>1. r # q
    BY <1>1, <1>4 DEF InsertStep, CanInsert
  <2>2. /\ b.retired = arena.retired /\ b.borrow = arena.borrow /\ b.pin = arena.pin
        /\ b.named = [arena.named EXCEPT ![n] = r]
    BY DEF PushBack, Arena
  <2>3. OnlyWanes(arena, b, q)
    BY <1>2, <1>3, <2>1, <2>2 DEF OnlyWanes, HasAlias, Arena
  <2>4. arena' = DropIfUnreferenced(b, Find(arena, n))
    BY <1>4 DEF InsertStep, Insert
  <2> QED
    BY <2>3, <2>4, WanesUnderDrop
<1>5. ASSUME NEW n \in Names, NEW r \in Resources, AliasStep(n, r)
      PROVE  OnlyWanes(arena, arena', q)
  <2> DEFINE b == [arena EXCEPT !.named[n] = r]
  <2>1. r # q
    BY <1>5 DEF AliasStep, CanAlias
  <2>2. /\ b.retired = arena.retired /\ b.borrow = arena.borrow /\ b.pin = arena.pin
        /\ b.named = [arena.named EXCEPT ![n] = r]
    BY DEF Arena
  <2>3. OnlyWanes(arena, b, q)
    BY <1>2, <1>3, <2>1, <2>2 DEF OnlyWanes, HasAlias, Arena
  <2>4. arena' = b \/ arena' = DropIfUnreferenced(b, Find(arena, n))
    BY <1>5 DEF AliasStep, Alias
  <2> QED
    BY <2>3, <2>4, WanesUnderDrop
<1>6. ASSUME NEW n \in Names, RemoveAliasStep(n)
      PROVE  OnlyWanes(arena, arena', q)
  <2> DEFINE b == [arena EXCEPT !.named[n] = NoResource]
  <2>1. /\ b.retired = arena.retired /\ b.borrow = arena.borrow /\ b.pin = arena.pin
        /\ b.named = [arena.named EXCEPT ![n] = NoResource]
    BY DEF Arena
  <2>2. OnlyWanes(arena, b, q)
    BY <1>1, <1>2, <1>3, <2>1 DEF OnlyWanes, HasAlias, Arena
  <2>3. arena' = DropIfUnreferenced(b, Find(arena, n))
    BY <1>6 DEF RemoveAliasStep, RemoveAlias
  <2> QED
    BY <2>2, <2>3, WanesUnderDrop
<1>7. ASSUME NEW r \in Resources, InsertThrows(r) PROVE OnlyWanes(arena, arena', q)
  <2>1. arena' = arena
    BY <1>7, InsertRolledBackCorrect DEF InsertThrows
  <2> QED
    BY <1>2, <1>3, <2>1 DEF OnlyWanes
<1>8. ASSUME NEW r \in Resources, RetireStep(r) PROVE OnlyWanes(arena, arena', q)
  <2> DEFINE b == [arena EXCEPT !.retired = @ \cup {r},
                     !.named = [n \in Names |-> IF @[n] = r THEN NoResource ELSE @[n]]]
  <2>1. /\ b.retired = arena.retired \cup {r}
        /\ b.borrow = arena.borrow /\ b.pin = arena.pin
        /\ b.named = [n \in Names |-> IF arena.named[n] = r THEN NoResource
                                                           ELSE arena.named[n]]
    BY DEF Arena
  <2>2. OnlyWanes(arena, b, q)
    BY <1>1, <1>2, <1>3, <2>1 DEF OnlyWanes, HasAlias, Arena
  <2>3. arena' = CollectRetired(b, r)
    BY <1>8 DEF RetireStep, Retire
  <2> QED
    BY <2>2, <2>3, WanesUnderCollect
<1>9. ASSUME NEW r \in Resources, RetainStep(r) PROVE OnlyWanes(arena, arena', q)
  BY <1>2, <1>3, <1>9 DEF RetainStep, Retain, CanRetain, OnlyWanes, HasAlias, Arena
<1>10. ASSUME NEW r \in Resources, ReleaseStep(r) PROVE OnlyWanes(arena, arena', q)
  <2> DEFINE b == [arena EXCEPT !.borrow[r] = @ - 1]
  <2>1. /\ b.retired = arena.retired /\ b.named = arena.named /\ b.pin = arena.pin
        /\ b.borrow = [arena.borrow EXCEPT ![r] = arena.borrow[r] - 1]
    BY DEF Arena
  <2>2. OnlyWanes(arena, b, q)
    BY <1>2, <1>3, <2>1 DEF OnlyWanes, HasAlias, Arena
  <2>3. arena' = CollectRetired(b, r)
    BY <1>10 DEF ReleaseStep, Release
  <2> QED
    BY <2>2, <2>3, WanesUnderCollect
<1>11. ASSUME NEW r \in Resources, PinStep(r) PROVE OnlyWanes(arena, arena', q)
  BY <1>2, <1>3, <1>11 DEF PinStep, Pin, CanPin, OnlyWanes, HasAlias, Arena
<1>12. ASSUME NEW r \in Resources, UnpinStep(r) PROVE OnlyWanes(arena, arena', q)
  <2> DEFINE b == [arena EXCEPT !.pin[r] = @ - 1]
             c == IF IsReferenced(b, r) THEN b ELSE [b EXCEPT !.retired = @ \cup {r}]
  <2>1. /\ b.retired = arena.retired /\ b.named = arena.named
        /\ b.borrow = arena.borrow
        /\ b.pin = [arena.pin EXCEPT ![r] = arena.pin[r] - 1]
        /\ b.owned = arena.owned /\ b \in [owned : {b.owned}, named : {b.named},
              borrow : {b.borrow}, pin : {b.pin}, retired : {b.retired}]
    BY DEF Arena
  <2>2. /\ c.named = b.named /\ c.borrow = b.borrow /\ c.pin = b.pin
        /\ b.retired \subseteq c.retired
    BY <2>1
  <2>3. OnlyWanes(arena, c, q)
    BY <1>2, <1>3, <2>1, <2>2 DEF OnlyWanes, HasAlias, Arena
  <2>4. arena' = CollectRetired(c, r)
    BY <1>12 DEF UnpinStep, Unpin
  <2> QED
    BY <2>3, <2>4, WanesUnderCollect
<1>13. CASE UNCHANGED vars
  BY <1>2, <1>3, <1>13 DEF vars, OnlyWanes
<1> QED
  BY <1>4, <1>5, <1>6, <1>7, <1>8, <1>9, <1>10, <1>11, <1>12, <1>13 DEF Next

\* A retired pointee only ever waits for the holders it has: no call names,
\* binds or pins it again, and none revives it.
THEOREM RetirementFinality == Spec => RetirementIsFinal
<1>1. Inv /\ [Next]_vars =>
        [\A r \in arena.retired \cap arena'.owned :
            /\ r \in arena'.retired
            /\ ~HasAlias(arena', r)
            /\ arena'.borrow[r] <= arena.borrow[r]
            /\ arena'.pin[r] <= arena.pin[r]]_vars
  BY RetiredOnlyWanes DEF OnlyWanes
<1> QED
  BY <1>1, InitInv, StepInv, PTL DEF Spec, RetirementIsFinal
=============================================================================
