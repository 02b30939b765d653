-------------------------- MODULE ArenaOperations --------------------------
(***************************************************************************)
(* The ResourceArena of src/graph/resource.cpp as operators on an arena    *)
(* value: one operator per private method, from the arena before the call  *)
(* to the arena after it.  The executor composes several of them in one    *)
(* step, so they are kept apart from the state machine of ResourceArena.   *)
(*                                                                         *)
(* A GraphResource is an element of Resources.  A pointee is never mutated *)
(* once it is published, so its identity also stands for its pixels.       *)
(* Every operator is applied only where the method does not throw; the     *)
(* conditions under which it does not are the CanXxx predicates.           *)
(***************************************************************************)
EXTENDS Naturals, FiniteSets

CONSTANTS
    Resources,   \* the GraphResource pointees
    Names,       \* the non-empty names a route or a surface can have
    NoResource,  \* the null pointer that find returns for an unknown name
    MaxCount     \* numeric_limits<size_t>::max() of the two counters

ASSUME NoResourceAssumption == NoResource \notin Resources
ASSUME MaxCountAssumption   == MaxCount \in Nat \ {0}

-----------------------------------------------------------------------------

\* owned_ (a vector: its order is never observed), named_, and the counters
\* and the flag of every pointee.
Arena ==
    [owned   : SUBSET Resources,
     named   : [Names -> Resources \cup {NoResource}],
     borrow  : [Resources -> 0 .. MaxCount],
     pin     : [Resources -> 0 .. MaxCount],
     retired : SUBSET Resources]

EmptyArena ==
    [owned   |-> {},
     named   |-> [n \in Names |-> NoResource],
     borrow  |-> [r \in Resources |-> 0],
     pin     |-> [r \in Resources |-> 0],
     retired |-> {}]

Find(a, n) == a.named[n]

HasAlias(a, r) == \E n \in Names : a.named[n] = r

IsReferenced(a, r) == a.pin[r] # 0 \/ HasAlias(a, r)

\* What keeps memory alive: a reference, or a binding that was retained.
IsHeld(a, r) == IsReferenced(a, r) \/ a.borrow[r] # 0

-----------------------------------------------------------------------------

\* collect_retired: the pointee leaves owned_, and with it its flag.
CollectRetired(a, r) ==
    IF r \in a.owned /\ r \in a.retired /\ ~IsHeld(a, r)
    THEN [a EXCEPT !.owned = @ \ {r}, !.retired = @ \ {r}]
    ELSE a

\* Faulty variant: what lost its last reference is not marked retired, so a
\* binding that outlives it never hands it back.
DropIfUnreferencedUnmarked(a, r) ==
    IF r # NoResource /\ ~IsReferenced(a, r) /\ ~IsHeld(a, r)
    THEN [a EXCEPT !.owned = @ \ {r}]
    ELSE a

\* The tail that insert, alias and remove_alias share: what lost its last
\* reference is retired, and collected unless a binding still holds it.
DropIfUnreferenced(a, r) ==
    IF r # NoResource /\ ~IsReferenced(a, r)
    THEN CollectRetired([a EXCEPT !.retired = @ \cup {r}], r)
    ELSE a

\* owned_.push_back of a new GraphResource.
PushBack(a, r) == [a EXCEPT !.owned = @ \cup {r}]

\* Faulty variant: insert without its catch block.
PopBackForgotten(a, r) == a

\* owned_.pop_back, in insert's catch block.
PopBack(a, r) == [a EXCEPT !.owned = @ \ {r}]

CanInsert(a, r) == r \in Resources \ a.owned

\* Faulty variant: the pointee that a route loses is forgotten.
InsertKeepsPrevious(a, n, r) == [PushBack(a, r) EXCEPT !.named[n] = r]

\* insert, and allocate and copy, which only build the surface first.
Insert(a, n, r) ==
    LET previous == Find(a, n)
        entered  == [PushBack(a, r) EXCEPT !.named[n] = r]
    IN  DropIfUnreferenced(entered, previous)

\* insert when named_[key] throws: the pointee is rolled back.
InsertRolledBack(a, r) == PopBack(PushBack(a, r), r)

\* Faulty variant: a retired pointee can be named again.
CanAliasRetired(a, r) == r \in a.owned

CanAlias(a, r) == r \in a.owned /\ r \notin a.retired

Alias(a, n, r) ==
    LET previous == Find(a, n)
        entered  == [a EXCEPT !.named[n] = r]
    IN  IF previous = r THEN entered ELSE DropIfUnreferenced(entered, previous)

RemoveAlias(a, n) ==
    DropIfUnreferenced([a EXCEPT !.named[n] = NoResource], Find(a, n))

\* Faulty variant: retain without its overflow guard.
CanRetainUnguarded(a, r) == r \in a.owned /\ r \notin a.retired

CanRetain(a, r) == r \in a.owned /\ r \notin a.retired /\ a.borrow[r] < MaxCount

Retain(a, r) == [a EXCEPT !.borrow[r] = @ + 1]

CanRelease(a, r) == r \in a.owned /\ a.borrow[r] # 0

Release(a, r) == CollectRetired([a EXCEPT !.borrow[r] = @ - 1], r)

CanPin(a, r) == r \in a.owned /\ r \notin a.retired /\ a.pin[r] < MaxCount

Pin(a, r) == [a EXCEPT !.pin[r] = @ + 1]

CanUnpin(a, r) == r \in a.owned /\ a.pin[r] # 0

Unpin(a, r) ==
    LET dropped == [a EXCEPT !.pin[r] = @ - 1]
    IN  CollectRetired(
          IF IsReferenced(dropped, r) THEN dropped
                                      ELSE [dropped EXCEPT !.retired = @ \cup {r}], r)

\* retire: every name of the pointee is erased, pinned or not.
Retire(a, r) ==
    CollectRetired(
      [a EXCEPT !.retired = @ \cup {r},
                !.named = [n \in Names |-> IF @[n] = r THEN NoResource ELSE @[n]]], r)

-----------------------------------------------------------------------------

\* What every method relies on and re-establishes: counters and flags only on
\* owned pointees, a name only on a pointee that is owned and bindable, and
\* an owned pointee with no reference left is retired and still borrowed.
WellFormed(a) ==
    /\ \A r \in Resources \ a.owned :
          a.borrow[r] = 0 /\ a.pin[r] = 0 /\ r \notin a.retired
    /\ \A n \in Names : a.named[n] # NoResource =>
          a.named[n] \in a.owned \ a.retired
    /\ \A r \in a.owned : IsReferenced(a, r) \/ (r \in a.retired /\ a.borrow[r] # 0)
=============================================================================
