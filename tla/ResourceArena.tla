--------------------------- MODULE ResourceArena ---------------------------
(***************************************************************************)
(* ResourceArena of include/noisemaker/graph/resource.hpp as a state       *)
(* machine: any of its methods may be called at any time, with any name    *)
(* and any pointee, the way its friends GraphExecutor and                  *)
(* ResourceArenaTestAccess can.  A call the method refuses (it throws, or  *)
(* it returns early) leaves the arena as it is: it is a stuttering step    *)
(* and has no action.                                                      *)
(***************************************************************************)
EXTENDS ArenaOperations

VARIABLE arena

vars == <<arena>>

Init == arena = EmptyArena

InsertStep(n, r) ==
    /\ CanInsert(arena, r)
    /\ arena' = Insert(arena, n, r)

InsertThrows(r) ==
    /\ CanInsert(arena, r)
    /\ arena' = InsertRolledBack(arena, r)

AliasStep(n, r) ==
    /\ CanAlias(arena, r)
    /\ arena' = Alias(arena, n, r)

RemoveAliasStep(n) ==
    /\ Find(arena, n) # NoResource
    /\ arena' = RemoveAlias(arena, n)

RetainStep(r) ==
    /\ CanRetain(arena, r)
    /\ arena' = Retain(arena, r)

ReleaseStep(r) ==
    /\ CanRelease(arena, r)
    /\ arena' = Release(arena, r)

PinStep(r) ==
    /\ CanPin(arena, r)
    /\ arena' = Pin(arena, r)

UnpinStep(r) ==
    /\ CanUnpin(arena, r)
    /\ arena' = Unpin(arena, r)

RetireStep(r) ==
    /\ r \in arena.owned
    /\ arena' = Retire(arena, r)

Next ==
    \/ \E n \in Names, r \in Resources : InsertStep(n, r) \/ AliasStep(n, r)
    \/ \E n \in Names : RemoveAliasStep(n)
    \/ \E r \in Resources :
          \/ InsertThrows(r) \/ RetireStep(r)
          \/ RetainStep(r)   \/ ReleaseStep(r)
          \/ PinStep(r)      \/ UnpinStep(r)

Spec == Init /\ [][Next]_vars

-----------------------------------------------------------------------------

\* Every component of the arena has its type.
TypeOK == arena \in Arena

\* Storage is reclaimed exactly when the last holder goes: the arena owns a
\* pointee if and only if a name, a pin or a retained binding still holds it,
\* so no pointer a holder keeps dangles and repeated publication over one
\* route keeps nothing behind (insert, alias, release, unpin, retire).
OwnedExactlyWhileHeld ==
    arena.owned = {r \in Resources : IsHeld(arena, r)}

\* The inductive invariant: besides the above, what a name reaches can always
\* be bound (retain, pin and alias throw on a retired pointee), and what lost
\* its last reference is already marked retired, so that the release of its
\* last binding collects it.
ArenaWellFormed == WellFormed(arena)

\* Retirement is final for the pointee's remaining life: a retired pointee is
\* never named again and gains neither a binding nor a pin; it only waits for
\* the ones it has (alias, retain and pin throw on it).
RetirementIsFinal ==
    [][\A r \in arena.retired \cap arena'.owned :
          /\ r \in arena'.retired
          /\ ~HasAlias(arena', r)
          /\ arena'.borrow[r] <= arena.borrow[r]
          /\ arena'.pin[r] <= arena.pin[r]]_vars
=============================================================================
