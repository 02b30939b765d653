-------------------------- MODULE IterationGroups --------------------------
(***************************************************************************)
(* compute_iteration_groups of src/graph/iteration.cpp: one scan over a    *)
(* chain that cuts it into the groups the executor runs as a unit.  One    *)
(* step of the model is one turn of the loop: the next step of the chain   *)
(* is any of Steps, so that every chain of at most MaxLength steps is      *)
(* scanned.  Throwing ends the scan.                                       *)
(*                                                                         *)
(* Of a step the scan sees whether it is a built-in surface step           *)
(* (boundary), and of an effect the facts that the fields below name.      *)
(***************************************************************************)
EXTENDS Naturals, Sequences

CONSTANTS
    Steps,      \* the steps a chain may have
    MaxLength   \* bound: steps of the chain

\* references: a pass samples or publishes particle state (global_vel, ...);
\* ticks: the parameter iterationCount is a positive number.
StepType ==
    [boundary    : BOOLEAN,
     role        : {"none", "begin", "end"},    \* loop_role
     declaresXyz : BOOLEAN,
     references  : BOOLEAN,
     iterated    : BOOLEAN,
     generator   : BOOLEAN,                     \* an image generator
     speed       : {"absent", "zero", "moving"},
     ticks       : BOOLEAN,
     id          : {"noise3d", "flow3d", "other"}]

\* Of all definitions only render/pointsEmit declares global_xyz.  It is
\* iterated, samples its particle state and generates nothing by itself.  A
\* surface step has no definition: it marks no loop and generates nothing.
ASSUME StepsAssumption ==
    /\ Steps \subseteq StepType
    /\ \A s \in Steps : s.declaresXyz =>
          s.iterated /\ s.references /\ ~s.generator /\ s.id = "other"
    /\ \A s \in Steps : s.boundary => s.role = "none" /\ ~s.generator /\ s.id = "other"
    /\ \A s \in Steps : s.id = "flow3d" => s.iterated
ASSUME MaxLengthAssumption == MaxLength \in Nat

VARIABLES
    chain,      \* the steps scanned so far
    groups,
    openGroup,  \* the particle group that later steps may join
    openLoop,   \* the loop region that takes every step until its end
    outcome     \* "scanning", "done" or "thrown"

vars == <<chain, groups, openGroup, openLoop, outcome>>

Group(indices, iterated, loop) ==
    [steps |-> indices, iterated |-> iterated, loop |-> loop]

\* std::nullopt
NoGroup == Group(<<>>, FALSE, FALSE)

Joined(group, index) == [group EXCEPT !.steps = Append(@, index)]

Init ==
    /\ chain = <<>> /\ groups = <<>>
    /\ openGroup = NoGroup /\ openLoop = NoGroup
    /\ outcome = "scanning"

-----------------------------------------------------------------------------

\* The index of the step being scanned.
Index == Len(chain) + 1

\* close_open_group
Closed == IF openGroup = NoGroup THEN groups ELSE Append(groups, openGroup)

IsAnimatedImageGenerator(s) ==
    s.generator /\ ~s.iterated /\ s.speed = "moving"

\* The step that the last group consists of, if it consists of one step.
EndsWithOne(gs) == gs # <<>> /\ Len(gs[Len(gs)].steps) = 1

LastStep(gs) == chain[gs[Len(gs)].steps[1]]

AllButLast(gs) == SubSeq(gs, 1, Len(gs) - 1)

Scan(s) ==
    /\ outcome = "scanning" /\ Len(chain) < MaxLength
    /\ chain' = Append(chain, s)

Continue(gs, group, loop) ==
    groups' = gs /\ openGroup' = group /\ openLoop' = loop /\ UNCHANGED outcome

Throw == outcome' = "thrown" /\ UNCHANGED <<groups, openGroup, openLoop>>

InLoop == openLoop # NoGroup

\* Inside a loop region: a surface step or another begin throws, the end
\* closes the region.
LoopStep(s) ==
    /\ Scan(s) /\ InLoop
    /\ CASE s.boundary \/ s.role = "begin" -> Throw
         [] s.role = "end" -> Continue(Append(groups, Joined(openLoop, Index)), openGroup, NoGroup)
         [] OTHER -> Continue(groups, openGroup, Joined(openLoop, Index))

\* A surface step is a group of its own.
BoundaryStep(s) ==
    /\ Scan(s) /\ ~InLoop /\ s.boundary
    /\ Continue(Append(Closed, Group(<<Index>>, FALSE, FALSE)), NoGroup, NoGroup)

EffectOutsideLoop(s) == Scan(s) /\ ~InLoop /\ ~s.boundary

UnmatchedEnd(s) == EffectOutsideLoop(s) /\ s.role = "end" /\ Throw

\* Faulty variant: the open particle group is left open.
LoopBeginsWithoutClosing(s) ==
    /\ EffectOutsideLoop(s) /\ s.role = "begin"
    /\ Continue(groups, openGroup, Group(<<Index>>, TRUE, TRUE))

LoopBegins(s) ==
    /\ EffectOutsideLoop(s) /\ s.role = "begin"
    /\ Continue(Closed, NoGroup, Group(<<Index>>, TRUE, TRUE))

\* An animated image that feeds the particles runs again with each tick.
RejoinsImage(s) ==
    /\ s.ticks /\ EndsWithOne(Closed)
    /\ ~Closed[Len(Closed)].iterated
    /\ IsAnimatedImageGenerator(LastStep(Closed))

\* Faulty variant: the pair takes the flag of the image's own group.
GroupWithImageAsImage(s) ==
    Group(<<Closed[Len(Closed)].steps[1], Index>>, Closed[Len(Closed)].iterated, FALSE)

GroupWithImage(s) == Group(<<Closed[Len(Closed)].steps[1], Index>>, s.iterated, FALSE)

\* Faulty variant: the image stays in a group of its own as well.
OpensParticlesKeepingImage(s) ==
    /\ EffectOutsideLoop(s) /\ s.role = "none" /\ s.declaresXyz
    /\ IF RejoinsImage(s)
       THEN Continue(Closed, GroupWithImage(s), NoGroup)
       ELSE Continue(Closed, Group(<<Index>>, s.iterated, FALSE), NoGroup)

\* A step that declares global_xyz opens a particle group of its own.
OpensParticles(s) ==
    /\ EffectOutsideLoop(s) /\ s.role = "none" /\ s.declaresXyz
    /\ IF RejoinsImage(s)
       THEN Continue(AllButLast(Closed), GroupWithImage(s), NoGroup)
       ELSE Continue(Closed, Group(<<Index>>, s.iterated, FALSE), NoGroup)

\* Faulty variant: the declaration of global_xyz is not looked at first.
JoinsParticlesFirst(s) == openGroup # NoGroup /\ s.references

JoinsParticles(s) == ~s.declaresXyz /\ openGroup # NoGroup /\ s.references

JoinStep(s) ==
    /\ EffectOutsideLoop(s) /\ s.role = "none" /\ JoinsParticles(s)
    /\ Continue(groups, Joined(openGroup, Index), NoGroup)

\* Faulty variant: a still volume is rejoined as well.
RejoinsAnyNoise(s) ==
    /\ openGroup = NoGroup /\ s.id = "flow3d" /\ s.ticks
    /\ EndsWithOne(groups) /\ LastStep(groups).id = "noise3d"

\* Animated noise3d runs again before each tick of flow3d.
RejoinsNoise(s) ==
    /\ openGroup = NoGroup /\ s.id = "flow3d" /\ s.ticks
    /\ EndsWithOne(groups) /\ LastStep(groups).id = "noise3d"
    /\ LastStep(groups).speed # "zero"

FlowStep(s) ==
    /\ EffectOutsideLoop(s) /\ s.role = "none" /\ ~s.declaresXyz /\ RejoinsNoise(s)
    /\ Continue(Append(AllButLast(groups),
                       Group(<<groups[Len(groups)].steps[1], Index>>, TRUE, FALSE)),
                NoGroup, NoGroup)

SingleStep(s) ==
    /\ EffectOutsideLoop(s) /\ s.role = "none" /\ ~s.declaresXyz
    /\ ~JoinsParticles(s) /\ ~RejoinsNoise(s)
    /\ Continue(Append(Closed, Group(<<Index>>, s.iterated, FALSE)), NoGroup, NoGroup)

\* Faulty variant: a region that the chain leaves open is closed for it.
FinishClosingLoop ==
    /\ outcome = "scanning" /\ outcome' = "done"
    /\ groups' = IF InLoop THEN Append(Closed, openLoop) ELSE Closed
    /\ openGroup' = NoGroup /\ openLoop' = NoGroup
    /\ UNCHANGED chain

\* The chain ends: a region still open throws.
Finish ==
    /\ outcome = "scanning"
    /\ UNCHANGED chain
    /\ IF InLoop THEN Throw
       ELSE /\ outcome' = "done"
            /\ groups' = Closed
            /\ openGroup' = NoGroup /\ openLoop' = NoGroup

Ended == outcome # "scanning" /\ UNCHANGED vars

Next ==
    \/ \E s \in Steps :
          \/ LoopStep(s) \/ BoundaryStep(s) \/ UnmatchedEnd(s) \/ LoopBegins(s)
          \/ OpensParticles(s) \/ JoinStep(s) \/ FlowStep(s) \/ SingleStep(s)
    \/ Finish
    \/ Ended

Spec == Init /\ [][Next]_vars

-----------------------------------------------------------------------------

GroupType == [steps : Seq(Nat), iterated : BOOLEAN, loop : BOOLEAN]

\* Every variable has its type, and of the two open groups one at most is
\* engaged.
TypeOK ==
    /\ chain \in Seq(Steps)
    /\ groups \in Seq(GroupType)
    /\ openGroup \in GroupType /\ openLoop \in GroupType
    /\ openGroup = NoGroup \/ openLoop = NoGroup
    /\ outcome \in {"scanning", "done", "thrown"}

\* The groups so far, the open one included.
AllGroups ==
    IF InLoop THEN Append(groups, openLoop) ELSE Closed

First(g) == g.steps[1]
Last(g)  == g.steps[Len(g.steps)]

\* Consecutive indices.
IsRun(g) ==
    /\ g.steps # <<>>
    /\ \A i \in 1 .. Len(g.steps) : g.steps[i] = First(g) + i - 1

\* The groups cut 1 .. n into runs, in order.
Cuts(gs, n) ==
    /\ \A k \in 1 .. Len(gs) :
          /\ IsRun(gs[k])
          /\ First(gs[k]) = IF k = 1 THEN 1 ELSE Last(gs[k - 1]) + 1
          /\ \A j \in 1 .. k - 1 : Last(gs[j]) < First(gs[k])
    /\ n = IF gs = <<>> THEN 0 ELSE Last(gs[Len(gs)])

\* Every step is in exactly one group and groups keep the order of the chain,
\* through every closing, joining and rejoining: the executor runs each step
\* once, where it was written.
Partition == outcome # "thrown" => Cuts(AllGroups, Len(chain))

\* The executor runs only the front step of a group that is not iterated, and
\* takes the tick count of one that is from its first iterated step: a group
\* of several steps has to be iterated, and an iterated one needs such a step.
TicksWhereNeeded(gs, steps) ==
    \A k \in 1 .. Len(gs) :
        /\ Len(gs[k].steps) > 1 => gs[k].iterated
        /\ gs[k].iterated /\ ~gs[k].loop =>
             \E i \in 1 .. Len(gs[k].steps) : steps[gs[k].steps[i]].iterated

RunsEveryStep == outcome # "thrown" => TicksWhereNeeded(AllGroups, chain)

\* Particle state has one owner: outside a loop a group has at most one step
\* that declares global_xyz; all after it use particle state, and nothing but
\* an animated image generator precedes it (run_iterated_group sizes the
\* state of the whole group by its owner).
SingleStateOwner ==
    \A k \in 1 .. Len(AllGroups) :
        LET g == AllGroups[k]
        IN  \A i \in 1 .. Len(g.steps) :
               ~g.loop /\ chain[g.steps[i]].declaresXyz =>
                 /\ \A j \in i + 1 .. Len(g.steps) :
                       chain[g.steps[j]].references /\ ~chain[g.steps[j]].declaresXyz
                 /\ \A j \in 1 .. i - 1 :
                       j = 1 /\ i = 2 /\ IsAnimatedImageGenerator(chain[g.steps[j]])

-----------------------------------------------------------------------------
\* The grouping by its intent, from the whole chain at once.

\* A begin before step i has met no end yet.
LoopBefore(i) ==
    \E b \in 1 .. i - 1 :
        /\ chain[b].role = "begin"
        /\ \A k \in b + 1 .. i - 1 : chain[k].role # "end"

\* iteration.hpp: the scan throws for a region that crosses a surface step,
\* for a nested begin and for an unmatched begin or end, and for nothing else.
Balanced ==
    /\ \A i \in 1 .. Len(chain) :
          IF LoopBefore(i) THEN ~chain[i].boundary /\ chain[i].role # "begin"
                           ELSE chain[i].role # "end"
    /\ ~LoopBefore(Len(chain) + 1)

ThrowsExactlyWhenUnbalanced ==
    /\ outcome = "thrown" => ~Balanced
    /\ outcome = "done" => Balanced

\* An effect that is neither in a loop region nor a marker of one.
IsOrdinary(i) == ~LoopBefore(i) /\ ~chain[i].boundary /\ chain[i].role = "none"

\* The particles declared by step j are still evolving when step i is reached.
ParticlesReach(j, i) ==
    /\ IsOrdinary(j) /\ chain[j].declaresXyz
    /\ \A k \in j + 1 .. i - 1 :
          IsOrdinary(k) /\ chain[k].references /\ ~chain[k].declaresXyz

\* Step i runs in the same group as step i - 1.
RunsWithPrevious ==
    LET with[i \in 1 .. Len(chain)] ==
          IF i = 1 THEN FALSE
          ELSE LET reached == \E j \in 1 .. i - 1 : ParticlesReach(j, i)
                   alone   == ~with[i - 1]
               IN  \/ LoopBefore(i)
                   \/ /\ IsOrdinary(i) /\ chain[i].declaresXyz /\ chain[i].ticks
                      /\ IsOrdinary(i - 1) /\ alone
                      /\ IsAnimatedImageGenerator(chain[i - 1])
                   \/ /\ IsOrdinary(i) /\ ~chain[i].declaresXyz
                      /\ reached /\ chain[i].references
                   \/ /\ IsOrdinary(i) /\ ~chain[i].declaresXyz /\ ~reached
                      /\ chain[i].id = "flow3d" /\ chain[i].ticks
                      /\ IsOrdinary(i - 1) /\ alone
                      /\ chain[i - 1].id = "noise3d" /\ chain[i - 1].speed # "zero"
    IN  with

\* The scan, which sees one step at a time and looks back at one group, finds
\* the grouping that the whole chain calls for.
MatchesIntent ==
    outcome = "done" =>
      /\ \A i \in 2 .. Len(chain) :
            RunsWithPrevious[i] <=>
              \E k \in 1 .. Len(groups) :
                 \E p \in 2 .. Len(groups[k].steps) : groups[k].steps[p] = i
      /\ \A k \in 1 .. Len(groups) :
            LET g == groups[k]
            IN  /\ g.loop <=> chain[First(g)].role = "begin"
                /\ g.iterated <=> \/ Len(g.steps) > 1
                                  \/ ~chain[First(g)].boundary /\ chain[First(g)].iterated
=============================================================================
