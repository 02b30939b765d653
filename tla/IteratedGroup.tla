--------------------------- MODULE IteratedGroup ---------------------------
(***************************************************************************)
(* run_iterated_group of src/graph/executor.cpp: one group of steps run    *)
(* for several ticks within one frame.  Every tick starts again from what  *)
(* came into the group, and what makes a tick differ from the one before   *)
(* is the memory of the group: the surfaces of each step, the surfaces all *)
(* steps share, and each step's selfTex.                                   *)
(*                                                                         *)
(* Which passes run, and how often, may differ from tick to tick: their    *)
(* parameters can be automated.  A surface is identified by the rendering  *)
(* that produced it, so a pass that samples the wrong surface, or one of   *)
(* the wrong tick, is told apart.                                          *)
(***************************************************************************)
EXTENDS EffectCatalog, Integers

CONSTANTS
    Groups,         \* groups of steps, as compute_iteration_groups hands them
    Inputs,         \* the components that may come in: subsets of Components
    Published,      \* the named surfaces that the arena holds
    ParticleState,  \* is_particle_state_name: global_xyz, global_points_trail, ...
    DefaultTicks,   \* bound: stands for the 60 ticks of a missing count
    DefaultSize     \* kParticleStateFallbackSize

\* A step of a group.  textures: the routes it declares; surfaces: what each
\* surface parameter is bound to; typed: its volume and geometry parameters;
\* count: iterationCount, or Absent; repeating: a pass declares `repeat`;
\* stateSize: 0 when it has no such parameter; inherits: a texture of it is
\* sized by the stateSize of whoever owns the group's particles.
StepFields == {"domain", "textures", "passes", "outputTex3d", "outputGeo", "surfaces",
               "typed", "iterated", "count", "repeating", "stateSize", "inherits"}
Absent == -1

ASSUME DefaultTicksAssumption == DefaultTicks \in Nat \ {0}
ASSUME InputsAssumption == Inputs \subseteq SUBSET {"image", "volume", "geometry"}

VARIABLES
    group,
    input,    \* the bundle that came in
    phase,    \* "start", "step": between steps; "pass": between passes;
              \* "done" and "thrown"
    at,       \* the tick, the position in the group, the pass, the repeats left
    states,   \* for each step its resources and its selfTex
    shared,   \* group_resources
    carried,  \* the bundle that is threaded through the steps of a tick
    output,   \* the last rendering of the running step, and its route
    log       \* history: what each rendering sampled and stored

vars == <<group, input, phase, at, states, shared, carried, output, log>>

-----------------------------------------------------------------------------
\* Surfaces, and bundles of surfaces with the routes they were stored under.

NoSurface == <<"none">>
Cleared   == <<"cleared">>
Empty     == <<"empty">>           \* the 1x1 surface of an unbound parameter
Incoming(component) == <<"incoming", component>>
Named(s)            == <<"named", s>>
Rendered(k, route)  == <<"rendered", k, route>>

Components == {"image", "volume", "geometry"}

\* The routes under which a step samples the bundle.
ThreadRoute == [image |-> "inputTex", volume |-> "inputTex3d", geometry |-> "inputGeo"]

Nothing == [surface |-> NoSurface, route |-> NoRoute]

-----------------------------------------------------------------------------
\* What is assumed of the groups, of which all but the last part is a matter of
\* the definitions.

AllSteps == UNION {{g.steps[i] : i \in 1 .. Len(g.steps)} : g \in Groups}

PassesOf(s) == {s.passes[i] : i \in 1 .. Len(s.passes)}

ThreadRoutes == {ThreadRoute[c] : c \in Components}

\* Names with a meaning of their own.
Reserved == ThreadRoutes \cup {NoRoute, "selfTex", "feedback", "destination"}

\* What a step binds to its parameters.
BoundRoutes(s) == DOMAIN s.surfaces \cup DOMAIN s.typed

\* An image effect that renders its outputTex only in passes that may be
\* skipped leaves the last slot of another.
OtherImages(s) ==
    IF IsVolumeDomain(s.domain)
       \/ \E p \in PassesOf(s) : "outputTex" \in Routes(p) /\ ~CanBeSkipped(p)
    THEN {} ELSE {LastSlot(p) : p \in PassesOf(s)}

\* The routes under which a group hands back what it rendered.
NewRoutes(g) ==
    LET steps == {g.steps[i] : i \in 1 .. Len(g.steps)}
    IN  [image    |-> {"outputTex"} \cup UNION {OtherImages(s) : s \in steps},
         volume   |-> {n \in {s.outputTex3d : s \in steps} : ~PassesThrough(n)},
         geometry |-> {n \in {s.outputGeo : s \in steps} : ~PassesThrough(n)}]

\* The passes that render particle state into several destinations.
RendersParticles(s) ==
    {p \in PassesOf(s) : \E r, q \in Routes(p) \cap ParticleState : r # q}

\* A pass renders no route that is bound or threaded in, and what a step hands
\* on under a name of its own it does not share.
ASSUME RoutesAssumption ==
    /\ ParticleState \cap (Reserved \cup {"outputTex", "global_accum"}) = {}
    /\ NoRoute # "outputTex"
    /\ \A s \in AllSteps :
          /\ DOMAIN s = StepFields
          /\ s.textures \cap ThreadRoutes = {}
          /\ BoundRoutes(s) \cap (Reserved \cup ParticleState \cup {"outputTex", "global_accum"}) = {}
          /\ DOMAIN s.surfaces \cap DOMAIN s.typed = {}
          /\ \A r \in DOMAIN s.typed : s.typed[r] \in Components
          /\ {s.outputTex3d, s.outputGeo}
               \cap (BoundRoutes(s) \cup ParticleState \cup {"global_accum", "outputTex"}) = {}
          /\ Len(s.passes) \in Nat
          /\ \A p \in PassesOf(s) :
                /\ Len(p.outputs) \in Nat \ {0}
                /\ p.repeats \subseteq Nat
                /\ Routes(p) \cap (BoundRoutes(s) \cup Reserved) = {}

\* Only a volume effect makes a volume, and every generator does.
ASSUME DomainsAssumption ==
    \A s \in AllSteps :
        /\ s.domain = "volume-generator" => ~PassesThrough(s.outputTex3d)
        /\ RequiresOutputVolume(s.domain) \/ PassesThrough(s.outputTex3d)
        /\ PassesThrough(s.outputGeo) => s.outputGeo \in {NoRoute, "inputGeo"}

\* The groups: the end of a loop, which renders global_accum, is in a loop; a
\* route is not used for two components; particle state is declared by the
\* step that renders it or by whatever declares global_xyz, and who declares it
\* has a stateSize or inherits it.
ASSUME GroupsAssumption ==
    \A g \in Groups :
        LET steps == {g.steps[i] : i \in 1 .. Len(g.steps)}
            new   == NewRoutes(g)
        IN  /\ g.steps \in Seq(AllSteps) /\ g.steps # <<>>
            /\ g.loop \in BOOLEAN
            /\ g.loop \/ \A s \in steps : \A p \in PassesOf(s) : "global_accum" \notin Routes(p)
            /\ \A c, d \in Components : c # d => new[c] \cap new[d] = {}
            /\ \A s \in steps : "global_xyz" \in s.textures => s.stateSize # 0
            /\ \A s \in steps : \A p \in RendersParticles(s) : \A r \in Routes(p) \cap ParticleState :
                  /\ r \in s.textures \/ \A e \in steps : "global_xyz" \in e.textures => r \in e.textures
                  /\ \A e \in steps : r \in e.textures => e.stateSize # 0 \/ e.inherits

-----------------------------------------------------------------------------

IncomingBundle(present) ==
    [c \in Components |-> IF c \in present
                          THEN [surface |-> Incoming(c), route |-> ThreadRoute[c]]
                          ELSE Nothing]

Has(bundle, c) == bundle[c].surface # NoSurface

Store(map, route, surface) ==
    [r \in DOMAIN map \cup {route} |-> IF r = route THEN surface ELSE map[r]]

-----------------------------------------------------------------------------
\* What is fixed for the whole run of a group.

Positions == 1 .. Len(group.steps)

FirstPosition(set, default) ==
    IF set = {} THEN default ELSE CHOOSE p \in set : \A q \in set : p <= q

IterationOwner ==
    group.steps[FirstPosition({p \in Positions : group.steps[p].iterated}, 1)]

\* resolve_iteration_count, capped where a pass repeat already counts.
Ticks ==
    LET requested == IterationOwner.count
    IN  IF IterationOwner.repeating THEN IF requested = 0 THEN 0 ELSE 1
        ELSE IF requested = Absent THEN DefaultTicks ELSE requested

\* Faulty variant: the step in front owns the particles, whatever it is.
StateOwnerInFront == 1

\* The step that declares global_xyz; an animated image may precede it.
StateOwner ==
    FirstPosition({p \in Positions : "global_xyz" \in group.steps[p].textures}, 1)

\* group_owner_state_size, and what a step makes of it.
StateSize(p) ==
    LET s      == group.steps[p]
        owners == IF Len(group.steps) > 1 THEN group.steps[StateOwner].stateSize ELSE 0
    IN  IF p # StateOwner /\ owners # 0 /\ (s.stateSize # 0 \/ s.inherits) THEN owners
        ELSE IF s.stateSize = 0 /\ s.inherits THEN DefaultSize ELSE s.stateSize

\* resolve_group_particle_texture_spec, for textures sized by stateSize: the
\* first step that declares the route decides, or else the one that uses it.
Extent(route, user) ==
    LET size == StateSize(FirstPosition(
                  {p \in Positions : route \in group.steps[p].textures}, user))
    IN  IF size = 0 THEN DefaultSize ELSE size

UsesSelfTex(s) ==
    \E i \in 1 .. Len(s.passes) : s.passes[i].inputs \cap {"selfTex", "feedback"} # {}

\* is_group_shared_resource_name
IsShared(route) == route \in ParticleState \/ route = "global_accum"

-----------------------------------------------------------------------------

Moment(tick, position, pass, again) ==
    [tick |-> tick, position |-> position, pass |-> pass, again |-> again]

Position == at.position
Step     == group.steps[Position]
State    == states[Position]
ThePass  == Step.passes[at.pass]
HasPass  == at.pass <= Len(Step.passes)

Init ==
    /\ group \in Groups
    /\ \E present \in Inputs : input = IncomingBundle(present)
    /\ phase = "start"
    /\ at = Moment(0, 1, 1, 0)
    /\ states = <<>>
    /\ shared = <<>>
    /\ carried = input
    /\ output = Nothing
    /\ log = <<>>

Throw ==
    /\ phase' = "thrown"
    /\ UNCHANGED <<group, input, at, states, shared, carried, output, log>>

\* zero_iteration_group_output: what came in passes through; a volume
\* generator at the start of a chain leaves cleared atlases, and any other
\* step a cleared image.
ZeroTicks ==
    LET s == group.steps[1]
        fresh(route) == [surface |-> Cleared, route |-> route]
    IN  /\ phase = "start" /\ Ticks = 0
        /\ phase' = "done"
        /\ carried' =
             IF \E c \in Components : Has(input, c) THEN input
             ELSE IF s.domain = "volume-generator"
             THEN [image    |-> Nothing,
                   volume   |-> fresh(s.outputTex3d),
                   geometry |-> IF s.outputGeo \in {NoRoute, "inputGeo"} THEN Nothing
                                ELSE fresh(s.outputGeo)]
             ELSE [image |-> fresh("outputTex"), volume |-> Nothing, geometry |-> Nothing]
        /\ UNCHANGED <<group, input, at, states, shared, output, log>>

\* A loop region accumulates over its input, so it needs one.
GroupBegins ==
    /\ phase = "start" /\ Ticks > 0
    /\ IF group.loop /\ ~Has(input, "image") THEN Throw
       ELSE /\ phase' = "step"
            /\ states' = [p \in Positions |->
                            [resources |-> <<>>,
                             selfTex |-> IF UsesSelfTex(group.steps[p]) THEN Cleared
                                                                        ELSE NoSurface]]
            /\ shared' = IF group.loop THEN Store(<<>>, "global_accum", Cleared) ELSE <<>>
            /\ carried' = input
            /\ UNCHANGED <<group, input, at, output, log>>

-----------------------------------------------------------------------------

\* seed_group_step_bindings, then ensure_group_scratch_resources: what is
\* threaded in and what a parameter binds is stored anew at every tick, or
\* erased; everything else is cleared once and kept.
Seeded(s, resources, bundle) ==
    LET threads == {ThreadRoute[c] : c \in {x \in Components : Has(bundle, x)}}
        fed     == {r \in DOMAIN s.typed : Has(bundle, s.typed[r])}
        scratch == s.textures \ ParticleState
        routes  == (DOMAIN resources \ {ThreadRoute[c] : c \in Components})
                     \cup threads \cup DOMAIN s.surfaces \cup DOMAIN s.typed \cup scratch
    IN  [r \in routes |->
           CASE r \in threads ->
                  bundle[CHOOSE c \in Components : ThreadRoute[c] = r].surface
             [] r \in fed -> bundle[s.typed[r]].surface
             [] r \in DOMAIN s.surfaces ->
                  CASE s.surfaces[r] = "null"  -> Empty
                    [] s.surfaces[r] = "input" -> bundle["image"].surface
                    [] OTHER                   -> Named(s.surfaces[r])
             [] OTHER -> IF r \in DOMAIN resources THEN resources[r] ELSE Cleared]

\* A parameter asks for an image that is not there, or a named surface that
\* nobody has published.
Unbindable(s, bundle) ==
    \E r \in DOMAIN s.surfaces :
        \/ s.surfaces[r] = "input" /\ ~Has(bundle, "image")
        \/ s.surfaces[r] \notin {"input", "null"} \cup Published

StepBegins ==
    /\ phase = "step"
    /\ IF Unbindable(Step, carried) THEN Throw
       ELSE /\ states' = [states EXCEPT ![Position] =
                            [resources |-> Seeded(Step, State.resources, carried),
                             selfTex |-> State.selfTex]]
            /\ at' = Moment(at.tick, Position, 1, 0)
            /\ output' = Nothing
            /\ phase' = "pass"
            /\ UNCHANGED <<group, input, shared, carried, log>>

\* pass_enabled and pass_repeat, at the time of this tick.
PassSkipped ==
    /\ phase = "pass" /\ HasPass /\ at.again = 0 /\ 0 \in ThePass.repeats
    /\ at' = Moment(at.tick, Position, at.pass + 1, 0)
    /\ UNCHANGED <<group, input, phase, states, shared, carried, output, log>>

\* ensure_group_particle_inputs
WithParticles(map, routes) ==
    [r \in DOMAIN map \cup (routes \cap ParticleState) |->
        IF r \in DOMAIN map THEN map[r] ELSE Cleared]

\* lookup_group_step_route
Lookup(state, group_resources, route) ==
    LET in(map) == IF route \in DOMAIN map THEN map[route] ELSE NoSurface
    IN  CASE route \in {"selfTex", "feedback"} -> state.selfTex
          [] route \in ParticleState -> in(group_resources)
          [] route = "global_accum" /\ route \in DOMAIN group_resources ->
               group_resources[route]
          [] OTHER -> in(state.resources)

\* A pass with several destinations needs them of one size.
Mismatched(pass) ==
    \E r, q \in Routes(pass) \cap ParticleState : Extent(r, Position) # Extent(q, Position)

\* Faulty variant: every output is stored with the step.
StoreOutputsPrivately(state, group_resources, routes, k) ==
    [state  |-> [resources |-> [r \in DOMAIN state.resources \cup routes |->
                                 IF r \in routes THEN Rendered(k, r)
                                 ELSE state.resources[r]],
                 selfTex |-> state.selfTex],
     shared |-> group_resources]

\* store_group_output for every slot.
StoreOutputs(state, group_resources, routes, k) ==
    LET stored(map, set) == [r \in DOMAIN map \cup set |->
                               IF r \in set THEN Rendered(k, r) ELSE map[r]]
        common == {r \in routes : IsShared(r)}
    IN  [state  |-> [resources |-> stored(state.resources, routes \ common),
                     selfTex |-> state.selfTex],
         shared |-> stored(group_resources, common)]

\* One repeat of a pass.
PassRuns ==
    /\ phase = "pass" /\ HasPass
    /\ \E left \in IF at.again = 0 THEN {n - 1 : n \in ThePass.repeats \ {0}}
                                   ELSE {at.again - 1} :
         LET pass     == ThePass
             created  == WithParticles(shared, pass.inputs)
             source(r) == IF r = "destination"
                          THEN LET found == Lookup(State, created, pass.outputs[1])
                               IN  IF found = NoSurface THEN Cleared ELSE found
                          ELSE Lookup(State, created, r)
             sampled  == [r \in Sampled(pass) |-> source(r)]
             k        == Len(log) + 1
             stored   == StoreOutputs(State, created, Routes(pass), k)
             last     == pass.outputs[Len(pass.outputs)]
         IN  IF Mismatched(pass) \/ \E r \in pass.inputs : sampled[r] = NoSurface
             THEN Throw
             ELSE /\ states' = [states EXCEPT ![Position] = stored.state]
                  /\ shared' = stored.shared
                  /\ output' = [surface |-> Rendered(k, last), route |-> last]
                  /\ log' = Append(log, [tick |-> at.tick, position |-> Position,
                                         sampled |-> sampled, outputs |-> pass.outputs])
                  /\ at' = Moment(at.tick, Position,
                                  IF left = 0 THEN at.pass + 1 ELSE at.pass, left)
                  /\ UNCHANGED <<group, input, phase, carried>>

\* What a kernel, its bindings or its destination may throw.
PassFails == phase = "pass" /\ HasPass /\ Throw

-----------------------------------------------------------------------------

\* Faulty variant: the last rendering is the step's result.
StepResultLastPass == output

\* The step's own outputTex, of whichever tick, wins over its last rendering.
StepResult ==
    IF "outputTex" \in DOMAIN State.resources
    THEN [surface |-> State.resources["outputTex"], route |-> "outputTex"]
    ELSE output

\* selfTex is a copy of the result.
NextSelfTex(result) == IF State.selfTex = NoSurface THEN NoSurface ELSE result.surface

\* Faulty variant: a passthrough output keeps the surface and loses its route.
SelectOutputRenamed(name, incoming) ==
    IF PassesThrough(name) THEN [incoming EXCEPT !.route = name]
    ELSE IF name \in DOMAIN shared THEN [surface |-> shared[name], route |-> name]
    ELSE IF name \in DOMAIN State.resources
         THEN [surface |-> State.resources[name], route |-> name]
    ELSE Nothing

\* select_output
SelectOutput(name, incoming) ==
    IF PassesThrough(name) THEN incoming
    ELSE IF name \in DOMAIN shared THEN [surface |-> shared[name], route |-> name]
    ELSE IF name \in DOMAIN State.resources
         THEN [surface |-> State.resources[name], route |-> name]
    ELSE Nothing

NextBundle ==
    [image    |-> IF IsVolumeDomain(Step.domain) /\ "outputTex" \notin DOMAIN State.resources
                  THEN carried["image"] ELSE StepResult,
     volume   |-> SelectOutput(Step.outputTex3d, carried["volume"]),
     geometry |-> SelectOutput(Step.outputGeo, carried["geometry"])]

\* Faulty variant: a tick starts from where the one before ended.
TickInputChained(bundle) == bundle

\* Every tick starts from what came into the group.
TickInput(bundle) == input

\* The bundle is handed to the next step; after the last step the next tick
\* starts, or the group hands its bundle back.  That the bundle is not empty
\* then, which the code checks once more, is part of HandsBackLegalBundle.
StepEnds ==
    LET next     == NextBundle
        lastStep == Position = Len(group.steps)
        lastTick == at.tick + 1 = Ticks
    IN  /\ phase = "pass" /\ ~HasPass
        /\ IF \/ StepResult.surface = NoSurface
              \/ RequiresOutputVolume(Step.domain) /\ ~Has(next, "volume")
              \/ RequiresOutputImage(Step.domain) /\ ~Has(next, "image")
           THEN Throw
           ELSE /\ states' = [states EXCEPT ![Position] =
                                [resources |-> State.resources,
                                 selfTex |-> NextSelfTex(StepResult)]]
                /\ carried' = IF lastStep /\ ~lastTick THEN TickInput(next) ELSE next
                /\ phase' = IF lastStep /\ lastTick THEN "done" ELSE "step"
                /\ at' = Moment(IF lastStep THEN at.tick + 1 ELSE at.tick,
                                IF lastStep THEN 1 ELSE Position + 1, at.pass, at.again)
                /\ UNCHANGED <<group, input, shared, output, log>>

Ended == phase \in {"done", "thrown"} /\ UNCHANGED vars

Next ==
    \/ ZeroTicks \/ GroupBegins
    \/ StepBegins \/ PassSkipped \/ PassRuns \/ PassFails \/ StepEnds
    \/ Ended

Spec == Init /\ [][Next]_vars

-----------------------------------------------------------------------------
\* What a pass has to sample, from the history of renderings alone.  It is
\* enough to look at the latest rendering: every earlier one was the latest.

LastOf(renderings) == CHOOSE k \in renderings : \A j \in renderings : j <= k

Latest(renderings, route, otherwise) ==
    IF renderings = {} THEN otherwise ELSE Rendered(LastOf(renderings), route)

Wrote(k, route) == \E i \in 1 .. Len(log[k].outputs) : log[k].outputs[i] = route

\* Renderings of a route by the step at p, or by any step, up to tick t.
ByStep(p, t, route) ==
    {k \in 1 .. Len(log) : log[k].position = p /\ log[k].tick <= t /\ Wrote(k, route)}

ByGroup(p, t, route) ==
    {k \in 1 .. Len(log) : /\ \/ log[k].tick < t
                              \/ log[k].tick = t /\ log[k].position <= p
                           /\ Wrote(k, route)}

\* Those of a step in one tick.
InTick(p, t) == {k \in 1 .. Len(log) : log[k].position = p /\ log[k].tick = t}

\* The surface that a rendering left in the last slot of its pass.
LastRendered(k) == Rendered(k, log[k].outputs[Len(log[k].outputs)])

Declared(p, route) == route \in group.steps[p].textures

\* The result of a step in a tick: its latest outputTex, also if no pass
\* rendered it in this tick, or else its last rendering of the tick.
ResultOf(p, t) ==
    LET named == ByStep(p, t, "outputTex")
        own   == InTick(p, t)
    IN  IF named # {} \/ Declared(p, "outputTex") THEN Latest(named, "outputTex", Cleared)
        ELSE IF own = {} THEN NoSurface ELSE LastRendered(LastOf(own))

\* What the step at p leaves in tick t of the surfaces that come into it.
LeftBy(p, t, bundle) ==
    LET s == group.steps[p]
        declared(route) == IF Declared(p, route) THEN Cleared ELSE NoSurface
        renamed(name, c) ==
          IF PassesThrough(name) THEN bundle[c]
          ELSE Latest(IF IsShared(name) THEN ByGroup(p, t, name) ELSE ByStep(p, t, name),
                      name, declared(name))
        keepsImage == /\ IsVolumeDomain(s.domain)
                      /\ ByStep(p, t, "outputTex") = {}
                      /\ ~Declared(p, "outputTex")
    IN  [image    |-> IF keepsImage THEN bundle["image"] ELSE ResultOf(p, t),
         volume   |-> renamed(s.outputTex3d, "volume"),
         geometry |-> renamed(s.outputGeo, "geometry")]

\* The surfaces that come into each step in tick t, and, one past the last
\* step, those that the tick ends with.
Threaded(t) ==
    LET bundle[p \in 1 .. Len(group.steps) + 1] ==
          IF p = 1 THEN [c \in Components |-> input[c].surface]
          ELSE LeftBy(p - 1, t, bundle[p - 1])
    IN  bundle

\* The latest rendering, and the renderings before it.
Newest == log[Len(log)]
Earlier(set) == set \ {Len(log)}

\* The route that a sample was taken from.
SampledRoute(r) == IF r = "destination" THEN Newest.outputs[1] ELSE r

\* The renderings before the latest that its step has a memory of.
Remembered(route) ==
    Earlier(IF route \in ParticleState \/ (group.loop /\ route = "global_accum")
            THEN ByGroup(Len(group.steps), Newest.tick, route)
            ELSE ByStep(Newest.position, Newest.tick, route))

\* The memory of a group: particle state (and, in a loop region, global_accum)
\* is what any step rendered last, in this tick or in an earlier one; every
\* other route is what the same step rendered last, however many steps use
\* the same name; and either is cleared before its first rendering.
SamplesLatestRendering ==
    log # <<>> =>
      LET s == group.steps[Newest.position]
      IN  \A r \in DOMAIN Newest.sampled \
                    ({"inputTex", "inputTex3d", "inputGeo", "selfTex", "feedback"}
                       \cup DOMAIN s.surfaces \cup DOMAIN s.typed) :
            Newest.sampled[r] = Latest(Remembered(SampledRoute(r)), SampledRoute(r), Cleared)

\* The implicit inputs of a step, and the parameters bound to them, are what
\* the step before it left in the same tick; for the first step what came
\* into the group, in every tick.
StepsThreadTheBundle ==
    log # <<>> =>
      LET s      == group.steps[Newest.position]
          bundle == Threaded(Newest.tick)[Newest.position]
          Is(r, c) == \/ r = ThreadRoute[c]
                      \/ r \in DOMAIN s.surfaces /\ s.surfaces[r] = "input" /\ c = "image"
                      \/ r \in DOMAIN s.typed /\ s.typed[r] = c /\ bundle[c] # NoSurface
      IN  \A r \in DOMAIN Newest.sampled, c \in Components :
             Is(r, c) => Newest.sampled[r] = bundle[c]

\* selfTex is the result the step had in the previous tick, whichever pass
\* rendered it, and is cleared in the first tick.
FeedbackIsPreviousTick ==
    log # <<>> =>
      \A r \in DOMAIN Newest.sampled \cap {"selfTex", "feedback"} :
        Newest.sampled[r] = IF Newest.tick = 0 THEN Cleared
                            ELSE ResultOf(Newest.position, Newest.tick - 1)

\* What a group hands back is what its last tick ended with, and the executor
\* can publish it: an image or a volume that came in is kept or replaced, the
\* route says passthrough exactly for what came in unchanged, and no two
\* components are published over one route.
HandsBackLegalBundle ==
    phase = "done" =>
      /\ \E c \in Components : Has(carried, c)
      /\ \A c \in {"image", "volume"} : Has(input, c) => Has(carried, c)
      /\ \A c \in {x \in Components : Has(carried, x)} :
            /\ PassesThrough(carried[c].route) <=> carried[c].surface = Incoming(c)
            /\ \A d \in Components \ {c} :
                  Has(carried, d) => carried[c].route # carried[d].route
      /\ Ticks > 0 =>
            \A c \in Components :
              carried[c].surface = Threaded(Ticks - 1)[Len(group.steps) + 1][c]

\* A pass that renders particle state into several destinations does not find
\* them of different size if its step is alone or the particles have an owner:
\* every step of the group sizes the state by it, wherever in the group it is.
MrtDestinationsFit ==
    /\ phase = "pass" /\ HasPass
    /\ Len(group.steps) = 1 \/ \E p \in Positions : "global_xyz" \in group.steps[p].textures
    => ~Mismatched(ThePass)
=============================================================================
