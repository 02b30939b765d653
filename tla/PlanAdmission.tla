--------------------------- MODULE PlanAdmission ---------------------------
(***************************************************************************)
(* One chain of a plan, from the compiler to the end of its execution, at  *)
(* the level of what is there: an image, a volume, a geometry, a named     *)
(* surface, a route.  Three parts of the code look at the same chain.      *)
(*                                                                         *)
(*  compile_chain (dsl/compiler.cpp) refuses a chain by two static flags;  *)
(*  validate_plan_before_allocation (graph/executor.cpp) runs it dry,      *)
(*    step by step, before anything is allocated;                          *)
(*  execute runs it, group by group, in the arena.                         *)
(*                                                                         *)
(* Each keeps its own idea of the bundle.  The model runs them one after   *)
(* the other on the same chain, with the groups of IterationGroups, and    *)
(* the properties compare what they believe.  Other chains of the plan     *)
(* appear by the surfaces they have written and the routes they have left. *)
(***************************************************************************)
EXTENDS EffectCatalog

CONSTANTS
    Steps,          \* the steps a chain may have, parameters included
    MaxLength,      \* bound: steps of the chain
    ParticleState,  \* is_particle_state_name
    Written,        \* what earlier chains, or the caller, may have written
    Leftovers       \* what earlier chains may have left in the arena besides

\* scan: what IterationGroups sees of the step; names: the surfaces of a
\* built-in step; textures: every texture the effect declares; binding: what
\* each surface parameter is bound to; typed: its volume and geometry
\* parameters; zero: its iterationCount is 0; mesh: it has a mesh pass.
StepFields == {"kind", "names", "scan", "effect", "textures", "binding", "typed",
               "zero", "mesh", "arguments"}

\* A chain argument: what its read needs, what it writes on its way, and the
\* hidden surface it is published under.
ArgumentFields == {"reads", "writes", "publishes"}

ASSUME PlanStepsAssumption ==
    \A s \in Steps :
        /\ DOMAIN s = StepFields
        /\ s.kind \in {"read", "write", "read3d", "write3d", "effect"}
        /\ Len(s.effect.passes) \in Nat
        /\ s.scan.boundary <=> s.kind # "effect"
        /\ \A a \in {s.arguments[i] : i \in 1 .. Len(s.arguments)} : DOMAIN a = ArgumentFields

VARIABLES
    chain,      \* the compiled steps
    flags,      \* compile_chain's flags before each step and after the last
    groups, openGroup, openLoop, outcome,   \* of compute_iteration_groups
    phase,      \* "compile", "admit", "preflight", "execute", "done",
                \* "rejected" by the preflight or "failed" in execution
    at,         \* the step being preflighted, or the group being executed
    lacking,    \* what the step that ended it has not got
    dry,        \* the preflight's bundle, chain-wide producers and available
                \* routes, and what it believed after each step
    live        \* the bundle, the arena and the state of the running group

scanVars == <<groups, openGroup, openLoop, outcome>>
vars == <<chain, flags, scanVars, phase, at, lacking, dry, live>>

Scan == INSTANCE IterationGroups
          WITH Steps <- {s.scan : s \in Steps}, chain <- [i \in 1 .. Len(chain) |-> chain[i].scan]

\* The steps are steps of the scan.
ASSUME PlanScanAssumption == Scan!StepsAssumption /\ Scan!MaxLengthAssumption

Components == {"image", "volume", "geometry"}

EmptyBundle == [c \in Components |-> FALSE]

ImageOnly == [EmptyBundle EXCEPT !["image"] = TRUE]

IsEmpty(bundle) == \A c \in Components : ~bundle[c]

Init ==
    /\ chain = <<>>
    /\ flags = <<[image |-> FALSE, volume |-> FALSE, generator |-> FALSE, loop |-> FALSE]>>
    /\ Scan!Init
    /\ phase = "compile" /\ at = 1 /\ lacking = {}
    /\ \E written \in SUBSET Written, left \in {{}, Leftovers} :
         /\ dry = [bundle |-> EmptyBundle, produced |-> {}, available |-> written, log |-> <<>>]
         /\ live = [bundle |-> EmptyBundle, arena |-> written \cup left,
                    member |-> 0, carried |-> [c \in Components |-> NoRoute], shared |-> {}]

-----------------------------------------------------------------------------
\* compile_chain.

Flags == flags[Len(flags)]

IsFirst == chain = <<>>

\* has_input_texture
SamplesImage(s) == \E i \in 1 .. Len(s.effect.passes) : "inputTex" \in s.effect.passes[i].inputs

MayWrite == ~Flags.loop /\ Flags.image

\* Faulty variant: a write3d may stand inside a loop region.
MayWrite3DInLoop == ~IsFirst

MayWrite3D == ~Flags.loop /\ ~IsFirst

AcceptsEffect(s) ==
    CASE s.effect.domain = "volume-generator" -> IsFirst \/ (s.scan.iterated /\ Flags.volume)
      [] s.effect.domain \in {"volume-filter", "volume-renderer"} -> Flags.volume
      [] s.effect.domain = "loop-begin" -> Flags.image /\ ~Flags.loop
      [] s.effect.domain = "loop-end"   -> Flags.image /\ Flags.loop
      [] s.effect.domain = "image" /\ s.effect.opens -> IsFirst
      [] OTHER -> Flags.image \/ ~SamplesImage(s)

\* A program with a step that is not accepted has no plan.
Accepts(s) ==
    CASE s.kind \in {"read", "read3d"} -> IsFirst
      [] s.kind = "write"   -> MayWrite
      [] s.kind = "write3d" -> MayWrite3D
      [] OTHER -> AcceptsEffect(s)

FlagsAfter(s) ==
    LET domain     == s.effect.domain
        makesImage == s.kind = "effect" /\ domain \notin {"volume-generator", "volume-filter"}
    IN  [image     |-> Flags.image \/ s.kind = "read" \/ makesImage,
         volume    |-> Flags.volume \/ s.kind = "read3d" \/ domain = "volume-generator",
         generator |-> Flags.generator \/ (IsFirst /\ s.effect.opens),
         loop      |-> domain = "loop-begin" \/ (Flags.loop /\ domain # "loop-end")]

\* The scan takes the step as the compiler leaves it in the chain.
Scans(s) ==
    \/ Scan!LoopStep(s) \/ Scan!BoundaryStep(s) \/ Scan!UnmatchedEnd(s) \/ Scan!LoopBegins(s)
    \/ Scan!OpensParticles(s) \/ Scan!JoinStep(s) \/ Scan!FlowStep(s) \/ Scan!SingleStep(s)

CompileStep(s) ==
    /\ phase = "compile" /\ Len(chain) < MaxLength
    /\ Accepts(s)
    /\ chain' = Append(chain, s)
    /\ flags' = Append(flags, FlagsAfter(s))
    /\ Scans(s.scan)
    /\ UNCHANGED <<phase, at, lacking, dry, live>>

\* A chain that a generator opens has to end with a write.
EndCompile ==
    /\ phase = "compile" /\ ~IsFirst
    /\ ~Flags.loop
    /\ Flags.generator => chain[Len(chain)].kind \in {"write", "write3d"}
    /\ UNCHANGED <<chain, flags, at, lacking, dry, live>>
    /\ Scan!Finish
    /\ phase' = "admit"

-----------------------------------------------------------------------------
\* What a step has to find.

Need(what, present) == IF present THEN {} ELSE {what}

TheGroup(i) ==
    groups[CHOOSE k \in 1 .. Len(groups) :
             \E p \in 1 .. Len(groups[k].steps) : groups[k].steps[p] = i]

Passes(s) == 1 .. Len(s.effect.passes)

\* The passes that run, and what those before pass p publish.
Running(s) == {p \in Passes(s) : 0 \notin s.effect.passes[p].repeats}

OutputsBefore(s, p) ==
    UNION {Routes(s.effect.passes[q]) : q \in {x \in Running(s) : x < p}}

Outputs(s) == OutputsBefore(s, Len(s.effect.passes) + 1)

\* Of all definitions: the domain of an effect is that of its loop role, and
\* what opens a chain makes an image or a volume.  An effect that makes an
\* image publishes outputTex in a pass that always runs, and one that makes a
\* volume publishes it, or iterates and declares it.  Only iterated effects
\* have an iterationCount; of those an image effect samples its input or opens
\* a chain, and none renders a volume.  Particles are an image effect's,
\* noise3d is not iterated, and a built-in step has no definition.
ASSUME PlanCatalogAssumption ==
    \A s \in Steps :
        LET domain == s.effect.domain
        IN  /\ s.zero \in BOOLEAN /\ s.effect.opens \in BOOLEAN
            /\ s.scan \in Scan!StepType
            /\ domain \in {"image", "volume-generator", "volume-filter",
                          "volume-renderer", "loop-begin", "loop-end"}
            /\ s.effect.opens => domain \in {"image", "volume-generator"}
            /\ s.kind # "effect" => s.effect = NoEffect /\ ~s.scan.iterated
            /\ s.scan.role = "begin" <=> domain = "loop-begin"
            /\ s.scan.role = "end" <=> domain = "loop-end"
            /\ s.kind = "effect" /\ domain \notin {"volume-generator", "volume-filter"} =>
                  "outputTex" \in Outputs(s)
            /\ \/ domain # "volume-generator" /\ PassesThrough(s.effect.outputTex3d)
               \/ ~PassesThrough(s.effect.outputTex3d)
                    /\ \/ s.effect.outputTex3d \in Outputs(s)
                       \/ s.scan.iterated /\ s.effect.outputTex3d \in s.textures
            /\ s.zero => s.scan.iterated /\ domain # "volume-renderer"
                           /\ (domain = "image" => s.effect.opens \/ SamplesImage(s))
            /\ s.scan.declaresXyz => s.scan.iterated /\ domain = "image"
            /\ s.scan.id = "noise3d" => ~s.scan.iterated

\* initialized_declared_textures
ClearedTextures(s) == {s.effect.cleared[i] : i \in 1 .. Len(s.effect.cleared)}

\* The compiler guarantees an image to a loop region, and to an effect that
\* samples one and does not open the chain.
GuaranteedImage(s) ==
    \/ s.effect.domain \in {"loop-begin", "loop-end"}
    \/ s.effect.domain = "image" /\ ~s.effect.opens /\ SamplesImage(s)

\* The routes that stand for the image of the chain.
ImageRoutes(s) == {"inputTex"} \cup {r \in DOMAIN s.binding : s.binding[r] = "input"}

\* Of all definitions, as execution uses them.  No route has the name of a
\* surface, and outputTex is no texture and no parameter.  Some pass of every
\* effect runs.  A volume or a geometry that an effect makes is published by a
\* pass that always runs, or is a texture of its own that iteration keeps.  A
\* loop begins with an iterated step, and a step that ticks is not of no
\* ticks.  An effect that may find no image samples each parameter bound to
\* the chain, and none after a pass of its own has published one.
ASSUME PlanExecutionAssumption ==
    /\ NoRoute \notin {"inputTex", "inputTex3d", "inputGeo", "outputTex"}
    /\ Surfaces \cap Leftovers = {}
    /\ \A s \in Steps :
          /\ s.kind = "read3d" => s.names[2] \in Surfaces
          /\ \A r \in DOMAIN s.binding : s.binding[r] \in {"null", "input"} \cup Surfaces
          /\ Outputs(s) \cap Surfaces = {}
          /\ "outputTex" \notin s.textures \cup DOMAIN s.binding \cup DOMAIN s.typed
          /\ ClearedTextures(s) \subseteq s.textures
          /\ s.kind = "effect" => Running(s) # {}
          /\ \A name \in {s.effect.outputTex3d, s.effect.outputGeo} :
                \/ PassesThrough(name) \/ name \in Outputs(s)
                \/ s.scan.iterated /\ name \in s.textures \ ParticleState
          /\ s.effect.outputGeo \notin {"inputTex", "inputTex3d"}
          /\ s.scan.role = "begin" => s.scan.iterated
          /\ s.scan.ticks => ~s.zero
          /\ ~GuaranteedImage(s) =>
                /\ \A p \in Running(s) :
                      "outputTex" \in OutputsBefore(s, p) =>
                        s.effect.passes[p].inputs \cap ImageRoutes(s) = {}
                /\ \A r \in {x \in DOMAIN s.binding : s.binding[x] = "input"} :
                      \E p \in Running(s) : r \in s.effect.passes[p].inputs

\* What a sampler route lacks, for a pass that sees the bundle, the named
\* surfaces and the routes of a view.
Samples(s, r, view) ==
    IF r \in DOMAIN s.binding
    THEN CASE s.binding[r] = "null"  -> {}
           [] s.binding[r] = "input" -> Need("image", view.bundle["image"])
           [] OTHER -> Need("surface", s.binding[r] \in view.surfaces)
    ELSE CASE r = "inputTex"   -> Need("image", view.bundle["image"])
           [] r = "inputTex3d" -> Need("volume", view.bundle["volume"])
           [] r = "inputGeo"   -> Need("geometry", view.bundle["geometry"])
           [] OTHER -> Need("route", r \in view.routes)

ArgumentsOf(s) == {s.arguments[i] : i \in 1 .. Len(s.arguments)}

\* The surfaces that the arguments of a step publish.
Publishes(arguments) ==
    (UNION {{a.publishes, a.writes} : a \in arguments}) \ {NoRoute}

\* Arguments run in order: one may read what an earlier one wrote.
ArgumentsLack(arguments, available) ==
    UNION {IF arguments[i].reads = NoRoute THEN {}
           ELSE Need("surface", arguments[i].reads \in
                  available \cup Publishes({arguments[j] : j \in 1 .. i - 1})) :
             i \in 1 .. Len(arguments)}

\* A typed parameter is seeded from the bundle or sized by a declared output.
SeedsLack(s, bundle) ==
    UNION {LET out == IF s.typed[r] = "volume" THEN s.effect.outputTex3d ELSE s.effect.outputGeo
           IN  Need("route", bundle[s.typed[r]] \/ out \in s.textures) : r \in DOMAIN s.typed}

-----------------------------------------------------------------------------
\* validate_plan_before_allocation.

\* A GraphError ends the run of the plan.
End(result, missing) ==
    /\ phase' = result /\ lacking' = missing
    /\ UNCHANGED <<chain, flags, scanVars, at, dry, live>>

IteratesMesh ==
    \E i \in 1 .. Len(chain) : chain[i].mesh /\ TheGroup(i).iterated

\* The groups have to exist, and a mesh pass cannot be iterated.
Admit ==
    /\ phase = "admit"
    /\ IF outcome = "thrown" THEN End("rejected", {"groups"})
       ELSE IF IteratesMesh THEN End("rejected", {"mesh"})
       ELSE /\ phase' = "preflight"
            /\ UNCHANGED <<chain, flags, scanVars, at, lacking, dry, live>>

Believes(bundle, produced, available) ==
    /\ dry' = [bundle |-> bundle, produced |-> produced, available |-> available,
               log |-> Append(dry.log, [bundle |-> bundle, available |-> available])]
    /\ at' = at + 1
    /\ UNCHANGED <<chain, flags, scanVars, phase, lacking, live>>

InPreflight(kind) ==
    phase = "preflight" /\ at <= Len(chain) /\ chain[at].kind = kind

PreflightRead ==
    /\ InPreflight("read")
    /\ IF chain[at].names[1] \notin dry.available THEN End("rejected", {"surface"})
       ELSE Believes(ImageOnly, dry.produced, dry.available)

PreflightWrite ==
    /\ InPreflight("write")
    /\ IF ~dry.bundle["image"] THEN End("rejected", {"image"})
       ELSE Believes(dry.bundle, dry.produced, dry.available \cup {chain[at].names[1]})

\* What write3d stores of a bundle.
Stored(names, bundle) ==
    ((IF bundle["volume"] THEN {names[1]} ELSE {})
       \cup (IF bundle["geometry"] THEN {names[2]} ELSE {})) \ {NoRoute}

PreflightWrite3D ==
    /\ InPreflight("write3d")
    /\ Believes(dry.bundle, dry.produced,
                dry.available \cup Stored(chain[at].names, dry.bundle))

PreflightRead3D ==
    /\ InPreflight("read3d")
    /\ LET names == chain[at].names
       IN  IF names[1] \notin dry.available THEN End("rejected", {"surface"})
           ELSE Believes([image |-> FALSE, volume |-> TRUE,
                          geometry |-> names[2] \in dry.available],
                         dry.produced, dry.available)

\* What the preflight lets pass p of an effect sample.  A step of a group has
\* the routes of its own step and of the group; any other step those that an
\* earlier step of the chain, of whatever group, has produced.
PreflightView(s, g, p, available) ==
    [bundle   |-> [dry.bundle EXCEPT !["image"] = @ \/ "outputTex" \in OutputsBefore(s, p)],
     surfaces |-> available \cup (IF g.iterated THEN {} ELSE dry.produced \cup OutputsBefore(s, p)),
     routes   |-> OutputsBefore(s, p) \cup ClearedTextures(s) \cup
                    IF g.iterated
                    THEN s.textures \cup DOMAIN s.typed \cup ParticleState \cup
                           {"selfTex", "feedback"} \cup IF g.loop THEN {"global_accum"} ELSE {}
                    ELSE dry.produced \cup available]

PassesLack(s, g, available) ==
    UNION {UNION {Samples(s, r, PreflightView(s, g, p, available)) :
                    r \in s.effect.passes[p].inputs} : p \in Running(s)}

\* Faulty variant: chain arguments are not run dry.
PreflightLacksOwn(s, g, zero, available) ==
    IF zero THEN {}
    ELSE PassesLack(s, g, available) \cup (IF g.iterated THEN SeedsLack(s, dry.bundle) ELSE {})

PreflightLacks(s, g, zero, available) ==
    ArgumentsLack(s.arguments, dry.available) \cup
      IF zero THEN {}
      ELSE PassesLack(s, g, available) \cup (IF g.iterated THEN SeedsLack(s, dry.bundle) ELSE {})

\* Faulty variant: a group of no ticks starts no bundle.
PreflightZeroEmpty(s, isFront) == dry.bundle

\* A group of no ticks passes its bundle on, or starts one.
PreflightZero(s, isFront) ==
    IF ~isFront \/ ~IsEmpty(dry.bundle) THEN dry.bundle
    ELSE IF s.effect.domain = "volume-generator"
         THEN [image |-> FALSE, volume |-> TRUE, geometry |-> ~PassesThrough(s.effect.outputGeo)]
         ELSE ImageOnly

\* Faulty variant: the scratch of a group step is not counted.
BundleAfterWithoutScratch(s, g, available) ==
    LET known == dry.produced \cup Outputs(s) \cup available \cup ClearedTextures(s)
        After(name, c) == IF PassesThrough(name) THEN dry.bundle[c] ELSE name \in known
    IN  [image    |-> dry.bundle["image"] \/ "outputTex" \in Outputs(s),
         volume   |-> After(s.effect.outputTex3d, "volume"),
         geometry |-> After(s.effect.outputGeo, "geometry")]

\* bundle_available
BundleAfter(s, g, available) ==
    LET known == dry.produced \cup Outputs(s) \cup available \cup ClearedTextures(s)
                   \cup (IF g.iterated THEN s.textures ELSE {})
        After(name, c) == IF PassesThrough(name) THEN dry.bundle[c] ELSE name \in known
    IN  [image    |-> dry.bundle["image"] \/ "outputTex" \in Outputs(s),
         volume   |-> After(s.effect.outputTex3d, "volume"),
         geometry |-> After(s.effect.outputGeo, "geometry")]

PreflightEffect ==
    /\ InPreflight("effect")
    /\ LET s         == chain[at]
           g         == TheGroup(at)
           zero      == g.iterated /\ chain[g.steps[1]].zero
           available == dry.available \cup Publishes(ArgumentsOf(s))
           missing   == PreflightLacks(s, g, zero, available)
       IN  IF missing # {} THEN End("rejected", missing)
           ELSE IF zero THEN Believes(PreflightZero(s, at = g.steps[1]), dry.produced, available)
           ELSE Believes(BundleAfter(s, g, available), dry.produced \cup Outputs(s), available)

Admitted ==
    /\ phase = "preflight" /\ at > Len(chain)
    /\ phase' = "execute" /\ at' = 1
    /\ UNCHANGED <<chain, flags, scanVars, lacking, dry, live>>

-----------------------------------------------------------------------------
\* execute: a group at a time, in the arena.

Group == groups[at]
Front == chain[Group.steps[1]]

BetweenGroups == phase = "execute" /\ at <= Len(groups) /\ live.member = 0

\* The arguments of every step of a group run before its first step.
GroupArguments(members) == UNION {ArgumentsOf(chain[Group.steps[p]]) : p \in members}

Positions == 1 .. Len(Group.steps)

Arena == live.arena \cup Publishes(GroupArguments(Positions))

GroupArgumentsLack ==
    UNION {ArgumentsLack(chain[Group.steps[p]].arguments,
                         live.arena \cup Publishes(GroupArguments(1 .. p - 1))) : p \in Positions}

NoCarried == [c \in Components |-> NoRoute]

Leaves(bundle, arena) ==
    /\ live' = [bundle |-> bundle, arena |-> arena, member |-> 0,
                carried |-> NoCarried, shared |-> {}]
    /\ at' = at + 1
    /\ UNCHANGED <<chain, flags, scanVars, phase, lacking, dry>>

Executes(kind) == BetweenGroups /\ ~Group.iterated /\ Front.kind = kind

Read ==
    /\ Executes("read")
    /\ IF Front.names[1] \notin live.arena THEN End("failed", {"surface"})
       ELSE Leaves(ImageOnly, live.arena)

Write ==
    /\ Executes("write")
    /\ IF ~live.bundle["image"] THEN End("failed", {"image"})
       ELSE Leaves(live.bundle, live.arena \cup {Front.names[1]})

Write3D ==
    /\ Executes("write3d")
    /\ Leaves(live.bundle, live.arena \cup Stored(Front.names, live.bundle))

Read3D ==
    /\ Executes("read3d")
    /\ IF Front.names[1] \notin live.arena THEN End("failed", {"surface"})
       ELSE Leaves([image |-> FALSE, volume |-> TRUE, geometry |-> Front.names[2] \in live.arena],
                   live.arena)

\* validate_volume_output_shape and requires_output_image
OutputsLack(domain, bundle) ==
    Need("volume", RequiresOutputVolume(domain) => bundle["volume"])
      \cup Need("image", RequiresOutputImage(domain) => bundle["image"])

\* A step that is not iterated samples the arena.
RunEffect ==
    LET s        == Front
        named(p) == Arena \cup ClearedTextures(s) \cup OutputsBefore(s, p)
        missing  == ArgumentsLack(s.arguments, live.arena)
                      \cup UNION {UNION {Samples(s, r, [bundle   |-> live.bundle,
                                                        surfaces |-> named(p),
                                                        routes   |-> named(p)]) :
                                           r \in s.effect.passes[p].inputs} : p \in Running(s)}
        arena    == named(Len(s.effect.passes) + 1)
        After(name, c) == IF PassesThrough(name) THEN live.bundle[c] ELSE name \in arena
        bundle   == [image    |-> \/ live.bundle["image"]
                                  \/ "outputTex" \in Outputs(s)
                                  \/ ~IsVolumeDomain(s.effect.domain) /\ Running(s) # {},
                     volume   |-> After(s.effect.outputTex3d, "volume"),
                     geometry |-> After(s.effect.outputGeo, "geometry")]
    IN  /\ Executes("effect")
        /\ IF missing # {} THEN End("failed", missing)
           ELSE IF OutputsLack(s.effect.domain, bundle) # {}
                THEN End("failed", OutputsLack(s.effect.domain, bundle))
           ELSE Leaves(bundle, arena)

\* Publication of what a group hands back: a route for each component.
Publish(carried, arena) ==
    LET bundle  == [c \in Components |-> carried[c] # NoRoute]
        missing == Need("volume", RequiresOutputVolume(Front.effect.domain) => bundle["volume"])
    IN  IF missing # {} THEN End("failed", missing)
        ELSE Leaves(bundle, arena \cup {carried[c] : c \in {x \in Components :
                                                              ~PassesThrough(carried[x])}})

ThreadRoute == [image |-> "inputTex", volume |-> "inputTex3d", geometry |-> "inputGeo"]

Incoming == [c \in Components |-> IF live.bundle[c] THEN ThreadRoute[c] ELSE NoRoute]

\* Its first iterated step says how often a group runs.
TicksOwner ==
    LET iterated == {p \in 1 .. Len(Group.steps) : chain[Group.steps[p]].scan.iterated}
    IN  chain[Group.steps[IF iterated = {} THEN 1
                          ELSE CHOOSE p \in iterated : \A q \in iterated : p <= q]]

\* zero_iteration_group_output
ZeroOutput ==
    LET d == Front.effect
    IN  IF ~IsEmpty(live.bundle) THEN Incoming
        ELSE IF d.domain = "volume-generator"
        THEN [image |-> NoRoute, volume |-> d.outputTex3d,
              geometry |-> IF d.outputGeo = "inputGeo" THEN NoRoute ELSE d.outputGeo]
        ELSE [NoCarried EXCEPT !["image"] = "outputTex"]

GroupBegins ==
    /\ BetweenGroups /\ Group.iterated
    /\ IF GroupArgumentsLack # {} THEN End("failed", GroupArgumentsLack)
       ELSE IF TicksOwner.zero THEN Publish(ZeroOutput, Arena)
       ELSE IF Group.loop /\ ~live.bundle["image"] THEN End("failed", {"image"})
       ELSE /\ live' = [live EXCEPT !.arena = Arena, !.member = 1, !.carried = Incoming,
                                    !.shared = IF Group.loop THEN {"global_accum"} ELSE {}]
            /\ UNCHANGED <<chain, flags, scanVars, phase, at, lacking, dry>>

Present == [c \in Components |-> live.carried[c] # NoRoute]

\* seed_group_step_bindings: every surface parameter, sampled or not.
BindingsLack(s) ==
    UNION {CASE s.binding[r] = "null"  -> {}
             [] s.binding[r] = "input" -> Need("image", Present["image"])
             [] OTHER -> Need("surface", s.binding[r] \in live.arena) : r \in DOMAIN s.binding}

\* The routes that a step of a group resolves before its first pass.
OwnRoutes(s) ==
    {ThreadRoute[c] : c \in {x \in Components : Present[x]}}
      \cup DOMAIN s.binding \cup DOMAIN s.typed \cup (s.textures \ ParticleState)

GroupPassesLack(s) ==
    UNION {UNION {Samples(s, r, [bundle   |-> Present,
                                 surfaces |-> live.arena,
                                 routes   |-> OwnRoutes(s) \cup live.shared \cup ParticleState
                                                \cup {"selfTex", "feedback"}
                                                \cup OutputsBefore(s, p)]) :
                    r \in s.effect.passes[p].inputs} : p \in Running(s)}

\* A step of a group, in one tick.  The ticks after the first start from the
\* same bundle and keep what the group has, so that they lack nothing more.
GroupStep ==
    LET s       == chain[Group.steps[live.member]]
        own     == OwnRoutes(s) \cup Outputs(s)
        shared  == live.shared \cup (Outputs(s) \cap (ParticleState \cup {"global_accum"}))
        last    == CHOOSE p \in Running(s) : \A q \in Running(s) : q <= p
        outputs == s.effect.passes[last].outputs
        Selected(name, c) == IF PassesThrough(name) THEN live.carried[c]
                             ELSE IF name \in own \cup shared THEN name ELSE NoRoute
        next    == [image    |-> IF "outputTex" \in own THEN "outputTex"
                                 ELSE IF IsVolumeDomain(s.effect.domain) THEN live.carried["image"]
                                 ELSE outputs[Len(outputs)],
                    volume   |-> Selected(s.effect.outputTex3d, "volume"),
                    geometry |-> Selected(s.effect.outputGeo, "geometry")]
        missing == Need("mesh", ~s.mesh) \cup BindingsLack(s) \cup SeedsLack(s, Present)
                     \cup GroupPassesLack(s)
                     \cup Need("output", Running(s) # {} \/ "outputTex" \in own)
    IN  /\ phase = "execute" /\ live.member >= 1 /\ live.member <= Len(Group.steps)
        /\ IF missing # {} THEN End("failed", missing)
           ELSE LET short == OutputsLack(s.effect.domain, [c \in Components |-> next[c] # NoRoute])
                IN  IF short # {} THEN End("failed", short)
                    ELSE /\ live' = [live EXCEPT !.member = @ + 1, !.carried = next,
                                                 !.shared = shared]
                         /\ UNCHANGED <<chain, flags, scanVars, phase, at, lacking, dry>>

GroupEnds ==
    /\ phase = "execute" /\ at <= Len(groups) /\ live.member > Len(Group.steps)
    /\ Publish(live.carried, live.arena)

ChainEnds ==
    /\ phase = "execute" /\ at > Len(groups)
    /\ phase' = "done"
    /\ UNCHANGED <<chain, flags, scanVars, at, lacking, dry, live>>

Ended == phase \in {"done", "rejected", "failed"} /\ UNCHANGED vars

Next ==
    \/ \E s \in Steps : CompileStep(s)
    \/ EndCompile
    \/ Admit
    \/ PreflightRead \/ PreflightWrite \/ PreflightRead3D \/ PreflightWrite3D
    \/ PreflightEffect \/ Admitted
    \/ Read \/ Write \/ Read3D \/ Write3D \/ RunEffect
    \/ GroupBegins \/ GroupStep \/ GroupEnds
    \/ ChainEnds
    \/ Ended

Spec == Init /\ [][Next]_vars

-----------------------------------------------------------------------------

\* compile_chain and compute_iteration_groups each keep track of loop
\* regions, from different facts: a chain that the one accepts is one that
\* the other never throws for.
CompiledChainsGroup == outcome # "thrown"

\* The bundle the dry run believes in after step i is not poorer than the one
\* the compiler's flags promise there, whatever iterates and for no tick at
\* all: a step that was compiled because its chain has an image or a volume
\* is not refused for the lack of it.
FlagsAreKept ==
    \A i \in 1 .. Len(dry.log) :
        /\ flags[i + 1].image  => dry.log[i].bundle["image"]
        /\ flags[i + 1].volume => dry.log[i].bundle["volume"]

\* After every group the chain has the image, the volume and the geometry
\* that the dry run believed in, not one more and not one less, although the
\* dry run goes by steps and knows no group-shared state; and every surface
\* it counted on is in the arena.
DryRunMirrorsExecution ==
    phase = "execute" /\ live.member = 0 /\ at > 1 =>
      LET done     == groups[at - 1].steps
          believed == dry.log[done[Len(done)]]
      IN  /\ believed.bundle = live.bundle
          /\ believed.available \subseteq live.arena

\* Routes that a step of an iterated group publishes within its group.
GroupRoutes ==
    UNION {Outputs(chain[i]) : i \in {j \in 1 .. Len(chain) :
                                        chain[j].kind = "effect" /\ TheGroup(j).iterated}}

\* A step outside groups samples a route that only a group has.
SamplesGroupRoute ==
    /\ live.member = 0 /\ lacking = {"route"}
    /\ \E p \in Running(Front) : Front.effect.passes[p].inputs \cap (GroupRoutes \ Arena) # {}

\* A step of a group binds an unwritten surface that none of its passes samples.
BindsUnsampledSurface ==
    /\ live.member > 0 /\ lacking = {"surface"}
    /\ LET s == chain[Group.steps[live.member]]
       IN  \E r \in DOMAIN s.binding :
              /\ s.binding[r] \notin {"null", "input"} \cup live.arena
              /\ \A p \in Running(s) : r \notin s.effect.passes[p].inputs

\* Once admitted, a chain finds every input, surface and output it needs, but
\* for these two gaps of the dry run, which the next property is about.
AdmittedChainsRun ==
    phase = "failed" => SamplesGroupRoute \/ BindsUnsampledSurface

\* "The executor must complete its plan, input, route, ABI, and resource
\* preflight before it copies a caller surface or allocates a destination"
\* (tests/test_graph_features.cpp:25): no input is found missing afterwards.
AuthenticatesFirst == phase # "failed"
=============================================================================
