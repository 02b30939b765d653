--------------------------- MODULE GraphExecutor ---------------------------
(***************************************************************************)
(* GraphExecutor::execute of src/graph/executor.cpp over the arena: the    *)
(* recursive run_chain with its chain arguments, the built-in surface      *)
(* steps, an effect pass by pass with its pin, its borrows and its         *)
(* publications, iterated groups by what they hand back, and every way an  *)
(* execution can throw.                                                    *)
(*                                                                         *)
(* The program is not fixed in advance: at each step boundary the next     *)
(* step of the running chain is any one that a plan may have there.  The   *)
(* executor never looks ahead, so this covers every plan, within the       *)
(* bounds MaxLength, MaxArgument, MaxChains, Inlines and HoldNames.        *)
(***************************************************************************)
EXTENDS ArenaOperations, EffectCatalog

CONSTANTS
    Catalog,        \* the effect definitions a plan may use
    ChainSurfaces,  \* the image surfaces a program names: o0, o1, ...
    Inlines,        \* the hidden surfaces of chain arguments, in program order
    HoldNames,      \* the private hold names, in the order of their counter
    Seeds,          \* the surfaces a caller may seed, in order
    Volumes, Geometries, \* the surfaces read3d and write3d name: vol0, geo0
    GroupVolume, GroupGeometry, \* routes an iterated group publishes
    MaxLength,      \* bound: steps of the first chain of the plan, one less for each later one
    MaxArgument,    \* bound: steps of a chain argument
    MaxChains       \* bound: chains of the plan

VARIABLES
    arena,
    frames,   \* run_chain's locals, the running chain on top
    eff,      \* the locals of the effect block
    phase,    \* "chain": between steps; "effect": between passes; "pass":
              \* before the samplers of a repeat; "bound": after them;
              \* "done" and "failed"
    holds,    \* chain_argument_holds
    inlines,  \* chain arguments of the program so far
    chains    \* chains of the plan started so far

vars == <<arena, frames, eff, phase, holds, inlines, chains>>

Inline == {Inlines[i] : i \in 1 .. Len(Inlines)}

-----------------------------------------------------------------------------
\* What the executor relies on in a catalog.  Its effects keep raw pointers
\* to the incoming volume and geometry, which nothing pins: an effect must not
\* publish over a name they may have and use them afterwards.

PassDefinition ==
    [inputs : SUBSET STRING, outputs : Seq(Names) \ {<<>>},
     accumulates : BOOLEAN, repeats : SUBSET Nat]

EffectDefinition ==
    [domain : STRING, opens : BOOLEAN, cleared : Seq(Names),
     parameters : SUBSET STRING, passes : Seq(PassDefinition),
     outputTex3d : STRING, outputGeo : STRING]

\* What an effect publishes before its first pass, and by each pass.
Written(d, i) == IF i = 0 THEN {d.cleared[k] : k \in 1 .. Len(d.cleared)}
                          ELSE Routes(d.passes[i])

\* No pass that publishes outputTex runs, and pass i is the last that does.
MayRunLast(d, i) ==
    /\ "outputTex" \notin Routes(d.passes[i])
    /\ \A j \in 1 .. Len(d.passes) :
          j > i \/ "outputTex" \in Routes(d.passes[j]) => CanBeSkipped(d.passes[j])

\* The names under which a step leaves the components of the bundle.
ImageNames ==
    {"outputTex"} \cup ChainSurfaces
      \cup UNION {{LastSlot(d.passes[i]) : i \in {j \in 1 .. Len(d.passes) : MayRunLast(d, j)}} :
                    d \in {e \in Catalog : ~IsVolumeDomain(e.domain)}}

VolumeNames ==
    Volumes \cup {GroupVolume}
      \cup {d.outputTex3d : d \in {e \in Catalog : ~PassesThrough(e.outputTex3d)}}

GeometryNames ==
    Geometries \cup {GroupGeometry}
      \cup {d.outputGeo : d \in {e \in Catalog : ~PassesThrough(e.outputGeo)}}

\* A component of the bundle that comes in is neither sampled nor handed on
\* once the effect has published over a name it may have.
KeepsInput(d, input, output, names) ==
    \A i \in 0 .. Len(d.passes) :
        Written(d, i) \cap names # {} =>
          /\ ~PassesThrough(output)
          /\ \A j \in i + 1 .. Len(d.passes) : input \notin d.passes[j].inputs
          /\ i # 0 /\ input \in d.passes[i].inputs => d.passes[i].repeats \subseteq {0, 1}

ASSUME CatalogAssumption ==
    \A d \in Catalog :
      /\ d \in EffectDefinition
      /\ IsFiniteSet(d.parameters)
      /\ d.parameters \cap {"inputTex", "inputTex3d", "inputGeo", "destination"} = {}
      /\ \A i \in 1 .. Len(d.passes) :
            d.passes[i].inputs
              \subseteq Names \cup d.parameters \cup {"inputTex", "inputTex3d", "inputGeo"}
      /\ Written(d, 0) \cap ImageNames = {}
      /\ IsVolumeDomain(d.domain) =>
            \A i \in 1 .. Len(d.passes) : Written(d, i) \cap ImageNames \subseteq {"outputTex"}
      /\ KeepsInput(d, "inputTex3d", d.outputTex3d, VolumeNames)
      /\ KeepsInput(d, "inputGeo", d.outputGeo, GeometryNames)

\* No route, surface or bundle component shares its name with another kind;
\* the hold names are private to the executor.
ASSUME NamesAssumption ==
    /\ Surfaces \cup ImageNames \cup VolumeNames \cup GeometryNames \subseteq Names
    /\ ChainSurfaces \cup Volumes \cup Geometries \cup Inline \subseteq Surfaces
    /\ {Inlines, Seeds, HoldNames} \subseteq Seq(Names)
    /\ {"destination", "inputTex", "inputTex3d", "inputGeo"} \cap Names = {}
    /\ {"null", "input", "argument"} \cap Surfaces = {}
    /\ {GroupVolume, GroupGeometry} \cap {NoRoute, "none"} = {}
    /\ NoRoute \notin Names
    /\ ImageNames \cap VolumeNames = {}
    /\ ImageNames \cap GeometryNames = {}
    /\ VolumeNames \cap GeometryNames = {}
    /\ \A i, j \in 1 .. Len(HoldNames) : HoldNames[i] = HoldNames[j] => i = j
    /\ \A i \in 1 .. Len(HoldNames) :
          HoldNames[i] \notin
            Surfaces \cup ImageNames \cup VolumeNames \cup GeometryNames
              \cup {Seeds[k] : k \in 1 .. Len(Seeds)}
              \cup UNION {UNION {Written(d, k) : k \in 0 .. Len(d.passes)} : d \in Catalog}

\* The effect has certainly published the route before its pass i.
Own(d, i, route) ==
    \/ route \in Written(d, 0)
    \/ \E j \in 1 .. i - 1 : route \in Routes(d.passes[j]) /\ ~CanBeSkipped(d.passes[j])

\* What a step may publish a name with.  A pass that samples the route it
\* publishes throws until another has published it.
GroupNames == {"outputTex", GroupVolume, GroupGeometry}

KnownNames ==
    GroupNames \cup Surfaces
      \cup {Seeds[i] : i \in 1 .. Len(Seeds)} \cup {HoldNames[i] : i \in 1 .. Len(HoldNames)}
      \cup UNION {UNION {IF i = 0 THEN Written(d, 0)
                         ELSE Written(d, i) \ (d.passes[i].inputs \ d.parameters) :
                           i \in 0 .. Len(d.passes)} : d \in Catalog}

\* The arena has one namespace for the surfaces of the program and the routes
\* of all effects, and a route that an effect has left behind stays named.
\* What an effect looks up under a route is its own all the same: it has
\* published the route itself, or nothing ever does.
ASSUME SamplesAssumption ==
    /\ GroupNames \cap Surfaces = {}
    /\ \A d \in Catalog :
         /\ \A i \in 0 .. Len(d.passes) : Written(d, i) \cap Surfaces = {}
         /\ \A i \in 1 .. Len(d.passes) :
               LET routes == d.passes[i].inputs
                               \ (d.parameters \cup {"inputTex", "inputTex3d", "inputGeo"})
               IN  /\ \A r \in routes : Own(d, i, r) \/ r \notin KnownNames
                   /\ d.passes[i].accumulates => Own(d, i, d.passes[i].outputs[1])
         /\ \A r \in {d.outputTex3d, d.outputGeo} :
               PassesThrough(r) \/ Own(d, Len(d.passes) + 1, r)

\* Memory for one pointee per name, the pinned one, and what one step inserts.
ASSUME MemoryAssumption ==
    /\ IsFiniteSet(Names) /\ IsFiniteSet(Resources)
    /\ \A n \in {3, Len(Seeds)} \cup {Len(d.cleared) : d \in Catalog}
            \cup UNION {{Len(d.passes[i].outputs) : i \in 1 .. Len(d.passes)} : d \in Catalog} :
          Cardinality(Names) + 1 + n <= Cardinality(Resources)

-----------------------------------------------------------------------------

EmptyFrame ==
    [image |-> NoResource, volume |-> NoResource, geometry |-> NoResource,
     length |-> 0, waiting |-> <<>>]

\* A step that is about to run, with the chain arguments it still needs.
\* NoEffect stands for an iterated group; a catalog without it has none.
Waiting(d, binding, arguments) ==
    <<[definition |-> d, binding |-> binding, arguments |-> arguments]>>

IdleEffect ==
    [definition |-> NoEffect, binding |-> <<>>, next |-> 1, again |-> 0,
     input |-> NoResource, volume |-> NoResource, geometry |-> NoResource,
     output |-> NoResource, wroteOutputTex |-> FALSE,
     resolved |-> <<>>, published |-> {}]

Top == frames[Len(frames)]

SetTop(frame) == frames' = [frames EXCEPT ![Len(frames)] = frame]

ThePass == eff.definition.passes[eff.next]

HasPass == eff.next <= Len(eff.definition.passes)

-----------------------------------------------------------------------------
\* Arena calls in sequence.

\* k pointees that are not owned.  They are all taken before the first call,
\* so that nothing a call frees is reused within one step of the model.
FreshSequence(a, k) ==
    CHOOSE f \in [1 .. k -> Resources \ a.owned] :
        \A i, j \in 1 .. k : f[i] = f[j] => i = j

\* One insert per route, in order.
InsertEach(a, routes, new) ==
    LET after[i \in 0 .. Len(routes)] ==
          IF i = 0 THEN a ELSE Insert(after[i - 1], routes[i], new[i])
    IN  after[Len(routes)]

InsertAll(a, routes) == InsertEach(a, routes, FreshSequence(a, Len(routes)))

\* retain of each pointee of a set; their order is immaterial.
RetainAll(a, pointees) ==
    [a EXCEPT !.borrow = [r \in Resources |-> IF r \in pointees THEN a.borrow[r] + 1
                                                                ELSE a.borrow[r]]]

\* release of each pointee of a set: every one whose last binding goes and
\* that is retired is collected, whatever their order.
ReleaseAll(a, pointees) ==
    LET released  == [a EXCEPT !.borrow =
                        [r \in Resources |-> IF r \in pointees THEN a.borrow[r] - 1
                                                               ELSE a.borrow[r]]]
        collected == {r \in pointees : CollectRetired(released, r) # released}
    IN  [released EXCEPT !.owned = @ \ collected, !.retired = @ \ collected]

\* Faulty variant: the input is held by a binding, which keeps the pointee but
\* lets a publication retire it.
PinInputAsBinding(a, r) == IF r = NoResource THEN a ELSE Retain(a, r)

\* ScopedPin's constructor and destructor: a null resource is a no-op.
PinInput(a, r)   == IF r = NoResource THEN a ELSE Pin(a, r)
UnpinInput(a, r) == IF r = NoResource THEN a ELSE Unpin(a, r)

\* The hold lambda: an alias under the next private name; find then returns
\* the same pointee.
Hold(a, r, k) == IF r = NoResource THEN a ELSE Alias(a, HoldNames[k + 1], r)

Held(r) == IF r = NoResource THEN 0 ELSE 1

\* Faulty variants: nothing is held; the geometry is not.
HoldBundleForgotten(a, frame) == a
HoldBundleWithoutGeometry(a, frame) ==
    Hold(Hold(a, frame.image, holds), frame.volume, holds + Held(frame.image))

HoldBundle(a, frame) ==
    LET k1 == holds + Held(frame.image)
        k2 == k1 + Held(frame.volume)
    IN  Hold(Hold(Hold(a, frame.image, holds), frame.volume, k1), frame.geometry, k2)

HoldsOf(frame) == Held(frame.image) + Held(frame.volume) + Held(frame.geometry)

-----------------------------------------------------------------------------

\* A throw unwinds every frame: the borrows are released by release_borrowed,
\* the pin by its destructor.
Borrowed == {eff.resolved[r] : r \in DOMAIN eff.resolved \ {"destination"}} \ {NoResource}

\* Faulty variant: the throw skips release_borrowed.
ThrowKeepsBindings ==
    /\ arena' = IF phase = "chain" THEN arena ELSE UnpinInput(arena, eff.input)
    /\ frames' = <<EmptyFrame>>
    /\ eff' = IdleEffect
    /\ phase' = "failed"
    /\ UNCHANGED <<holds, inlines, chains>>

Throw ==
    /\ arena' = IF phase = "chain" THEN arena
                ELSE UnpinInput(ReleaseAll(arena, Borrowed), eff.input)
    /\ frames' = <<EmptyFrame>>
    /\ eff' = IdleEffect
    /\ phase' = "failed"
    /\ UNCHANGED <<holds, inlines, chains>>

\* The seed surfaces are copied in under their names before any chain runs.
Init ==
    /\ \E k \in 0 .. Len(Seeds) : arena = InsertAll(EmptyArena, SubSeq(Seeds, 1, k))
    /\ frames = <<EmptyFrame>>
    /\ eff = IdleEffect
    /\ phase = "chain"
    /\ holds = 0 /\ inlines = 0 /\ chains = 1

-----------------------------------------------------------------------------
\* The next step of the running chain.

AtStep ==
    /\ phase = "chain" /\ Top.waiting = <<>>
    /\ Top.length < IF Len(frames) = 1 THEN MaxLength - (chains - 1) ELSE MaxArgument

AtEnd == phase = "chain" /\ Top.waiting = <<>> /\ Top.length # 0

Advanced(frame) == [frame EXCEPT !.length = @ + 1]

\* run_chain for the next chain of the plan.
NextChain ==
    /\ AtEnd /\ Len(frames) = 1 /\ chains < MaxChains
    /\ frames' = <<EmptyFrame>>
    /\ chains' = chains + 1
    /\ UNCHANGED <<arena, eff, phase, holds, inlines>>

\* read and read3d: only as the first step of a chain (compile_chain).
ReadStep(s) ==
    /\ AtStep /\ Top.length = 0
    /\ IF Find(arena, s) = NoResource THEN Throw
       ELSE /\ SetTop(Advanced([EmptyFrame EXCEPT !.image = Find(arena, s)]))
            /\ UNCHANGED <<arena, eff, phase, holds, inlines, chains>>

Read3DStep(v, g) ==
    /\ AtStep /\ Top.length = 0
    /\ IF Find(arena, v) = NoResource THEN Throw
       ELSE /\ SetTop(Advanced([EmptyFrame EXCEPT !.volume = Find(arena, v),
                                                  !.geometry = Find(arena, g)]))
            /\ UNCHANGED <<arena, eff, phase, holds, inlines, chains>>

WriteStep(s) ==
    /\ AtStep /\ Top.length # 0
    /\ IF Top.image = NoResource THEN Throw
       ELSE /\ arena' = Alias(arena, s, Top.image)
            /\ SetTop(Advanced(Top))
            /\ UNCHANGED <<eff, phase, holds, inlines, chains>>

\* write3d: NoRoute stands for `none`.
AliasBundle(a, name, r) ==
    IF name = NoRoute \/ r = NoResource THEN a ELSE Alias(a, name, r)

Write3DStep(v, g) ==
    /\ AtStep /\ Top.length # 0
    /\ arena' = AliasBundle(AliasBundle(arena, v, Top.volume), g, Top.geometry)
    /\ SetTop(Advanced(Top))
    /\ UNCHANGED <<eff, phase, holds, inlines, chains>>

\* An effect, or an iterated group, is next.  Its surface parameters are
\* bound; a chain argument is bound to its own hidden surface.
MayFollow(d) == IF Top.length # 0 THEN ~d.opens ELSE d.opens \/ d = NoEffect

BindingsOf(d) ==
    [IF d = NoEffect THEN {"source"} ELSE d.parameters
       -> {"null", "input", "argument"} \cup ChainSurfaces]

Orders(set) ==
    {f \in [1 .. Cardinality(set) -> set] : {f[i] : i \in DOMAIN f} = set}

\* With chain arguments the bundle is held first, and the chain of the first
\* argument starts with an empty bundle of its own.
StepArrives(d, chosen, order) ==
    LET n         == Cardinality(DOMAIN order)
        arguments == [i \in 1 .. n |-> Inlines[inlines + i]]
        binding   == [p \in DOMAIN chosen |->
                        IF chosen[p] # "argument" THEN chosen[p]
                        ELSE arguments[CHOOSE i \in 1 .. n : order[i] = p]]
        waiting   == [Advanced(Top) EXCEPT !.waiting = Waiting(d, binding, arguments)]
        suspended == [frames EXCEPT ![Len(frames)] = waiting]
    IN  /\ AtStep /\ MayFollow(d)
        /\ inlines + n <= Len(Inlines)
        /\ n # 0 => holds + HoldsOf(Top) <= Len(HoldNames)
        /\ inlines' = inlines + n
        /\ IF n = 0
           THEN frames' = suspended /\ UNCHANGED <<arena, holds>>
           ELSE /\ arena' = HoldBundle(arena, Top)
                /\ holds' = holds + HoldsOf(Top)
                /\ frames' = Append(suspended, EmptyFrame)
        /\ UNCHANGED <<eff, phase, chains>>

ChooseStep ==
    \E d \in Catalog : \E chosen \in BindingsOf(d) :
      \E order \in Orders({p \in DOMAIN chosen : chosen[p] = "argument"}) :
        StepArrives(d, chosen, order)

\* The chain of an argument ends: its image is published under the surface
\* the suspended step binds, and the next argument starts, or the step.
ArgumentEnds ==
    /\ AtEnd /\ Len(frames) > 1
    /\ IF Top.image = NoResource THEN Throw
       ELSE LET outer     == SubSeq(frames, 1, Len(frames) - 1)
                pending   == outer[Len(outer)].waiting[1]
                remaining == Tail(pending.arguments)
                resumed   == [outer EXCEPT ![Len(outer)].waiting[1].arguments = remaining]
            IN  /\ arena' = Alias(arena, Head(pending.arguments), Top.image)
                /\ frames' = IF remaining = <<>> THEN resumed
                                                ELSE Append(resumed, EmptyFrame)
                /\ UNCHANGED <<eff, phase, holds, inlines, chains>>

Ready == phase = "chain" /\ Top.waiting # <<>> /\ Top.waiting[1].arguments = <<>>

-----------------------------------------------------------------------------
\* An iterated group, by the GroupPublishResult it hands back: for each
\* component nothing, the group's own input, or a new surface.

PublishGroup(a, image, volume, geometry) ==
    LET New(name) == IF name = "none" \/ PassesThrough(name) THEN <<>> ELSE <<name>>
    IN  InsertAll(a, New(image) \o New(volume) \o New(geometry))

Component(a, name, input) ==
    IF name = "none" THEN NoResource
    ELSE IF PassesThrough(name) THEN input ELSE Find(a, name)

IteratedGroup(image, volume, geometry) ==
    LET published == PublishGroup(arena, image, volume, geometry)
    IN  /\ Ready /\ Top.waiting[1].definition = NoEffect
        /\ {image, volume, geometry} # {"none"}
        \* an image that came in is kept or replaced, never dropped
        /\ image = "inputTex" => Top.image # NoResource
        /\ image = "none" => Top.image = NoResource
        /\ volume = "inputTex3d" <=> Top.volume # NoResource /\ volume # GroupVolume
        /\ geometry = "inputGeo" => Top.geometry # NoResource
        /\ arena' = published
        /\ SetTop([image    |-> Component(published, image, Top.image),
                   volume   |-> Component(published, volume, Top.volume),
                   geometry |-> Component(published, geometry, Top.geometry),
                   length |-> Top.length, waiting |-> <<>>])
        /\ UNCHANGED <<eff, phase, holds, inlines, chains>>

IteratedGroupStep ==
    \E image \in {"none", "inputTex", "outputTex"},
       volume \in {"none", "inputTex3d", GroupVolume},
       geometry \in {"none", "inputGeo", GroupGeometry} :
          IteratedGroup(image, volume, geometry)

-----------------------------------------------------------------------------
\* The effect block.

\* The input is pinned, then every declared texture that needs it is cleared.
EffectBegins ==
    /\ Ready /\ Top.waiting[1].definition # NoEffect
    /\ LET d == Top.waiting[1].definition
       IN  /\ arena' = InsertAll(PinInput(arena, Top.image), d.cleared)
           /\ eff' = [IdleEffect EXCEPT
                         !.definition = d, !.binding = Top.waiting[1].binding,
                         !.input = Top.image, !.output = Top.image,
                         !.volume = Top.volume, !.geometry = Top.geometry,
                         !.published = {d.cleared[i] : i \in 1 .. Len(d.cleared)}]
    /\ phase' = "effect"
    /\ UNCHANGED <<frames, holds, inlines, chains>>

\* pass_enabled and pass_repeat.
PassBegins ==
    /\ phase = "effect" /\ HasPass
    /\ \E n \in ThePass.repeats :
         IF n = 0 THEN eff' = [eff EXCEPT !.next = @ + 1] /\ UNCHANGED phase
                  ELSE eff' = [eff EXCEPT !.again = n] /\ phase' = "pass"
    /\ UNCHANGED <<arena, frames, holds, inlines, chains>>

\* Faulty variant: the implicit input is looked up by the route it was
\* published under, at each pass.
ResolveRouteByName(route) ==
    LET bound == eff.binding[route]
    IN  CASE IsNull(eff.definition, eff.binding, route) -> NoResource
          [] route \in eff.definition.parameters /\ bound \in Surfaces ->
               Find(arena, bound)
          [] route = "inputTex"   -> Find(arena, "outputTex")
          [] route = "inputTex3d" -> eff.volume
          [] route = "inputGeo"   -> eff.geometry
          [] OTHER -> Find(arena, route)

\* resolve_route
ResolveRoute(route) ==
    LET bound == eff.binding[route]
    IN  CASE IsNull(eff.definition, eff.binding, route) -> NoResource
          [] route \in eff.definition.parameters /\ bound \in Surfaces ->
               Find(arena, bound)
          [] route \in eff.definition.parameters /\ bound = "input" -> eff.input
          [] route = "inputTex"   -> eff.input
          [] route = "inputTex3d" -> eff.volume
          [] route = "inputGeo"   -> eff.geometry
          [] OTHER -> Find(arena, route)

IsResolved(route) ==
    ResolveRoute(route) # NoResource \/ IsNull(eff.definition, eff.binding, route)

\* Every sampler route is resolved and retained once before the kernel runs;
\* the first that resolves to nothing throws.
SamplersBound ==
    /\ phase = "pass"
    /\ IF \A r \in ThePass.inputs : IsResolved(r)
       THEN LET resolved == [r \in Sampled(ThePass) |->
                               IF r = "destination" THEN Find(arena, ThePass.outputs[1])
                                                    ELSE ResolveRoute(r)]
                borrowed == {resolved[r] : r \in ThePass.inputs} \ {NoResource}
            IN  /\ eff' = [eff EXCEPT !.resolved = resolved]
                /\ arena' = RetainAll(arena, borrowed)
                /\ phase' = "bound"
                /\ UNCHANGED <<frames, holds, inlines, chains>>
       ELSE Throw

\* The kernel has run off-route: its outputs are inserted in slot order, then
\* release_borrowed.  The pass repeats, or the next one is due.
PassPublishes ==
    /\ phase = "bound"
    /\ LET published == InsertAll(arena, ThePass.outputs)
       IN  /\ arena' = ReleaseAll(published, Borrowed)
           /\ eff' = [eff EXCEPT
                         !.output = Find(published, LastSlot(ThePass)),
                         !.wroteOutputTex = @ \/ "outputTex" \in Routes(ThePass),
                         !.published = @ \cup Routes(ThePass),
                         !.resolved = <<>>,
                         !.again = @ - 1,
                         !.next = IF eff.again = 1 THEN @ + 1 ELSE @]
    /\ phase' = IF eff.again = 1 THEN "effect" ELSE "pass"
    /\ UNCHANGED <<frames, holds, inlines, chains>>

\* What may throw for reasons the arena does not see: an iterated group, the
\* extent of a declared texture, pass_enabled and pass_repeat, the kernel's
\* factory, its run, quantization, and the shape of the volume left behind.
StepFails == (Ready \/ phase \in {"effect", "bound"}) /\ Throw

\* resolve_bundle_output
BundleOutput(name, input) ==
    IF PassesThrough(name) THEN input ELSE Find(arena, name)

\* Faulty variant: a volume effect hands on its last slot as the image.
ImageOutputLastSlot ==
    IF eff.wroteOutputTex THEN Find(arena, "outputTex") ELSE eff.output

ImageOutput ==
    IF eff.wroteOutputTex THEN Find(arena, "outputTex")
    ELSE IF IsVolumeDomain(eff.definition.domain) THEN eff.input ELSE eff.output

\* The bundle of the next step; the pin ends with the scope.
EffectEnds ==
    LET d        == eff.definition
        volume   == BundleOutput(d.outputTex3d, eff.volume)
        geometry == BundleOutput(d.outputGeo, eff.geometry)
    IN  /\ phase = "effect" /\ ~HasPass
        /\ IF \/ RequiresOutputImage(d.domain) /\ ImageOutput = NoResource
              \/ RequiresOutputVolume(d.domain) /\ volume = NoResource
           THEN Throw
           ELSE /\ SetTop([image |-> ImageOutput, volume |-> volume,
                           geometry |-> geometry, length |-> Top.length, waiting |-> <<>>])
                /\ arena' = UnpinInput(arena, eff.input)
                /\ eff' = IdleEffect
                /\ phase' = "chain"
                /\ UNCHANGED <<holds, inlines, chains>>

\* After the last chain: the render surface is cloned out, or is missing.
Finish(s) ==
    /\ AtEnd /\ Len(frames) = 1
    /\ IF Find(arena, s) = NoResource THEN Throw
       ELSE /\ phase' = "done"
            /\ UNCHANGED <<arena, frames, eff, holds, inlines, chains>>

Ended == phase \in {"done", "failed"} /\ UNCHANGED vars

Next ==
    \/ NextChain \/ ChooseStep \/ ArgumentEnds \/ IteratedGroupStep
    \/ \E s \in ChainSurfaces : ReadStep(s) \/ WriteStep(s) \/ Finish(s)
    \/ \E v \in Volumes, g \in Geometries : Read3DStep(v, g)
    \/ \E v \in Volumes \cup {NoRoute}, g \in Geometries \cup {NoRoute} : Write3DStep(v, g)
    \/ EffectBegins \/ PassBegins \/ SamplersBound \/ PassPublishes
    \/ EffectEnds \/ StepFails
    \/ Ended

Spec == Init /\ [][Next]_vars

-----------------------------------------------------------------------------

\* A pass still to come samples the route.
StillSampled(route) ==
    \E i \in eff.next .. Len(eff.definition.passes) :
        route \in eff.definition.passes[i].inputs

\* The raw pointers that the code may still dereference: the bundles of the
\* suspended chains and of the running one, and within an effect its input,
\* the incoming volume and geometry while a pass or an output needs them, and
\* the output the next step will take.
LivePointers ==
    LET inEffect == phase \in {"effect", "pass", "bound"}
        bundles  == {frames[i] : i \in 1 .. Len(frames) - IF inEffect THEN 1 ELSE 0}
        locals   ==
          {eff.input}
          \cup (IF StillSampled("inputTex3d") \/ PassesThrough(eff.definition.outputTex3d)
                THEN {eff.volume} ELSE {})
          \cup (IF StillSampled("inputGeo") \/ PassesThrough(eff.definition.outputGeo)
                THEN {eff.geometry} ELSE {})
          \cup (IF HasPass \/ eff.wroteOutputTex \/ IsVolumeDomain(eff.definition.domain)
                THEN {} ELSE {eff.output})
    IN  ((UNION {{f.image, f.volume, f.geometry} : f \in bundles})
         \cup (IF inEffect THEN locals ELSE {})) \ {NoResource}

\* No pointer the executor keeps across arena calls dangles: whatever a pass,
\* a chain argument or an iterated group publishes over the routes of a
\* pending bundle, its pointees stay owned (hold, effect_input_pin).
NoDanglingPointer == LivePointers \subseteq arena.owned

\* ... nor is any of them retired, which would make the retain of the next
\* pass or the alias of the next write throw std::logic_error past the
\* executor's own error handling.
LivePointersAreBindable == LivePointers \cap arena.retired = {}

\* retain and pin balance on every path, thrown ones included: between two
\* repeats nothing is borrowed, outside an effect nothing is pinned.
HoldersBalance ==
    \A r \in Resources :
      /\ arena.borrow[r] = IF phase = "bound" /\ r \in Borrowed THEN 1 ELSE 0
      /\ arena.pin[r] = IF phase \in {"effect", "pass", "bound"} /\ r = eff.input
                        THEN 1 ELSE 0

\* Outside an effect the arena holds one pointee per distinct named resource
\* and nothing else, however many passes, repeats and arguments have run:
\* what a route publication superseded is gone.
NothingLingers ==
    phase \in {"chain", "done", "failed"} =>
        arena.owned = {Find(arena, n) : n \in Names} \ {NoResource}

-----------------------------------------------------------------------------
\* The execution implements the value semantics of ChainSemantics: a pointee
\* is the value it was rendered with; the map of an effect is what the arena
\* names under the routes the effect has published so far.

AbstractPhase ==
    CASE phase = "pass"  -> "effect"
      [] phase = "bound" -> "pass"
      [] OTHER           -> phase

AbstractSurfaces == [s \in Surfaces |-> Find(arena, s)]

Bundle(frame) ==
    [image |-> frame.image, volume |-> frame.volume, geometry |-> frame.geometry]

AbstractStack == [i \in 1 .. Len(frames) |-> Bundle(frames[i])]

AbstractEffect ==
    [definition |-> eff.definition, binding |-> eff.binding, next |-> eff.next,
     map |-> [r \in eff.published |-> Find(arena, r)], output |-> eff.output]

Semantics == INSTANCE ChainSemantics WITH
    Values   <- Resources,
    NoValue  <- NoResource,
    surfaces <- AbstractSurfaces,
    stack    <- AbstractStack,
    effect   <- AbstractEffect,
    reads    <- eff.resolved,
    phase    <- AbstractPhase

\* Every pass samples, and every step hands on, exactly the surfaces that the
\* value semantics gives: sharing one arena namespace between effects, chains
\* and chain arguments, and recycling storage, are invisible.
ImplementsValueSemantics == Semantics!Spec
=============================================================================
