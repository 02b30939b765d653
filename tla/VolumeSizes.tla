---------------------------- MODULE VolumeSizes ----------------------------
(***************************************************************************)
(* The extent of volume atlases.  A volume of side n is stored as an atlas *)
(* of n x n^2 pixels.  Three places have to agree on n: the atlas itself,  *)
(* the size that a chain threads beside it (current_volume_size), and the  *)
(* volumeSize parameter an effect runs with, which run_chain and           *)
(* run_iterated_group of src/graph/executor.cpp overwrite from the atlas   *)
(* that comes in.  The rules are those of src/graph/chain_bundle.cpp; the  *)
(* limit is that of src/surface.cpp.                                       *)
(*                                                                         *)
(* The chain is any sequence of Groups and surface steps: the executor     *)
(* never looks ahead.                                                      *)
(***************************************************************************)
EXTENDS Integers, Sequences

CONSTANTS
    Groups,    \* the groups compute_iteration_groups may hand over
    Volumes,   \* the names of read3d and write3d: vol0, ...
    Seeds,     \* the extents of surfaces a caller may seed under these names
    MaxPixels, \* kMaxSurfacePixels
    Word       \* size_t counts modulo Word

\* A caller seeds surfaces of any extent; a missing surface is NoExtent, an
\* empty std::optional<double> is NoSize.
NoExtent == [width |-> 0, height |-> 0]
NoSize   == 0

Atlas(n) == [width |-> n, height |-> n * n]

WellFormed(extent) == extent = Atlas(extent.width)

\* channel_count: no product is formed before the guard has passed.
WithinLimit(width, height) == height <= MaxPixels \div width

\* What a Surface may have, NoExtent for none.
Extent ==
    {e \in [width : 1 .. MaxPixels, height : 1 .. MaxPixels] : WithinLimit(e.width, e.height)}
      \cup {NoExtent}

VolumeDomains == {"volume-generator", "volume-filter", "volume-renderer"}

\* is_volume_domain
IsVolumeDomain(domain) == domain \notin {"image", "loop-begin", "loop-end"}

\* output: how the route outputTex3d is rendered, or "input" for a route
\* that hands the input through; samples: the bundle components its passes
\* need; image: whether a pass writes the image.
EffectType ==
    [domain  : VolumeDomains \cup {"image", "loop-begin", "loop-end"},
     output  : {"input", "parameter extent", "input extent"},
     samples : SUBSET {"image", "volume"},
     image   : BOOLEAN]

\* size: the normalized parameter volumeSize, or NoSize for an effect that
\* declares none.
StepType  == [effect : EffectType, size : 0 .. MaxPixels]
GroupType == [steps : Seq(StepType), iterated : BOOLEAN, loop : BOOLEAN, ticks : Nat]

\* What the catalog and the dry run guarantee of every step.
Admitted(step) ==
    LET e == step.effect IN
    /\ IsVolumeDomain(e.domain) <=> step.size # NoSize
    /\ step.size # NoSize => WithinLimit(step.size, step.size * step.size)
    /\ e.domain \in {"volume-filter", "volume-renderer"} => "volume" \in e.samples
    /\ e.output = "parameter extent" <=> e.domain = "volume-generator"
    /\ e.output = "input extent" <=> e.domain = "volume-filter"

ASSUME SizesAssumption ==
    /\ MaxPixels \in Nat \ {0} /\ Word \in Nat /\ MaxPixels * MaxPixels < Word
    /\ Seeds \subseteq Extent
    /\ Groups \subseteq GroupType
ASSUME GroupsAssumption ==
    \A g \in Groups : g.steps # <<>> /\ \A i \in 1 .. Len(g.steps) : Admitted(g.steps[i])

VARIABLES
    bundle,  \* current, current_volume and current_volume_size
    stored,  \* the extent of the surface under each name
    run,     \* the locals of run_iterated_group
    phase,   \* "chain", "group" or "failed"
    last     \* history: the effect that ran last, or why the chain failed

vars == <<bundle, stored, run, phase, last>>

EmptyBundle == [image |-> FALSE, volume |-> NoExtent, size |-> NoSize]

Idle == [group |-> <<>>, sizes |-> <<>>, tick |-> 0, position |-> 1, carried |-> EmptyBundle]

\* What an effect ran with: its domain, its volumeSize, the volumes that came
\* in and out, and the volume the group it belongs to began with.
Ran(domain, size, input, output, outer) ==
    [domain |-> domain, size |-> size, input |-> input, output |-> output,
     outer |-> outer, failure |-> "none"]

Init ==
    /\ bundle = EmptyBundle
    /\ stored \in [Volumes -> Seeds \cup {NoExtent}]
    /\ run = Idle
    /\ phase = "chain"
    /\ last = Ran("image", NoSize, NoExtent, NoExtent, NoExtent)

Fail(failure) ==
    /\ phase' = "failed"
    /\ last' = [last EXCEPT !.failure = failure]
    /\ run' = Idle
    /\ UNCHANGED <<bundle, stored>>

-----------------------------------------------------------------------------
\* src/graph/chain_bundle.cpp

\* inherit_volume_size applies to a step that declares volumeSize and has a
\* volume coming in; all volume domains do, and no other.
Inherits(step, input) ==
    input # NoExtent /\ step.size # NoSize /\ step.effect.domain \in VolumeDomains

\* Faulty variant: any height passes.
MalformedUnchecked(step, input) == FALSE

Malformed(step, input) ==
    Inherits(step, input) /\ input.height # (input.width * input.width) % Word

\* Faulty variant: a declared size stands.
InheritedSizeKept(step, input) == step.size

InheritedSize(step, input) == IF Inherits(step, input) THEN input.width ELSE step.size

\* Faulty variant: the parameter of a renderer goes before the input's size.
ResolvedSizeOwnFirst(domain, own, incoming, width) ==
    IF own # NoSize THEN own
    ELSE IF domain # "volume-generator" /\ incoming # NoSize THEN incoming
    ELSE width

\* resolve_volume_size
ResolvedSize(domain, own, incoming, width) ==
    IF domain # "volume-generator" /\ incoming # NoSize THEN incoming
    ELSE IF own # NoSize THEN own
    ELSE width

\* validate_volume_output_shape
ShapeFailure(domain, produced, size) ==
    IF IsVolumeDomain(domain) /\ domain # "volume-renderer" /\ produced = NoExtent
    THEN "no volume"
    ELSE IF /\ produced # NoExtent /\ domain \in {"volume-generator", "volume-filter"}
            /\ produced # Atlas(size)
    THEN "shape"
    ELSE "none"

-----------------------------------------------------------------------------
\* One effect, run with volumeSize n on the bundle b.

\* The destination of the pass that renders outputTex3d: the viewport of a
\* filter asks for the extent of its input volume.
Produced(effect, n, b) ==
    IF effect.output = "input" \/ (effect.output = "input extent" /\ b.volume # NoExtent)
    THEN b.volume ELSE Atlas(n)

\* A volume effect that writes no image hands the input image on.
After(effect, n, b) ==
    LET produced == Produced(effect, n, b) IN
    [image  |-> IF IsVolumeDomain(effect.domain) THEN effect.image \/ b.image ELSE TRUE,
     volume |-> produced,
     size   |-> ResolvedSize(effect.domain, n, b.size, produced.width)]

Unbound(effect, b) ==
    \/ "image" \in effect.samples /\ ~b.image
    \/ "volume" \in effect.samples /\ b.volume = NoExtent

\* The first check that fails, in the order of the code.
Failure(effect, n, b) ==
    LET after == After(effect, n, b)
    IN  IF Unbound(effect, b) THEN "unbound"
        ELSE IF effect.output = "parameter extent" /\ ~WithinLimit(n, n * n) THEN "limit"
        ELSE IF ShapeFailure(effect.domain, after.volume, after.size) # "none"
        THEN ShapeFailure(effect.domain, after.volume, after.size)
        ELSE IF ~after.image /\ effect.domain \notin {"volume-generator", "volume-filter"}
        THEN "no image"
        ELSE "none"

-----------------------------------------------------------------------------
\* The chain.

\* Faulty variant: a read leaves the size of the chain's last volume behind.
ReadKeepingSize ==
    /\ phase = "chain"
    /\ bundle' = [image |-> TRUE, volume |-> NoExtent, size |-> bundle.size]
    /\ UNCHANGED <<stored, run, phase, last>>

\* read, of an image surface.
Read ==
    /\ phase = "chain"
    /\ bundle' = [image |-> TRUE, volume |-> NoExtent, size |-> NoSize]
    /\ UNCHANGED <<stored, run, phase, last>>

Read3D(v) ==
    /\ phase = "chain"
    /\ IF stored[v] = NoExtent THEN Fail("unbound")
       ELSE /\ bundle' = [image |-> FALSE, volume |-> stored[v], size |-> stored[v].width]
            /\ UNCHANGED <<stored, run, phase, last>>

Write3D(v) ==
    /\ phase = "chain"
    /\ stored' = IF bundle.volume = NoExtent THEN stored
                 ELSE [stored EXCEPT ![v] = bundle.volume]
    /\ UNCHANGED <<bundle, run, phase, last>>

NextChain ==
    /\ phase = "chain"
    /\ bundle' = EmptyBundle
    /\ UNCHANGED <<stored, run, phase, last>>

\* An effect in a group of its own that is not iterated.
SingleStep(g) ==
    /\ phase = "chain" /\ ~g.iterated
    /\ LET step == g.steps[1]
           n    == InheritedSize(step, bundle.volume)
       IN  IF Malformed(step, bundle.volume) THEN Fail("malformed")
           ELSE IF Failure(step.effect, n, bundle) # "none" THEN Fail(Failure(step.effect, n, bundle))
           ELSE /\ bundle' = After(step.effect, n, bundle)
                /\ last' = Ran(step.effect.domain, n, bundle.volume, bundle'.volume, bundle.volume)
                /\ UNCHANGED <<stored, run, phase>>

\* What run_chain does with the bundle that a group hands back.  The domain
\* that the check goes by is that of the first step.
Publish(g, result) ==
    LET domain == g.steps[1].effect.domain
        size   == IF result.size # NoSize THEN result.size
                  ELSE ResolvedSize(domain, NoSize, bundle.size, result.volume.width)
    IN  IF ShapeFailure(domain, result.volume, size) # "none"
        THEN Fail(ShapeFailure(domain, result.volume, size))
        ELSE /\ bundle' = [result EXCEPT !.size = IF result.volume = NoExtent THEN NoSize ELSE size]
             /\ run' = Idle /\ phase' = "chain"
             /\ UNCHANGED <<stored, last>>

\* zero_iteration_group_output: the bundle goes through without its size; at
\* the start of a chain a generator leaves a cleared atlas of the declared
\* size, any other step a cleared image.
ZeroTicks(g) ==
    /\ phase = "chain" /\ g.iterated /\ g.ticks = 0
    /\ Publish(g,
         IF bundle.image \/ bundle.volume # NoExtent THEN [bundle EXCEPT !.size = NoSize]
         ELSE IF g.steps[1].effect.domain = "volume-generator"
         THEN [image |-> FALSE, volume |-> Atlas(g.steps[1].size), size |-> NoSize]
         ELSE [image |-> TRUE, volume |-> NoExtent, size |-> NoSize])

\* Every tick of a group starts from what came in.
Incoming == [bundle EXCEPT !.size = bundle.volume.width]

\* The sizes are inherited once, from the volume that comes into the group.
GroupBegins(g) ==
    /\ phase = "chain" /\ g.iterated /\ g.ticks > 0
    /\ IF g.loop /\ ~bundle.image THEN Fail("unbound")
       ELSE IF \E i \in 1 .. Len(g.steps) : Malformed(g.steps[i], bundle.volume)
       THEN Fail("malformed")
       ELSE /\ run' = [group |-> <<g>>, tick |-> 1, position |-> 1, carried |-> Incoming,
                       sizes |-> [i \in 1 .. Len(g.steps) |->
                                    InheritedSize(g.steps[i], bundle.volume)]]
            /\ phase' = "group"
            /\ UNCHANGED <<bundle, stored, last>>

Running == run.group[1]

GroupStep ==
    /\ phase = "group" /\ run.position <= Len(Running.steps)
    /\ LET effect == Running.steps[run.position].effect
           n      == run.sizes[run.position]
       IN  IF Failure(effect, n, run.carried) # "none" THEN Fail(Failure(effect, n, run.carried))
           ELSE /\ run' = [run EXCEPT !.carried = After(effect, n, run.carried),
                                      !.position = @ + 1]
                /\ last' = Ran(effect.domain, n, run.carried.volume, run'.carried.volume,
                               bundle.volume)
                /\ UNCHANGED <<bundle, stored, phase>>

\* Faulty variant: one tick more than the group has.
NextTickOnceMore ==
    /\ phase = "group" /\ run.position > Len(Running.steps) /\ run.tick <= Running.ticks
    /\ run' = [run EXCEPT !.tick = @ + 1, !.position = 1, !.carried = Incoming]
    /\ UNCHANGED <<bundle, stored, phase, last>>

NextTick ==
    /\ phase = "group" /\ run.position > Len(Running.steps) /\ run.tick < Running.ticks
    /\ run' = [run EXCEPT !.tick = @ + 1, !.position = 1, !.carried = Incoming]
    /\ UNCHANGED <<bundle, stored, phase, last>>

GroupEnds ==
    /\ phase = "group" /\ run.position > Len(Running.steps) /\ run.tick = Running.ticks
    /\ Publish(Running, run.carried)

Next ==
    \/ Read \/ NextChain
    \/ \E v \in Volumes : Read3D(v) \/ Write3D(v)
    \/ \E g \in Groups : SingleStep(g) \/ ZeroTicks(g) \/ GroupBegins(g)
    \/ GroupStep \/ NextTick \/ GroupEnds
    \/ phase = "failed" /\ UNCHANGED vars

Spec == Init /\ [][Next]_vars

-----------------------------------------------------------------------------

BundleType == [image : BOOLEAN, volume : Extent, size : 0 .. MaxPixels]

\* Every variable has its type; the extents are all within the limit.
TypeOK ==
    /\ bundle \in BundleType
    /\ stored \in [Volumes -> Extent]
    /\ phase \in {"chain", "group", "failed"}
    /\ run.carried \in BundleType
    /\ phase = "group" =>
         /\ \E g \in Groups : run.group = <<g>> /\ run.sizes \in [1 .. Len(g.steps) -> 0 .. MaxPixels]
         /\ run.tick \in 1 .. Running.ticks
         /\ run.position \in 1 .. Len(Running.steps) + 1
    /\ last.input \in Extent /\ last.output \in Extent /\ last.outer \in Extent

\* The threaded size never parts from the atlas beside it, whichever of the
\* places that set it did so: an effect, a group, read3d or the end of either.
ThreadedSizeIsWidth ==
    /\ bundle.size = bundle.volume.width
    /\ run.carried.size = run.carried.volume.width

\* No volume effect runs on an atlas that is not n x n^2, although a caller
\* can seed one under the name of a volume and read3d takes any.
RunsOnWellFormed ==
    last.input # NoExtent /\ IsVolumeDomain(last.domain) => WellFormed(last.input)

\* Every volume effect runs with the size of the atlas it samples, except in
\* a group that no volume came into.
FollowsInput ==
    last.input # NoExtent /\ IsVolumeDomain(last.domain)
      => last.size = last.input.width \/ last.outer = NoExtent

\* What the program rendered itself is never rejected: the sizes the dry run
\* admitted suffice for the inherited ones, and the shape check fails only on
\* a malformed atlas that the caller seeded.
RejectsOnlyMalformed ==
    /\ last.failure # "limit"
    /\ last.failure = "shape" => ~WellFormed(bundle.volume)

\* inheritVolumeSize runs before every step, grouped or not
\* (chain-bundle-volume-geometry-threading.md:29-37).
EveryStepFollowsInput ==
    last.input # NoExtent /\ IsVolumeDomain(last.domain) => last.size = last.input.width
=============================================================================
