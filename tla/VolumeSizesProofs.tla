------------------------- MODULE VolumeSizesProofs -------------------------
(***************************************************************************)
(* The agreement of atlas, threaded size and parameter, for any catalog of *)
(* groups, any seeded surfaces and any limit whose square a size_t holds.  *)
(***************************************************************************)
EXTENDS VolumeSizes, TLAPS

-----------------------------------------------------------------------------
\* Arithmetic of the limit.

\* channel_count: the guard, a division, passes an extent exactly when its
\* product is within the limit, although it forms no product.
LEMMA GuardIsExact ==
    ASSUME NEW w \in Nat \ {0}, NEW h \in Nat
    PROVE  WithinLimit(w, h) <=> w * h <= MaxPixels
<1> DEFINE q == MaxPixels \div w
           r == MaxPixels % w
<1>1. MaxPixels \in Nat \ {0}
  BY SizesAssumption
<1>2. q \in Nat /\ r \in 0 .. w - 1 /\ MaxPixels = w * q + r
  BY <1>1
<1>3. ASSUME h <= q
      PROVE  w * h <= MaxPixels
  <2>1. w * h <= w * q
    BY <1>2, <1>3
  <2> QED
    BY <1>2, <2>1
<1>4. ASSUME h > q
      PROVE  w * h > MaxPixels
  <2>1. w * h >= w * (q + 1)
    BY <1>2, <1>4
  <2>2. w * (q + 1) = w * q + w
    BY <1>2
  <2> QED
    BY <1>2, <2>1, <2>2
<1>5. w * h \in Nat
  OBVIOUS
<1> QED
  BY <1>1, <1>2, <1>3, <1>4, <1>5 DEF WithinLimit

\* inherit_volume_size squares a width without a guard of its own.
LEMMA SquareDoesNotWrap ==
    ASSUME NEW w \in 0 .. MaxPixels
    PROVE  (w * w) % Word = w * w
<1>1. MaxPixels \in Nat /\ Word \in Nat /\ MaxPixels * MaxPixels < Word
  BY SizesAssumption
<1>2. w * w \in Nat /\ w * w <= MaxPixels * MaxPixels /\ MaxPixels * MaxPixels \in Nat
  BY <1>1
<1>3. w * w < Word
  BY <1>1, <1>2
<1> QED
  BY <1>1, <1>2, <1>3

LEMMA ExtentFacts ==
    ASSUME NEW e \in Extent
    PROVE  /\ e = [width |-> e.width, height |-> e.height]
           /\ e.width \in 0 .. MaxPixels /\ e.height \in 0 .. MaxPixels
           /\ e = NoExtent <=> e.width = NoSize
           /\ e # NoExtent => e.width \in Nat \ {0} /\ e.height \in Nat \ {0}
           /\ e # NoExtent => WithinLimit(e.width, e.height)
BY SizesAssumption DEF Extent, NoExtent, NoSize

LEMMA AtlasFacts ==
    ASSUME NEW n \in 1 .. MaxPixels, WithinLimit(n, n * n)
    PROVE  /\ Atlas(n) \in Extent /\ Atlas(n) # NoExtent
           /\ Atlas(n).width = n /\ Atlas(n).height = n * n
           /\ WellFormed(Atlas(n))
<1>1. n * n \in Nat \ {0}
  BY SizesAssumption
<1>2. n * n <= MaxPixels
  BY <1>1, SizesAssumption, GuardIsExact
<1> QED
  BY <1>1, <1>2, SizesAssumption DEF Atlas, Extent, NoExtent, WellFormed

LEMMA NoExtentFacts ==
    NoExtent \in Extent /\ NoExtent.width = NoSize /\ WellFormed(NoExtent)
BY DEF NoExtent, Extent, NoSize, WellFormed, Atlas

\* The check of inherit_volume_size, its square included, is exact.
LEMMA MalformedIsExact ==
    ASSUME NEW e \in Extent, NEW step \in StepType, Inherits(step, e), ~Malformed(step, e)
    PROVE  WellFormed(e)
<1>1. e.height = (e.width * e.width) % Word
  BY DEF Malformed
<1>2. e.height = e.width * e.width
  BY <1>1, ExtentFacts, SquareDoesNotWrap
<1> QED
  BY <1>2, ExtentFacts DEF WellFormed, Atlas

-----------------------------------------------------------------------------
\* One effect.

LEMMA DomainFacts ==
    ASSUME NEW effect \in EffectType
    PROVE  IsVolumeDomain(effect.domain) <=> effect.domain \in VolumeDomains
BY DEF EffectType, IsVolumeDomain, VolumeDomains

\* An effect that runs on a bundle whose size and atlas agree leaves one whose
\* size and atlas agree, and neither the limit nor the shape check rejects it.
LEMMA EffectCorrect ==
    ASSUME NEW step \in StepType, Admitted(step),
           NEW n \in 0 .. MaxPixels, n # NoSize => WithinLimit(n, n * n),
           IsVolumeDomain(step.effect.domain) <=> n # NoSize,
           NEW b \in BundleType, b.size = b.volume.width,
           b.volume # NoExtent /\ IsVolumeDomain(step.effect.domain) => WellFormed(b.volume)
    PROVE  LET after == After(step.effect, n, b)
               f     == Failure(step.effect, n, b)
           IN  /\ f \notin {"limit", "shape"}
               /\ f = "none" =>
                    /\ after \in BundleType /\ after.size = after.volume.width
                    /\ WellFormed(b.volume) => WellFormed(after.volume)
                    /\ WellFormed(b.volume) /\ b.volume # NoExtent
                         /\ (n # NoSize => n = b.volume.width) => after.volume = b.volume
                    /\ ~IsVolumeDomain(step.effect.domain) => after.volume = b.volume
<1> DEFINE e == step.effect
           after == After(e, n, b)
           f == Failure(e, n, b)
<1>1. /\ e \in EffectType /\ b.volume \in Extent /\ b.image \in BOOLEAN
      /\ b.size \in 0 .. MaxPixels
  BY DEF StepType, BundleType
<1>2. /\ after.volume = Produced(e, n, b)
      /\ after.size = ResolvedSize(e.domain, n, b.size, Produced(e, n, b).width)
      /\ after.image = IF IsVolumeDomain(e.domain) THEN e.image \/ b.image ELSE TRUE
      /\ after = [image |-> after.image, volume |-> after.volume, size |-> after.size]
  BY DEF After
<1>3. after.image \in BOOLEAN
  BY <1>1, <1>2 DEF EffectType
<1>4. CASE e.domain = "volume-generator"
  <2>1. n \in 1 .. MaxPixels /\ WithinLimit(n, n * n)
    BY <1>4, <1>1, DomainFacts, SizesAssumption DEF VolumeDomains, NoSize
  <2>2. Produced(e, n, b) = Atlas(n)
    BY <1>4 DEF Admitted, Produced
  <2>3. after.volume = Atlas(n) /\ after.size = n
    BY <1>2, <1>4, <2>1, <2>2 DEF ResolvedSize, NoSize
  <2>4. f \notin {"limit", "shape"}
    BY <2>1, <2>3 DEF Failure, ShapeFailure
  <2>5. after \in BundleType /\ after.size = after.volume.width /\ WellFormed(after.volume)
    BY <1>2, <1>3, <2>1, <2>3, AtlasFacts DEF BundleType
  <2>6. ASSUME WellFormed(b.volume), n = b.volume.width PROVE after.volume = b.volume
    BY <2>3, <2>6 DEF WellFormed
  <2> QED
    BY <1>1, <1>4, <2>1, <2>4, <2>5, <2>6, DomainFacts DEF NoSize, VolumeDomains
<1>5. CASE e.domain # "volume-generator" /\ ~Unbound(e, b)
  <2>1. after.volume = b.volume
    <3>1. CASE e.domain = "volume-filter"
      BY <1>2, <1>5, <3>1 DEF Admitted, Produced, Unbound
    <3>2. CASE e.domain # "volume-filter"
      BY <1>1, <1>2, <1>5, <3>2 DEF Admitted, Produced, EffectType
    <3> QED
      BY <3>1, <3>2
  <2>2. after.size = b.volume.width
    <3>1. CASE b.volume # NoExtent
      BY <1>1, <1>2, <1>5, <2>1, <3>1, ExtentFacts DEF ResolvedSize
    <3>2. CASE b.volume = NoExtent
      <4>1. n = NoSize \/ e.domain \in {"volume-filter", "volume-renderer"}
        BY <1>1, <1>5, DomainFacts DEF VolumeDomains
      <4>2. n = NoSize
        BY <1>5, <3>2, <4>1 DEF Admitted, Unbound
      <4> QED
        BY <1>2, <2>1, <3>2, <4>2, NoExtentFacts DEF ResolvedSize
    <3> QED
      BY <3>1, <3>2
  <2>3. f \notin {"limit", "shape"}
    <3>1. e.output # "parameter extent"
      BY <1>5 DEF Admitted
    <3>2. ShapeFailure(e.domain, after.volume, after.size) \notin {"limit", "shape"}
      BY <1>1, <1>5, <2>1, <2>2, DomainFacts DEF ShapeFailure, WellFormed, VolumeDomains
    <3> QED
      BY <1>5, <3>1, <3>2 DEF Failure
  <2> QED
    BY <1>1, <1>2, <1>3, <2>1, <2>2, <2>3 DEF BundleType
<1>6. CASE Unbound(e, b)
  BY <1>6 DEF Failure
<1> QED
  BY <1>4, <1>5, <1>6

-----------------------------------------------------------------------------
\* The inductive invariant.

\* The volume that a group carries is the one it began with, or, where it began
\* with none, one that its own generator rendered.
Follows(volume, outer) == IF outer # NoExtent THEN volume = outer ELSE WellFormed(volume)

\* The history and the locals of the group keep their shape.
Shapes ==
    /\ run = [group |-> run.group, sizes |-> run.sizes, tick |-> run.tick,
              position |-> run.position, carried |-> run.carried]
    /\ last = [domain |-> last.domain, size |-> last.size, input |-> last.input,
               output |-> last.output, outer |-> last.outer, failure |-> last.failure]
    /\ phase # "failed" => last.failure = "none"

\* What a running group has inherited.
GroupSizes ==
    phase = "group" =>
      /\ \A i \in 1 .. Len(Running.steps) :
            /\ ~Malformed(Running.steps[i], bundle.volume)
            /\ run.sizes[i] = InheritedSize(Running.steps[i], bundle.volume)
      /\ Follows(run.carried.volume, bundle.volume)

Inv ==
    /\ TypeOK
    /\ Shapes
    /\ ThreadedSizeIsWidth
    /\ RunsOnWellFormed
    /\ FollowsInput
    /\ RejectsOnlyMalformed
    /\ GroupSizes

-----------------------------------------------------------------------------
\* Groups and their steps.

LEMMA GroupFacts ==
    ASSUME NEW g \in Groups
    PROVE  /\ Len(g.steps) \in Nat /\ 1 \in 1 .. Len(g.steps) /\ g.ticks \in Nat
           /\ \A i \in 1 .. Len(g.steps) : g.steps[i] \in StepType /\ Admitted(g.steps[i])
<1>1. g \in GroupType
  BY SizesAssumption
<1>2. g.steps \in Seq(StepType) /\ g.ticks \in Nat /\ g.steps # <<>>
  BY <1>1, GroupsAssumption DEF GroupType
<1>3. Len(g.steps) \in Nat /\ Len(g.steps) # 0
  BY <1>2
<1> QED
  BY <1>2, <1>3, GroupsAssumption

\* The size a step inherits from the volume outer that came into its chain or
\* its group is one its own destinations admit.
LEMMA InheritedFacts ==
    ASSUME NEW step \in StepType, Admitted(step), NEW outer \in Extent, ~Malformed(step, outer)
    PROVE  LET n == InheritedSize(step, outer)
           IN  /\ n \in 0 .. MaxPixels
               /\ n # NoSize => WithinLimit(n, n * n)
               /\ IsVolumeDomain(step.effect.domain) <=> n # NoSize
               /\ outer # NoExtent /\ IsVolumeDomain(step.effect.domain)
                    => WellFormed(outer) /\ n = outer.width
<1> DEFINE n == InheritedSize(step, outer)
<1>1. step.size \in 0 .. MaxPixels /\ step.effect \in EffectType
  BY DEF StepType
<1>2. CASE Inherits(step, outer)
  <2>1. n = outer.width /\ outer # NoExtent /\ IsVolumeDomain(step.effect.domain)
    BY <1>1, <1>2, DomainFacts DEF InheritedSize, Inherits
  <2>2. WellFormed(outer)
    BY <1>2, MalformedIsExact
  <2>3. outer.height = outer.width * outer.width
    BY <2>2 DEF WellFormed, Atlas
  <2> QED
    BY <2>1, <2>2, <2>3, ExtentFacts
<1>3. CASE ~Inherits(step, outer)
  <2>1. n = step.size
    BY <1>3 DEF InheritedSize
  <2>2. ~(outer # NoExtent /\ IsVolumeDomain(step.effect.domain))
    BY <1>1, <1>3, DomainFacts DEF Inherits, Admitted
  <2> QED
    BY <1>1, <2>1, <2>2 DEF Admitted
<1> QED
  BY <1>2, <1>3

\* A step that runs on a bundle which follows outer, with the size inherited
\* from outer, samples a well-formed atlas and leaves a bundle that follows it.
LEMMA StepCorrect ==
    ASSUME NEW step \in StepType, Admitted(step), NEW outer \in Extent, ~Malformed(step, outer),
           NEW b \in BundleType, b.size = b.volume.width, Follows(b.volume, outer)
    PROVE  LET n     == InheritedSize(step, outer)
               after == After(step.effect, n, b)
               f     == Failure(step.effect, n, b)
           IN  /\ f \notin {"limit", "shape"}
               /\ f = "none" =>
                    /\ after \in BundleType /\ after.size = after.volume.width
                    /\ Follows(after.volume, outer)
               /\ b.volume # NoExtent /\ IsVolumeDomain(step.effect.domain)
                    => WellFormed(b.volume) /\ (n = b.volume.width \/ outer = NoExtent)
<1> DEFINE n     == InheritedSize(step, outer)
           after == After(step.effect, n, b)
           f     == Failure(step.effect, n, b)
<1>1. /\ n \in 0 .. MaxPixels
      /\ n # NoSize => WithinLimit(n, n * n)
      /\ IsVolumeDomain(step.effect.domain) <=> n # NoSize
      /\ outer # NoExtent /\ IsVolumeDomain(step.effect.domain)
           => WellFormed(outer) /\ n = outer.width
  BY InheritedFacts
<1>2. b.volume # NoExtent /\ IsVolumeDomain(step.effect.domain)
        => WellFormed(b.volume) /\ (n = b.volume.width \/ outer = NoExtent)
  BY <1>1 DEF Follows
<1> HIDE DEF n
<1>3. /\ f \notin {"limit", "shape"}
      /\ f = "none" =>
           /\ after \in BundleType /\ after.size = after.volume.width
           /\ WellFormed(b.volume) => WellFormed(after.volume)
           /\ WellFormed(b.volume) /\ b.volume # NoExtent
                /\ (n # NoSize => n = b.volume.width) => after.volume = b.volume
           /\ ~IsVolumeDomain(step.effect.domain) => after.volume = b.volume
  BY <1>1, <1>2, EffectCorrect
<1>4. f = "none" => Follows(after.volume, outer)
  <2>1. CASE outer = NoExtent
    BY <1>3, <2>1 DEF Follows
  <2>2. CASE outer # NoExtent
    BY <1>1, <1>2, <1>3, <2>2 DEF Follows
  <2> QED
    BY <2>1, <2>2
<1> QED
  BY <1>2, <1>3, <1>4 DEF n

-----------------------------------------------------------------------------
\* Every step of the chain keeps the invariant.

LEMMA InitInv == Init => Inv
<1> SUFFICES ASSUME Init PROVE Inv
  OBVIOUS
<1>1. EmptyBundle \in BundleType /\ EmptyBundle.size = EmptyBundle.volume.width
  BY NoExtentFacts, SizesAssumption DEF EmptyBundle, BundleType, NoSize
<1>2. stored \in [Volumes -> Extent]
  BY NoExtentFacts, SizesAssumption DEF Init
<1>3. TypeOK
  BY <1>1, <1>2, NoExtentFacts DEF Init, TypeOK, Idle, Ran
<1> QED
  BY <1>1, <1>3, NoExtentFacts
  DEF Init, Inv, Shapes, ThreadedSizeIsWidth, RunsOnWellFormed, FollowsInput,
      RejectsOnlyMalformed, GroupSizes, Idle, Ran, EmptyBundle

LEMMA IdleFacts ==
    Idle.carried \in BundleType /\ Idle.carried.size = Idle.carried.volume.width
BY NoExtentFacts, SizesAssumption DEF Idle, EmptyBundle, BundleType, NoSize

\* A failure that is neither of the limit nor of a shape keeps the invariant,
\* and so does one of a shape where the volume that came in is malformed.
LEMMA FailCorrect ==
    ASSUME Inv, NEW failure, Fail(failure), failure # "limit",
           failure = "shape" => ~WellFormed(bundle.volume)
    PROVE  Inv'
<1>1. /\ phase' = "failed" /\ run' = Idle /\ bundle' = bundle /\ stored' = stored
      /\ last'.domain = last.domain /\ last'.size = last.size /\ last'.input = last.input
      /\ last'.output = last.output /\ last'.outer = last.outer
      /\ last'.failure = failure
      /\ last' = [domain |-> last.domain, size |-> last.size, input |-> last.input,
                  output |-> last.output, outer |-> last.outer, failure |-> failure]
  BY DEF Fail, Inv, Shapes
<1>2. TypeOK'
  BY <1>1, IdleFacts DEF Inv, TypeOK
<1>3. Shapes' /\ ThreadedSizeIsWidth' /\ RunsOnWellFormed' /\ FollowsInput' /\ GroupSizes'
  BY <1>1, IdleFacts
  DEF Inv, Shapes, ThreadedSizeIsWidth, RunsOnWellFormed, FollowsInput, GroupSizes, Idle
<1>4. RejectsOnlyMalformed'
  BY <1>1 DEF RejectsOnlyMalformed
<1> QED
  BY <1>2, <1>3, <1>4 DEF Inv

\* A step of the chain that only sets the bundle, to one whose size is the
\* width of its atlas.
LEMMA SetBundleCorrect ==
    ASSUME Inv, phase = "chain", phase' = "chain", UNCHANGED <<stored, last>>,
           run' = run \/ run' = Idle,
           bundle' \in BundleType, bundle'.size = bundle'.volume.width
    PROVE  Inv'
BY IdleFacts
DEF Inv, TypeOK, Shapes, ThreadedSizeIsWidth, RunsOnWellFormed, FollowsInput,
    RejectsOnlyMalformed, GroupSizes, Idle

LEMMA ReadCorrect == Inv /\ Read => Inv'
<1> SUFFICES ASSUME Inv, Read PROVE Inv'
  OBVIOUS
<1>1. bundle' \in BundleType /\ bundle'.size = bundle'.volume.width
  BY NoExtentFacts, SizesAssumption DEF Read, BundleType, NoSize
<1> QED
  BY <1>1, SetBundleCorrect DEF Read

LEMMA NextChainCorrect == Inv /\ NextChain => Inv'
<1> SUFFICES ASSUME Inv, NextChain PROVE Inv'
  OBVIOUS
<1>1. bundle' \in BundleType /\ bundle'.size = bundle'.volume.width
  BY NoExtentFacts, SizesAssumption DEF NextChain, EmptyBundle, BundleType, NoSize
<1> QED
  BY <1>1, SetBundleCorrect DEF NextChain

LEMMA Read3DCorrect == ASSUME Inv, NEW v \in Volumes, Read3D(v) PROVE Inv'
<1>1. CASE stored[v] = NoExtent
  BY <1>1, FailCorrect DEF Read3D
<1>2. CASE stored[v] # NoExtent
  <2>1. stored[v] \in Extent
    BY DEF Inv, TypeOK
  <2>2. bundle' = [image |-> FALSE, volume |-> stored[v], size |-> stored[v].width]
    BY <1>2 DEF Read3D
  <2>3. bundle' \in BundleType /\ bundle'.size = bundle'.volume.width
    BY <2>1, <2>2, ExtentFacts DEF BundleType
  <2> QED
    BY <1>2, <2>3, SetBundleCorrect DEF Read3D
<1> QED
  BY <1>1, <1>2

LEMMA Write3DCorrect == ASSUME Inv, NEW v \in Volumes, Write3D(v) PROVE Inv'
<1>1. stored' \in [Volumes -> Extent]
  BY DEF Write3D, Inv, TypeOK, BundleType
<1> QED
  BY <1>1
  DEF Write3D, Inv, TypeOK, Shapes, ThreadedSizeIsWidth, RunsOnWellFormed, FollowsInput,
      RejectsOnlyMalformed, GroupSizes

\* What an effect leaves in the history, wherever it ran.
LEMMA HistoryCorrect ==
    ASSUME NEW step \in StepType, NEW n, NEW in \in Extent, NEW out \in Extent,
           NEW outer \in Extent, last' = Ran(step.effect.domain, n, in, out, outer),
           in # NoExtent /\ IsVolumeDomain(step.effect.domain)
             => WellFormed(in) /\ (n = in.width \/ outer = NoExtent)
    PROVE  /\ RunsOnWellFormed' /\ FollowsInput' /\ RejectsOnlyMalformed'
           /\ last'.input \in Extent /\ last'.output \in Extent /\ last'.outer \in Extent
           /\ last' = [domain |-> last'.domain, size |-> last'.size, input |-> last'.input,
                       output |-> last'.output, outer |-> last'.outer, failure |-> last'.failure]
           /\ last'.failure = "none"
BY DEF Ran, RunsOnWellFormed, FollowsInput, RejectsOnlyMalformed

LEMMA SingleStepCorrect == ASSUME Inv, NEW g \in Groups, SingleStep(g) PROVE Inv'
<1> DEFINE step  == g.steps[1]
           n     == InheritedSize(step, bundle.volume)
           after == After(step.effect, n, bundle)
           f     == Failure(step.effect, n, bundle)
<1>1. step \in StepType /\ Admitted(step)
  BY GroupFacts
<1>2. /\ bundle \in BundleType /\ bundle.size = bundle.volume.width
      /\ bundle.volume \in Extent /\ Follows(bundle.volume, bundle.volume)
  BY NoExtentFacts DEF Inv, TypeOK, BundleType, ThreadedSizeIsWidth, Follows
<1>3. CASE Malformed(step, bundle.volume)
  BY <1>3, FailCorrect DEF SingleStep
<1>4. CASE ~Malformed(step, bundle.volume)
  <2>1. /\ f \notin {"limit", "shape"}
        /\ f = "none" => after \in BundleType /\ after.size = after.volume.width
        /\ bundle.volume # NoExtent /\ IsVolumeDomain(step.effect.domain)
             => WellFormed(bundle.volume) /\ (n = bundle.volume.width \/ bundle.volume = NoExtent)
    BY <1>1, <1>2, <1>4, StepCorrect
  <2>2. CASE f # "none"
    <3>1. Fail(f)
      BY <1>4, <2>2 DEF SingleStep
    <3> QED
      BY <2>1, <3>1, FailCorrect
  <2>3. CASE f = "none"
    <3>1. /\ phase = "chain" /\ phase' = phase /\ stored' = stored /\ run' = run
          /\ bundle' = after
          /\ last' = Ran(step.effect.domain, n, bundle.volume, after.volume, bundle.volume)
      BY <1>4, <2>3 DEF SingleStep
    <3>2. after \in BundleType /\ after.size = after.volume.width /\ after.volume \in Extent
      BY <2>1, <2>3 DEF BundleType
    <3> HIDE DEF after, n
    <3>3. /\ RunsOnWellFormed' /\ FollowsInput' /\ RejectsOnlyMalformed'
          /\ last'.input \in Extent /\ last'.output \in Extent /\ last'.outer \in Extent
          /\ last' = [domain |-> last'.domain, size |-> last'.size, input |-> last'.input,
                      output |-> last'.output, outer |-> last'.outer, failure |-> last'.failure]
          /\ last'.failure = "none"
      BY <1>1, <1>2, <2>1, <3>1, <3>2, HistoryCorrect
    <3>4. TypeOK'
      BY <3>1, <3>2, <3>3 DEF Inv, TypeOK
    <3>5. Shapes' /\ ThreadedSizeIsWidth' /\ GroupSizes'
      BY <3>1, <3>2, <3>3 DEF Inv, Shapes, ThreadedSizeIsWidth, GroupSizes
    <3> QED
      BY <3>3, <3>4, <3>5 DEF Inv
  <2> QED
    BY <2>2, <2>3
<1> QED
  BY <1>3, <1>4

-----------------------------------------------------------------------------
\* Groups.

\* What run_chain makes of a bundle that a group hands back: a well-formed
\* atlas, or the one that came in.
LEMMA PublishCorrect ==
    ASSUME Inv, phase # "failed", NEW g \in Groups, NEW result \in BundleType,
           Publish(g, result),
           result.size # NoSize => result.size = result.volume.width,
           result.size = NoSize => \/ result.volume \in {NoExtent, bundle.volume}
                                  \/ g.steps[1].effect.domain = "volume-generator"
                                  \/ bundle.size = NoSize,
           WellFormed(result.volume) \/ result.volume = bundle.volume
    PROVE  Inv'
<1> DEFINE domain == g.steps[1].effect.domain
           size   == IF result.size # NoSize THEN result.size
                     ELSE ResolvedSize(domain, NoSize, bundle.size, result.volume.width)
           f      == ShapeFailure(domain, result.volume, size)
<1>1. /\ result.volume \in Extent /\ result.image \in BOOLEAN
      /\ result = [image |-> result.image, volume |-> result.volume, size |-> result.size]
      /\ bundle.size = bundle.volume.width
  BY DEF BundleType, Inv, ThreadedSizeIsWidth
<1>2. result.volume # NoExtent => size = result.volume.width
  BY <1>1, ExtentFacts DEF ResolvedSize
<1>3. CASE f # "none"
  <2>1. Fail(f)
    BY <1>3 DEF Publish
  <2>2. f \in {"none", "shape", "no volume"}
    BY DEF ShapeFailure
  <2>3. f = "shape" => ~WellFormed(result.volume)
    BY <1>1, <1>2 DEF ShapeFailure, WellFormed
  <2> HIDE DEF f
  <2> QED
    BY <2>1, <2>2, <2>3, FailCorrect
<1>4. CASE f = "none"
  <2>1. /\ bundle' = [result EXCEPT !.size = IF result.volume = NoExtent THEN NoSize ELSE size]
        /\ run' = Idle /\ phase' = "chain" /\ stored' = stored /\ last' = last
    BY <1>4 DEF Publish
  <2> HIDE DEF size
  <2>2. bundle'.volume = result.volume /\ bundle'.size = result.volume.width
    BY <1>1, <1>2, <2>1, NoExtentFacts
  <2>3. bundle' \in BundleType
    BY <1>1, <2>1, <2>2, ExtentFacts DEF BundleType
  <2> QED
    BY <2>1, <2>2, <2>3, IdleFacts
    DEF Inv, TypeOK, Shapes, ThreadedSizeIsWidth, RunsOnWellFormed, FollowsInput,
        RejectsOnlyMalformed, GroupSizes, Idle
<1> QED
  BY <1>3, <1>4

LEMMA ZeroTicksCorrect == ASSUME Inv, NEW g \in Groups, ZeroTicks(g) PROVE Inv'
<1> DEFINE first == g.steps[1]
<1>1. first \in StepType /\ Admitted(first) /\ first.effect \in EffectType
  BY GroupFacts DEF StepType
<1>2. bundle \in BundleType /\ bundle.size = bundle.volume.width /\ phase # "failed"
  BY DEF Inv, TypeOK, ThreadedSizeIsWidth, ZeroTicks
<1>3. CASE bundle.image \/ bundle.volume # NoExtent
  <2>1. Publish(g, [bundle EXCEPT !.size = NoSize])
    BY <1>3 DEF ZeroTicks
  <2>2. /\ [bundle EXCEPT !.size = NoSize] \in BundleType
        /\ [bundle EXCEPT !.size = NoSize].size = NoSize
        /\ [bundle EXCEPT !.size = NoSize].volume = bundle.volume
    BY <1>2, SizesAssumption DEF BundleType, NoSize
  <2> QED
    BY <1>2, <2>1, <2>2, PublishCorrect
<1>4. CASE ~(bundle.image \/ bundle.volume # NoExtent) /\ first.effect.domain = "volume-generator"
  <2> DEFINE result == [image |-> FALSE, volume |-> Atlas(first.size), size |-> NoSize]
  <2>1. Publish(g, result)
    BY <1>4 DEF ZeroTicks
  <2>2. first.size \in 1 .. MaxPixels /\ WithinLimit(first.size, first.size * first.size)
    <3>1. IsVolumeDomain(first.effect.domain)
      BY <1>4 DEF IsVolumeDomain
    <3>2. first.size # NoSize /\ WithinLimit(first.size, first.size * first.size)
      BY <1>1, <3>1 DEF Admitted
    <3>3. first.size \in 0 .. MaxPixels
      BY <1>1 DEF StepType
    <3> QED
      BY <3>2, <3>3, SizesAssumption DEF NoSize
  <2>3. result \in BundleType /\ WellFormed(result.volume) /\ result.size = NoSize
    BY <2>2, AtlasFacts, SizesAssumption DEF BundleType, NoSize
  <2> HIDE DEF result
  <2> QED
    BY <1>2, <1>4, <2>1, <2>3, PublishCorrect
<1>5. CASE ~(bundle.image \/ bundle.volume # NoExtent) /\ first.effect.domain # "volume-generator"
  <2> DEFINE result == [image |-> TRUE, volume |-> NoExtent, size |-> NoSize]
  <2>1. Publish(g, result)
    BY <1>5 DEF ZeroTicks
  <2>2. result \in BundleType /\ WellFormed(result.volume) /\ result.size = NoSize
        /\ result.volume = NoExtent
    BY NoExtentFacts, SizesAssumption DEF BundleType, NoSize
  <2> HIDE DEF result
  <2> QED
    BY <1>2, <2>1, <2>2, PublishCorrect
<1> QED
  BY <1>3, <1>4, <1>5

LEMMA IncomingFacts ==
    ASSUME Inv
    PROVE  /\ Incoming \in BundleType /\ Incoming.size = Incoming.volume.width
           /\ Incoming.volume = bundle.volume /\ Follows(Incoming.volume, bundle.volume)
BY ExtentFacts, NoExtentFacts DEF Incoming, Inv, TypeOK, BundleType, Follows

LEMMA GroupBeginsCorrect == ASSUME Inv, NEW g \in Groups, GroupBegins(g) PROVE Inv'
<1>1. CASE (g.loop /\ ~bundle.image) \/ \E i \in 1 .. Len(g.steps) : Malformed(g.steps[i], bundle.volume)
  <2>1. Fail("unbound") \/ Fail("malformed")
    BY <1>1 DEF GroupBegins
  <2> QED
    BY <2>1, FailCorrect
<1>2. CASE ~(g.loop /\ ~bundle.image) /\ \A i \in 1 .. Len(g.steps) : ~Malformed(g.steps[i], bundle.volume)
  <2>1. /\ run' = [group |-> <<g>>, tick |-> 1, position |-> 1, carried |-> Incoming,
                   sizes |-> [i \in 1 .. Len(g.steps) |-> InheritedSize(g.steps[i], bundle.volume)]]
        /\ phase' = "group" /\ bundle' = bundle /\ stored' = stored /\ last' = last
        /\ phase = "chain" /\ g.ticks > 0
    BY <1>2 DEF GroupBegins
  <2>2. bundle.volume \in Extent
    BY DEF Inv, TypeOK, BundleType
  <2>3. \A i \in 1 .. Len(g.steps) : InheritedSize(g.steps[i], bundle.volume) \in 0 .. MaxPixels
    BY <1>2, <2>2, GroupFacts, InheritedFacts
  <2>4. Running' = g
    BY <2>1 DEF Running
  <2>5. run'.sizes \in [1 .. Len(g.steps) -> 0 .. MaxPixels]
    BY <2>1, <2>3
  <2>6. TypeOK'
    BY <2>1, <2>4, <2>5, GroupFacts, IncomingFacts DEF Inv, TypeOK
  <2>7. Shapes' /\ ThreadedSizeIsWidth' /\ RunsOnWellFormed' /\ FollowsInput' /\ RejectsOnlyMalformed'
    BY <2>1, IncomingFacts
    DEF Inv, Shapes, ThreadedSizeIsWidth, RunsOnWellFormed, FollowsInput, RejectsOnlyMalformed
  <2>8. GroupSizes'
    BY <1>2, <2>1, <2>4, IncomingFacts DEF GroupSizes
  <2> QED
    BY <2>6, <2>7, <2>8 DEF Inv
<1> QED
  BY <1>1, <1>2

\* What holds of a running group.
LEMMA RunningFacts ==
    ASSUME Inv, phase = "group"
    PROVE  /\ Running \in Groups
           /\ run.carried \in BundleType /\ run.carried.size = run.carried.volume.width
           /\ Follows(run.carried.volume, bundle.volume)
           /\ run.tick \in 1 .. Running.ticks /\ run.position \in 1 .. Len(Running.steps) + 1
BY DEF Inv, TypeOK, Running, ThreadedSizeIsWidth, GroupSizes

LEMMA GroupStepCorrect == ASSUME Inv, GroupStep PROVE Inv'
<1> DEFINE step  == Running.steps[run.position]
           n     == InheritedSize(step, bundle.volume)
           after == After(step.effect, n, run.carried)
           f     == Failure(step.effect, n, run.carried)
<1>1. /\ phase = "group" /\ Running \in Groups /\ run.position \in 1 .. Len(Running.steps)
      /\ Len(Running.steps) \in Nat
  BY RunningFacts, GroupFacts DEF GroupStep
<1>2. /\ step \in StepType /\ Admitted(step)
      /\ ~Malformed(step, bundle.volume) /\ run.sizes[run.position] = n
  BY <1>1, GroupFacts DEF Inv, GroupSizes
<1>3. bundle.volume \in Extent /\ run.carried.volume \in Extent
  BY <1>1, RunningFacts DEF Inv, TypeOK, BundleType
<1>4. /\ f \notin {"limit", "shape"}
      /\ f = "none" => /\ after \in BundleType /\ after.size = after.volume.width
                       /\ Follows(after.volume, bundle.volume)
      /\ run.carried.volume # NoExtent /\ IsVolumeDomain(step.effect.domain)
           => WellFormed(run.carried.volume) /\ (n = run.carried.volume.width \/ bundle.volume = NoExtent)
  BY <1>1, <1>2, <1>3, RunningFacts, StepCorrect
<1>5. CASE f # "none"
  <2>1. Fail(f)
    BY <1>2, <1>5 DEF GroupStep
  <2> QED
    BY <1>4, <2>1, FailCorrect
<1>6. CASE f = "none"
  <2>1. /\ run' = [run EXCEPT !.carried = after, !.position = @ + 1]
        /\ phase' = phase /\ bundle' = bundle /\ stored' = stored
    BY <1>2, <1>6 DEF GroupStep
  <2>2. /\ run'.group = run.group /\ run'.sizes = run.sizes /\ run'.tick = run.tick
        /\ run'.position = run.position + 1 /\ run'.carried = after
        /\ run' = [group |-> run.group, sizes |-> run.sizes, tick |-> run.tick,
                   position |-> run.position + 1, carried |-> after]
    BY <2>1 DEF Inv, Shapes
  <2>3. last' = Ran(step.effect.domain, n, run.carried.volume, after.volume, bundle.volume)
    BY <1>2, <1>6, <2>2 DEF GroupStep
  <2>4. /\ after \in BundleType /\ after.size = after.volume.width /\ after.volume \in Extent
        /\ Follows(after.volume, bundle.volume)
    BY <1>4, <1>6 DEF BundleType
  <2>5. Running' = Running
    BY <2>2 DEF Running
  <2> HIDE DEF after, n
  <2>6. /\ RunsOnWellFormed' /\ FollowsInput' /\ RejectsOnlyMalformed'
        /\ last'.input \in Extent /\ last'.output \in Extent /\ last'.outer \in Extent
        /\ last' = [domain |-> last'.domain, size |-> last'.size, input |-> last'.input,
                    output |-> last'.output, outer |-> last'.outer, failure |-> last'.failure]
        /\ last'.failure = "none"
    BY <1>2, <1>3, <1>4, <2>3, <2>4, HistoryCorrect
  <2>7. TypeOK'
    BY <1>1, <2>1, <2>2, <2>4, <2>5, <2>6 DEF Inv, TypeOK
  <2>8. Shapes' /\ ThreadedSizeIsWidth' /\ GroupSizes'
    BY <2>1, <2>2, <2>4, <2>5, <2>6 DEF Inv, Shapes, ThreadedSizeIsWidth, GroupSizes
  <2> QED
    BY <2>6, <2>7, <2>8 DEF Inv
<1> QED
  BY <1>5, <1>6

LEMMA NextTickCorrect == ASSUME Inv, NextTick PROVE Inv'
<1>1. /\ phase = "group" /\ phase' = phase /\ bundle' = bundle /\ stored' = stored /\ last' = last
      /\ run.tick < Running.ticks
      /\ run' = [group |-> run.group, sizes |-> run.sizes, tick |-> run.tick + 1,
                 position |-> 1, carried |-> Incoming]
  BY DEF NextTick, Inv, Shapes
<1>2. Running' = Running /\ Running \in Groups /\ 1 \in 1 .. Len(Running.steps)
  BY <1>1, RunningFacts, GroupFacts DEF Running
<1>3. run.tick + 1 \in 1 .. Running.ticks
  BY <1>1, <1>2, RunningFacts, GroupFacts
<1>4. TypeOK'
  BY <1>1, <1>2, <1>3, GroupFacts, IncomingFacts DEF Inv, TypeOK
<1>5. Shapes' /\ ThreadedSizeIsWidth' /\ RunsOnWellFormed' /\ FollowsInput' /\ RejectsOnlyMalformed'
  BY <1>1, IncomingFacts
  DEF Inv, Shapes, ThreadedSizeIsWidth, RunsOnWellFormed, FollowsInput, RejectsOnlyMalformed
<1>6. GroupSizes'
  BY <1>1, <1>2, IncomingFacts DEF Inv, GroupSizes
<1> QED
  BY <1>4, <1>5, <1>6 DEF Inv

LEMMA GroupEndsCorrect == ASSUME Inv, GroupEnds PROVE Inv'
<1>1. /\ Running \in Groups /\ run.carried \in BundleType
      /\ run.carried.size = run.carried.volume.width
      /\ WellFormed(run.carried.volume) \/ run.carried.volume = bundle.volume
      /\ phase = "group" /\ Publish(Running, run.carried)
  BY RunningFacts DEF GroupEnds, Follows
<1>2. run.carried.size = NoSize => run.carried.volume = NoExtent
  BY <1>1, ExtentFacts DEF BundleType
<1> QED
  BY <1>1, <1>2, PublishCorrect

-----------------------------------------------------------------------------

\* Every step of the executor keeps the size of the chain, the atlas beside it
\* and the sizes a group inherited in agreement.
THEOREM InvHolds == Spec => []Inv
<1>1. Init => Inv
  BY InitInv
<1>2. Inv /\ [Next]_vars => Inv'
  <2> SUFFICES ASSUME Inv, [Next]_vars PROVE Inv'
    OBVIOUS
  <2>1. CASE Read \/ NextChain
    BY <2>1, ReadCorrect, NextChainCorrect
  <2>2. CASE \E v \in Volumes : Read3D(v) \/ Write3D(v)
    BY <2>2, Read3DCorrect, Write3DCorrect
  <2>3. CASE \E g \in Groups : SingleStep(g) \/ ZeroTicks(g) \/ GroupBegins(g)
    BY <2>3, SingleStepCorrect, ZeroTicksCorrect, GroupBeginsCorrect
  <2>4. CASE GroupStep \/ NextTick \/ GroupEnds
    BY <2>4, GroupStepCorrect, NextTickCorrect, GroupEndsCorrect
  <2>5. CASE UNCHANGED vars
    BY <2>5
    DEF vars, Inv, TypeOK, Shapes, ThreadedSizeIsWidth, RunsOnWellFormed, FollowsInput,
        RejectsOnlyMalformed, GroupSizes, Running
  <2> QED
    BY <2>1, <2>2, <2>3, <2>4, <2>5 DEF Next
<1> QED
  BY <1>1, <1>2, PTL DEF Spec

\* Every variable keeps its type: no extent leaves the limit.
THEOREM TypeCorrect == Spec => []TypeOK
<1>1. Inv => TypeOK
  BY DEF Inv
<1> QED
  BY <1>1, InvHolds, PTL

\* The size threaded beside an atlas is its width, whatever set either.
THEOREM ThreadedSizeCorrect == Spec => []ThreadedSizeIsWidth
<1>1. Inv => ThreadedSizeIsWidth
  BY DEF Inv
<1> QED
  BY <1>1, InvHolds, PTL

\* No volume effect samples an atlas that is not n x n^2, whatever a caller
\* seeds.
THEOREM WellFormedInputs == Spec => []RunsOnWellFormed
<1>1. Inv => RunsOnWellFormed
  BY DEF Inv
<1> QED
  BY <1>1, InvHolds, PTL

\* A volume effect runs with its input's size, but for the groups that no
\* volume comes into.
THEOREM SizesFollowInput == Spec => []FollowsInput
<1>1. Inv => FollowsInput
  BY DEF Inv
<1> QED
  BY <1>1, InvHolds, PTL

\* What was rendered here is never rejected for its extent.
THEOREM OnlyMalformedRejected == Spec => []RejectsOnlyMalformed
<1>1. Inv => RejectsOnlyMalformed
  BY DEF Inv
<1> QED
  BY <1>1, InvHolds, PTL
=============================================================================
