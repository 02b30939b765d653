# Noisemaker for C++: specifications

TLA+ modules of the parts of this repository whose correctness is a matter of
*order, lifetime and state* rather than of pixel arithmetic: the resource arena,
the graph executor that runs a compiled program over it, the scan that groups
iterated steps, the execution of such a group over its ticks, the admission of
a plan before anything is allocated, the sizes of volume atlases, the pass
runner with its quad cache, and the scope of the DSL compiler. TLC checks them
on small instances; TLAPS proves, for every value of their constants, the
invariants of the arena, of the scan, of the volume sizes and of the pass
runner, that the executor's pointers stay valid and its holders balance, what
an iterated group remembers from tick to tick and hands back, how lets of the
DSL may recurse and that each is evaluated once, and that a compiled chain can
be grouped and admitted with what its flags promise.

All source references are to `src/` of the repository; line numbers are in
`PROJECT.json` (`map`), one entry per definition that models code.

## 1. Inventory of the system

`Renderer::render` compiles a program of the Polymorphic DSL into an
`ExecutionPlan` and runs it with a `GraphExecutor`. Everything is
single-threaded and nothing is persisted: what is hard here is not concurrency
but a long life of raw pointers, one name space that many steps publish into,
recursion of chains in chains, memory that must or must not survive from one
tick to the next, and many ways to throw half way.

| component | state | operations | hard behaviour | correct when |
|---|---|---|---|---|
| resource arena (`graph/resource.cpp`) | pool, name index, per resource: retired flag, binding and pin counters | insert/allocate/copy, alias, remove_alias, find, retain, release, pin, unpin, retire | three kinds of holder released in any order; an insert that throws half way; saturating counters | a resource is owned exactly while something holds it; retirement is final |
| graph executor (`graph/executor.cpp`, `execute`) | arena; per chain: current image, volume, geometry; per effect: pin, borrows, output; hold counter | run_chain, chain arguments, read, write, read3d, write3d, effect, pass, iterated-group publication, failure paths | pointers kept over publications; one name space; suspended chains; throws | no pointer dangles or is unbindable; every path balances its holders; pixels are those of a value semantics |
| iteration-group scan (`graph/iteration.cpp`) | groups so far, open particle group, open loop | one rule per shape of step | look-back at closed groups; loops and groups closing each other | ordered partition, one state owner per group, throws exactly for unbalanced loops |
| iterated-group execution (`executor.cpp`, `run_iterated_group`) | per step: resources, selfTex; group-shared resources; threaded bundle | ticks, steps, passes, seeding, hand-back | what persists over ticks and under whose name; zero ticks; state owner not in front | each sample is the right earlier rendering; hands back a bundle the executor can publish |
| pass runner (`pass_runner.cpp`) | quad cache, position | probe, replay, store, evict | odd edges; kernel state makes the order observable | cache is exactly the open quads; probes precede their quad; every pixel once |
| plan admission (`executor.cpp`, `validate_plan_before_allocation`) | simulated bundle, producers and available routes | preflight of every chain, pass and route | a simulation by steps of a run by groups | what it admits does not fail for want of an input, a surface or an output |
| DSL compiler, flags (`dsl/compiler.cpp`) | chain flags | order checks of `compile_chain` | static flags against dynamic bundles | accepted plans are admissible |
| DSL compiler, scope (`dsl/compiler.cpp`) | bindings with their lazy values, native call stack, hidden-surface counter, pending chains | declare, evaluate, merge a partial, compile a chain or a chain argument | mutual recursion of lets, oscillators and chains; values shared by memoizing; the same name bound again | terminates; every hidden surface is rendered before it is bound; the plan is what writing the lets out would give |
| DSL lexer, parser | cursor | tokens, statements | nesting limits | (stateless otherwise) |
| volume sizes (`graph/chain_bundle.cpp`) | size beside the volume in the bundle, size parameter of a step | inherit, resolve, validate | sizes that no step declared, seeds of any extent, products that may wrap | atlas, threaded size and parameter agree; only malformed seeds are rejected |
| automation, registry, surfaces, PNG, numerics, kernels, tools | - | pure functions, data, offline tools | arithmetic | checked by the repository against recorded oracles |

How they interact: the compiler hands a plan to `execute`; `execute` admits it,
seeds the arena, and for each chain calls `compute_iteration_groups`; a group
that is not iterated runs its single step in the effect block, an iterated one
goes to `run_iterated_group`, which owns its own surfaces and gives back a
`GroupPublishResult` that `execute` publishes in the arena; every pass of either
calls `run_pass` (or `run_mrt_pass`) with a kernel from the registry. Before each
volume effect the size of the incoming atlas replaces the size parameter, after
it the produced atlas is checked against the size.

`PROJECT.json` lists the hazards at their lines, each with the properties that
would catch it.

## 2. Modules

| module | models | state, as in the code |
|---|---|---|
| `ArenaOperations` | the methods of `ResourceArena` as operators on a record | `owned` (the pool), `index` (`named_`), `retired`, `borrow`, `pin` |
| `ResourceArena` | any caller of that interface | `arena` |
| `ResourceArenaProofs` | TLAPS proofs | |
| `EffectCatalog` | what execution looks at in an effect definition | (constants) |
| `ChainSemantics` | *abstract*: what executing a plan promises, over values, without arena | `surfaces`, `stack`, `effect`, `reads`, `phase` |
| `GraphExecutor` | `GraphExecutor::execute` over `ArenaOperations` | `arena`, `frames` (locals of each `run_chain`), `eff` (locals of the effect block), `phase`, `holds`, `inlines`, `chains` |
| `GraphExecutorProofs` | TLAPS proofs | |
| `IterationGroups` | `compute_iteration_groups` | `chain` read so far, `groups`, `openGroup`, `openLoop`, `outcome` |
| `IterationGroupsProofs` | TLAPS proofs | |
| `IteratedGroup` | `run_iterated_group` | tick, step, pass, the bundle, the resources of each step and of the group, and a history `log` of renderings |
| `IteratedGroupProofs` | TLAPS proofs | |
| `PlanAdmission` | `compile_chain`'s checks, `preflight_chain`, and the execution of the same chain | `flags` of the compiler, the scan's variables, `dry` (the preflight's bundle, `produced`, `available_routes`), `live` (bundle, arena names, and the state of the running group) |
| `PlanAdmissionProofs` | TLAPS proofs | |
| `VolumeSizes` | the three rules of `chain_bundle.cpp` and the steps of `run_chain` and `run_iterated_group` that apply them | `bundle` (presence of the image, extent of the volume, `current_volume_size`), `stored` (read3d/write3d), `run` (locals of a group), `last` (what ran last, or why it failed) |
| `VolumeSizesProofs` | TLAPS proofs | |
| `CompileScope` | bindings, `evaluate`, `compile_oscillator`, `merge_arguments`, `compile_chain`, `compile_inline_chain` | `bindings`, `inline_count`, `plan`, `next` (statement), `stack` (one frame for each active native call) |
| `CompileMeaning` | *reference*: what a compiled plan has to be | |
| `CompileScopeProofs` | TLAPS proofs | |
| `PassRunner` | `run_pass` | position, lane, `cache`, `stored`, and a history `calls` of kernel invocations |
| `PassRunnerProofs` | TLAPS proofs | |

`GraphExecutor` composes `ArenaOperations` (it calls its operators in the order
the code calls the methods) and is shown to implement `ChainSemantics`
(`INSTANCE ... WITH` in `GraphExecutor`, the abstract `Spec` as a PROPERTY of
each executor run). `IteratedGroup` discharges the contract under which
`GraphExecutor` models an iterated group in one step: the guard of its action
`IteratedGroup(image, volume, geometry)` is what `HandsBackLegalBundle` says of
the detailed model. `IterationGroups` justifies the shapes of the groups that
`MCIteratedGroup` enumerates; `PlanAdmission` composes the scan
(`Scan == INSTANCE IterationGroups WITH chain <- ...`) with the compiler before
it and the executor after it; and `RunsEveryStep` is the condition under which
the executor may run only the front step of a group that is not iterated.

### ArenaOperations and ResourceArena

One operator per method, with its throw conditions as a `Can...` predicate.
`Insert` is `insert` with the drop of what the route named before;
`InsertRolledBack` is the path where the name index throws after the pool has
grown. The counters are capped by `MaxCount`, which stands for
`numeric_limits<size_t>::max()`: the guard of `retain` and `pin` is the code's
own, so the cap is not an artificial bound. `ResourceArena` lets a caller make
any call the interface allows.

### GraphExecutor

The plan is not fixed in advance. At each step boundary the next step is any one
that a plan may have there (`ChooseStep`, `ReadStep`, `WriteStep`, ...): the
executor never looks ahead, so all plans within the bounds are covered by one
state graph. A pass is two actions, since code that may throw runs between
them: `SamplersBound` (resolve and retain) and `PassPublishes` (insert in slot
order, release). `StepFails` throws wherever something can throw for reasons
the arena does not see (kernel factory, kernel, quantization, extents,
allocation); `Throw` undoes what `release_borrowed` and `~ScopedPin` undo.

`ChainSemantics` says the same over immutable values: a chain threads {image,
volume, geometry}, an effect owns a map of routes that starts from its own
clears, a chain argument leaves only the surface it publishes. Under the
refinement mapping the map of an effect is what the arena names under the
routes this effect has published. Because a new abstract value must differ from
everything still in use, an implementation that recycled storage too early
would not refine it. In use are all surfaces, all suspended bundles, the map and
the output of the effect and the running image; the running volume and geometry
only while a pass to come samples them or the step hands them on (`StillNeeded`),
since nothing pins those two and the executor does let an effect publish over
their names once it is done with them.

### IterationGroups

A step is a record of the attributes the scan tests (boundary, loop role,
`declaresXyz`, `references`, generator, speed, ticks, id). `Next` appends any
step of the constant `Steps` and applies the rule that the code applies.
`MatchesIntent` compares the outcome with a direct definition on the whole
chain (`RunsWithPrevious`), which does not scan.

### IteratedGroup

One action per thing that happens to a step in a tick: `StepBegins`,
`PassSkipped`, `PassRuns`, `PassFails`, `StepEnds`; `GroupBegins` and
`ZeroTicks` before them. Each rendering gets an identity and is appended to
`log` with what it sampled; the properties define what it *should* have sampled
from the log alone, without the resource maps the code keeps. Abstracted:
extents other than `stateSize`, the size check of `selfTex`, the time given to
automation, the refusal of mesh passes. `DefaultTicks` stands for the code's 60.

### PlanAdmission

Three parts of the code follow the same chain with three ideas of its bundle:
the compiler with static flags, the preflight step by step with sets of routes,
the execution group by group with surfaces in the arena, in the group and in
the step. The model takes a chain through all of them, `phase` by `phase`, with
presence for content. `Accepts`/`FlagsAfter` are `compile_chain`, one
`Preflight...` action stands for each branch of `preflight_chain`, and `Read`,
`Write`, `Read3D`, `Write3D`, `RunEffect`, `GroupBegins`, `GroupStep`,
`GroupEnds` for those of `run_chain` and `run_iterated_group`. A step that lacks
something ends the chain (`End`), and `lacking` says what.

Abstracted: other chains of the plan and the caller's seeds appear as what they
have written (`Written`) and what they left in the arena (`Leftovers`: routes
the arena still names that the preflight does not count); a chain argument as a
read or a generator, an optional write and its hidden surface; a parameter by
what it is resolved to, automation included; one tick of a group, since a later
tick starts from the same bundle and finds more; the refusal of mesh passes in
groups as one check in front (`Admit`). The authentication of factories, ABIs,
formats, extents and MIDI routes does not look at the bundle and is left out.

### VolumeSizes

A volume of side n is stored as an atlas of n x n^2 pixels, and three places
keep n: the atlas, `current_volume_size` in the bundle and the parameter
`volumeSize` of the step. `InheritedSize`, `ResolvedSize` and `ShapeFailure` are
the three functions of `chain_bundle.cpp`; `SingleStep`, `GroupBegins`,
`GroupStep`, `NextTick`, `GroupEnds`, `Publish` and `ZeroTicks` apply them where
the executor does, `Read3D` and `Write3D` move an atlas through the named
volumes. `Failure` is the first check that fails, in the order of the code. A
caller may seed a surface of any admissible extent under the name of a volume.
`Malformed` squares a width modulo `Word`, as `size_t` does, and `WithinLimit`
is `channel_count`'s division. Abstracted: sizes are integers, geometry (it has
the extent of its volume), what the image looks like.

### CompileScope and CompileMeaning

The compiler is a set of mutually recursive functions over a scope they share.
The model makes the native call stack a variable: `EvaluateLet`,
`EvaluateOscillator`, `EvaluateCompound`, `EvaluateChain` and `ChainBegins` push
a frame, `ValueEnds`, `ArgumentEnds` and `StatementEnds` pop one, and every
frame carries what the C++ call passes down: the depth of oscillators and the
path of lets that are resolving. A let resolves at its first use and keeps its
value (`LazyOf`); a partial keeps its call and is merged where it is called
(`Merged`); a chain in an argument compiles to a chain that writes a hidden
surface `inline:N` and is carried by the call whose arguments are resolving.
The stack has room for `MaxStack` calls; a push beyond it is the outcome
`"overflow"`.

`CompileMeaning` says what the result has to be without bindings, stack or
hidden surfaces: `Meaning` writes the lets out, `Unfolded` puts the chains of
hidden surfaces back into a plan, and `Renders` runs a plan to see whether each
hidden surface is rendered, once, before it is bound.

Abstracted: the order rules of `compile_chain` (they are `PlanAdmission`'s);
parameters take values of any type; arithmetic is addition; a dotted name is a
literal; `from()`, `read3d`, `write3d`, the render directive and snapshots. A
rejection by one of these could only end the compilation earlier.

### PassRunner

`Probe` records one of the four corners of a quad, `Shade` replays, stores and
evicts. A record is abstracted to the corner it was taken at, a difference to
the two corners it subtracts. `calls` is the history of kernel invocations: the
kernel keeps its `fragColor` between invocations, so their order is observable
and the comment in `pass_runner.cpp` (105-109) makes it part of the contract.

## 3. Runs

| run | instance | shows | distinct states |
|---|---|---|---|
| `arena` | 3 resources, 2 names, counters to 2, symmetry | `TypeOK`, `OwnedExactlyWhileHeld`, `ArenaWellFormed`, `RetirementIsFinal` | 3515 |
| `executor_passes` | 6 effects, 2 chains, 2 chain arguments (nested or in sequence), a surface, a seed | no pointer dangles or is unbindable, holders balance, nothing lingers, and the refinement of `ChainSemantics` | 1.24 M |
| `executor_volumes` | 4 effects, iterated groups, 1 chain of 3 steps, 1 chain argument, read3d/write3d | no pointer dangles, and the refinement | 225 k |
| `iteration_groups` | 16 step shapes, chains of up to 4 | six invariants of the scan | 110 k |
| `iterated_group` | 21 groups, 6 incoming bundles, up to 3 ticks | what is sampled, threaded, fed back and handed back | 2475 |
| `plan_admission` | 31 step shapes, chains of up to 4, 3 surfaces that may have been written, leftovers or none | the scan never throws for a compiled chain; dry run at least as rich as the flags, and equal to the execution after every group; admitted chains run, but for two gaps | 1.5 M |
| `plan_admission_gaps` | the same | finding: `AuthenticatesFirst` is violated | |
| `volume_sizes` | 10 kinds of group over 3 image effects and generators, filters and renderers of 2 sizes; 2 named volumes with 5 seeds, up to 27 pixels | atlas, threaded size and parameter agree, only malformed seeds are rejected | 175 k |
| `volume_sizes_groups` | the same | finding: `EveryStepFollowsInput` is violated | |
| `dsl_scope` | 19 008 programs of three lets and two chains | cycles, hidden surfaces, substitution, termination, one value per let | 242 k |
| `dsl_scope_cycles` | the same | finding: `CyclesAreReported` is violated | |
| `pass_runner` | extents 1..5 x 1..5 | cache, replay, store and order | 1049 |

Why the bounds are enough.

- *Arena*: the operations touch one resource and one name; two names on one
  resource, a name moving between two, and a third to be inserted under it are
  all there. The proofs remove the bound.
- *Executor*: a pointer goes stale when a later step republishes its route, so
  three steps (make, keep, republish and use) with all shapes of pass list are
  what matters; the second chain, of one step less, shows that nothing leaks
  from the first; two arguments give nesting and sequence; `MemoryAssumption`
  gives `Resources` a pointee for every name, the pinned one and what one step
  inserts, so inserts never run out of identities (that memory runs out is one
  of the ways in which a step fails). A third chain or a fourth step only
  repeats situations that the published state already has; the proofs remove the
  bounds for the invariants.
- *Scan*: it looks one group back and a group's tail is decided by its last
  step; four steps hold a closed group, the one being looked back at, and the
  step that looks. The proofs remove the bound.
- *Iterated group*: a tick depends on the previous tick, so two distinguish
  first from later and three distinguish previous from first. The proofs remove
  the bound.
- *Plan admission*: a disagreement needs a step that makes or loses a component,
  one that changes the route it is known under, one that wants it, and a group
  around some of them; four steps hold every rule of the scan with a step before
  or after it. The step shapes are those of the generated catalog that one of
  the three parts tells apart, each with the parameter values (unbound, bound,
  zero ticks, disabled pass, chain argument) that matter to it.
- *Volume sizes*: chains are not bounded. The sizes 2 and 3 and the seeds 1, 2
  and the two malformed ones give every relation between declared and incoming
  size (smaller, equal, larger, malformed too low and too wide); 27 pixels are
  just an atlas of side 3, so a wrong inheritance exceeds the limit, and the
  widest seed is as wide as a surface may be; two names let a well-formed volume
  meet a malformed one. The proofs remove the bounds.
- *DSL scope*: one value for each form of the grammar that mentions a name,
  directly or inside another, in each of two lets, so that both can mention each
  other or themselves; a third let that binds one of the names again or a new
  one, and a chain on either side of it. `MaxDepth` is 1, so that oscillators
  nest too deep within one let. 14 calls are more than any program without a
  cycle needs: the 1008 programs that overflow are the same with 28, and each
  has a cycle. Of the 19 008 programs 1555 compile, 16 445 are rejected;
  353 of those that compile declare each name once and are compared with their
  substitution, 282 of these with chains nested in arguments.
- *Pass runner*: the parity of each side and whether a quad has a neighbour on
  each side; 5 gives three quads with an odd last one. The proofs remove the
  bound.

`CHECK_DEADLOCK` is on, with an explicit stuttering `Ended` (or `Returned`) for
the states in which the call has returned or thrown, except in the runs of
`PlanAdmission`: a chain that the compiler does not accept as it stands (an open
loop, a generator without a write) and that has reached `MaxLength` is a program
without a plan, and nothing happens to it.

*Fairness*: `CompileScope` assumes `WF_vars(Next)`: the compiler is one thread
that waits for nothing, so a step it can take is taken. `Terminates` then says
that its recursion ends for every program, by a plan, a `DslError` or an
exhausted stack, which is not evident from functions that call each other over
bindings they change. An exhausted stack counts as an end, so `Terminates` says
nothing of unbounded recursion: that hazard is covered by `OnlyChainsRecurse`
(which recursion is possible at all) and `CyclesAreReported` (it is not
reported, a finding). The other models assume none and claim no liveness: their
code is a sequence of synchronous calls over finite lists, and the models choose
the program as it runs, so "eventually done" would only restate the bounds.

## 4. What is proved

For every value of the constants, from the assumptions in the modules (`ASSUME`s
about the constants, which TLC evaluates in the runs):

- `ResourceArenaProofs` - `Inv == TypeOK /\ ArenaWellFormed` is inductive. Well-
  formedness (names lead to owned, unretired resources; freed ones have zero
  counters; an unretired one is named or pinned) is what makes each operation's
  collection decision exact, so `OwnedExactlyWhileHeld` follows from it; and
  from it `RetirementIsFinal`, one case per operation.
- `GraphExecutorProofs` - a raw pointer is safe because of a name, a binding or
  a pin that the code never mentions next to it, and `IInv` says which. The
  arena is `Tidy`: it owns what is held, and exactly what only a binding holds
  is retired. A pointer of a bundle is `Secured` if it is the current pointee of
  a name of its own kind (`ImageNames`, `VolumeNames`, `GeometryNames`,
  surfaces), or is named by one of the first `holds` hold names: an image is
  republished by later passes only under the names of its kind, and what a
  suspended chain keeps is named by its holds (`StackOK`). Within an effect the
  input is pinned, the volume and the geometry stay under their names as long as
  a pass still samples them or the output passes them through (`Needed`), and
  the last rendering is under the route of the last slot (`OutputOf`).
  `HoldersBalance` is part of `ArenaOK`, restated as a counter per resource
  (`Balanced`): what the bound pass was lent, and the one pinned input.
  `NothingLingers` follows from tidiness once nothing is lent or pinned. It
  rests on three assumptions, which the 210 definitions of the generated catalog
  satisfy with `ImageNames = {outputTex}`, `VolumeNames = {volumeCache}` and
  `GeometryNames = {geoBuffer, screenGeoBuffer}`: kinds do not share names and
  hold names are private (`NamesAssumption`); an effect that passes its volume
  or geometry through, or samples it in a later pass, does not publish over
  names of that kind before (`KeepsInput` in `CatalogAssumption`); and
  identities do not run out (`MemoryAssumption`).

  `ImplementsSemantics`, `Spec => ImplementsValueSemantics`, is the step
  simulation of `ChainSemantics`, one lemma per action (`...Maps`). `IInv` gives
  half of it: what the semantics still looks at is owned (`InUseOwned`), and an
  insert takes a pointee that is not, so what is published is new to the
  semantics too. The other half is that all effects share one namespace with the
  surfaces, in which the routes of earlier effects stay named. `MapInv` says why
  that is invisible: only `KnownNames` are ever named, and the map of an effect
  has every route that the effect has certainly published (`Own`). Under
  `SamplesAssumption` a route that a pass looks up is then one of its own, found
  in both worlds, or no step publishes it, and it is found in neither. Of the 185
  definitions that run outside an iterated group, six look up a route that they
  have not published: five an external input, under a name that nothing publishes
  (`textTex`, `imageTex`, `midiNoteGrid`, mesh positions and normals), and
  `points/heightGrid` the particle state. The only pass outside a group that
  publishes particle state is its own, which throws before for want of it; this
  is why `KnownNames` leaves out what a pass both samples and publishes.
- `IterationGroupsProofs` - the partition is not inductive by itself because the
  open groups hold a tail of the chain that is not in `groups` yet. `IInv` adds
  that at most one of the two is open and that the closed groups followed by the
  open one cut the chain into consecutive pieces, and that each closed group has
  the shape `RunsEveryStep` asks for. Lemmas about appending to, extending and
  replacing the last piece of a cut carry the rules of the scan.
  `ThrowsExactlyWhenUnbalanced` speaks of the whole chain, the scan only keeps
  `open_loop`: `LoopInv` says that `open_loop` is engaged exactly if a begin
  before the next step has met no end, and that no step so far was out of place.
  `OwnerInv` is `SingleStateOwner` of the closed groups and the open one
  together; it rests on the catalog (only `pointsEmit` declares particle state,
  and it is neither a generator nor noise3d). `MatchesIntent` compares the
  groups with a definition by recursion over the chain that never looks at a
  group: `IntentInv` says that neighbours are in one group exactly as called
  for, that each group is flagged by its steps, and that a particle group is
  open exactly if the particles of the chain so far reach the next step; that
  the groups are then those of the recursion is its uniqueness, by induction
  over the chain. `GroupsRunAsUnits`, what the executor takes for granted of a
  group, follows from the intent: an iterated group holds effects only, and its
  first step iterates or, if that is an image or a noise volume, its second one
  does and ticks.
- `IteratedGroupProofs` - the properties compare what a rendering sampled with
  the history `log`, the code has only maps of surfaces. `IInv` says of each map
  what it is in terms of the history: a common surface is the latest rendering
  of its route by any step (`SharedOK`), any other the latest of its own step,
  and it is there exactly if it was rendered or is declared (`KeptOK`), `selfTex`
  is the result of the last tick the step has finished (`SelfTexOK`), and what is
  carried is what the history makes of the incoming bundle (`Threads`). While a
  step runs, `BindingOK` has what it is bound to and `PassesOK` what its passes
  have left. A rendering added to the history does not change what was true of
  earlier ticks and steps (`PastResultStays`, `PastThreadStays`); `Threaded` is a
  recursive function over the steps, unfolded by induction (`ThreadedUnfolds`).
  `HandsBackLegalBundle` follows from `BundleOK`: a component is what came in or
  was rendered under one of the group's own routes. `MrtDestinationsFit` does not
  need the history, only that everybody who declares particle state has the size
  of the owner. The assumptions were compared with all 210 definitions: no pass
  renders a route that is bound or threaded in or has a meaning of its own
  (`RoutesAssumption`); only volume effects make a volume and every generator
  does (`DomainsAssumption`); `global_accum` is rendered only at the end of a
  loop, no route is used for two components, and who declares particle state has
  a `stateSize` or inherits it (`GroupsAssumption`). `InputsAssumption` and
  `DefaultTicksAssumption` only fix the kind of two constants.
- `PlanAdmissionProofs` - `IInv` has a part for each of the three accounts of a
  chain. `CompileInv` ties each step to the flags before and after it (`Link`),
  with an image never lost again. `LoopInv`: while compiling, the scan's open
  loop is engaged exactly if the compiler's loop flag is, so the scan cannot
  throw, which is `CompiledChainsGroup`. `GroupsInv`: every step is in a group,
  a group's front precedes its steps, it is iterated if one of its steps is, and
  a group of several steps whose front may run no tick has an image after its
  front. `DryInv`: the dry run's bundle has at least what the flags promise at
  the step it has come to (`FlagsAreKept`) - for a group without a tick, that
  what `zero_iteration_group_output` leaves is enough. `PlansImplementTheScan`
  is a refinement, `Spec => Scan!Spec`: the groups of a plan are a behaviour of
  `IterationGroups`, so what is proved of the scan holds of every plan: they cut
  the chain into pieces that the executor can run (`PlansAreGrouped`). On these
  pieces rests `DryRunMirrorsExecution`. The dry run is over before execution
  begins, so the invariant reads its log: `Beliefs` gives each entry from the one
  before, `Hands` being what the step does to a bundle, and `Reaches` bounds what
  was believed available by the arena and what the steps to come add to it.
  Execution is at the log's entry before the next group (`BetweenMirror`) or
  before a step of the running group (`InsideMirror`), with the arguments of the
  whole group run already. Each action then takes execution one entry, or one
  group, further: a step that iterates need not publish what it makes, it keeps
  it as a texture of the group (`MadeOutput`); a group of no ticks skips to its
  last entry (`IdleGroup`, by induction over its steps); and the tick count,
  which the dry run reads from the first step and execution from the first that
  iterates, is the same (`OwnerOfTicks`).
  `AdmittedChainsRun` needs, besides, that the routes which the dry run looks up
  are there in execution. `Given` says of a route, once for both, what it needs:
  the image, the volume, a surface or a texture. `FoundAt` is what the dry run
  has established of a step it has passed, in terms of what was believed
  available, and `Finds` carries it forward: the steps from here on find what
  they sample in the arena together with what the steps in between add to it.
  `NeedsInv` is the induction: during the dry run `Finds` holds of the steps so
  far (`DryNeeds`), during execution of the steps to come, with the outputs of
  the steps outside groups left in the arena (`Leave`), and inside a group of its
  remaining steps (`InsideNeeds`). The dry run checks a route only in the passes
  that run, and counts whatever any group before the step has rendered; the
  two places where execution asks for more are `SurfaceGap` and `RouteGap`, and
  a step that lacks anything is shown to be at one of them
  (`StepLacksSurfaces`, `RunLacksRoutes`). That the image is there for an effect
  that may sample it comes from the compiler, not from the dry run: `Link` and
  `FlagsBefore` take it from the flags (`GuaranteedIsThere`), and likewise the
  output that its domain requires of it (`DomainKept`).
  From `PlanCatalogAssumption` and `PlanExecutionAssumption`, which were compared
  with all 210 definitions, and `PlanScanAssumption`, which says that the steps
  are steps of the scan. The second keeps the names of surfaces, routes and
  `outputTex` apart, and says of an effect to which the compiler
  guarantees no image that it does not sample its own output as one, and that
  some pass samples each parameter bound to the chain, so that the dry run has
  seen it. One clause of it, that some pass of every effect runs, needs the
  normalization of values besides: `reactionDiffusion3d` has a single pass, which
  repeats `iterations` times, and `registry.cpp:883` refuses a value below the
  declared minimum 1.
- `VolumeSizesProofs` - `Inv` is the conjunction of the five properties of the
  run, the shapes (every atlas that the program made is well-formed, whatever
  was seeded) and what a running group has inherited (`GroupSizes`).
  Two lemmas do the arithmetic. `GuardIsExact`: the guard of `channel_count`, a
  division, passes an extent if and only if its product is within the limit.
  `SquareDoesNotWrap`: the unguarded square in `inherit_volume_size` cannot
  wrap. The second needs `MaxPixels * MaxPixels < Word`: in the code 2^24 pixels
  and a 64-bit `size_t`.
- `CompileScopeProofs` - `Sound(stack)` is inductive: the path that a call
  passes on has the name of every let since the innermost chain, and so two
  calls for the same let have a chain between them, which is
  `OnlyChainsRecurse`. Lemmas about pushing a frame, popping one and changing
  one without its name or path carry every action. So the cycle test of
  `evaluate` leaves one way to recurse and no other, for programs of any size.
  `EvaluatedOnce` needs more, because a let can be resolved within itself,
  through a chain, and both resolutions would end by storing a value. `Resolution`
  says why neither ends: the inner one repeats the outer call by call and never
  overtakes it (`Following`: where the two stacks above them agree, the outer
  call is at the place of the inner one or ahead of it), and the outer one is
  not done as long as something above it runs (`Waiting`). So a let that leads
  to itself gets no value at all, and any other is on the stack once when it
  gets one. A move of the innermost call keeps `AtOrAhead` from either side
  (`MovesAhead`, `MovesBehind`), and so does each kind of step (`TopMoves`,
  `TopOpens`, `TopReturns`). It rests on `GrammarAssumption`, what the
  parser builds: where a call may stand and that its arguments are expressions;
  the two runs of the module evaluate it for their programs.
- `PassRunnerProofs` - `Cursor` (the position, with `StoresEveryPixel`) is
  inductive; `CacheIsOpen` says which quads the cache holds in terms of the
  position only, so that eviction at odd edges is arithmetic on parities;
  `ReplaysOwnCorners` and the bound on the cache follow. `OrderInv`, for
  `InvocationOrder`, is about the history: corners are recorded one directly
  after the other, each once, and the fourth is followed by a replay of its quad
  (`InOrder`); what is recorded is what the loops have come to, and what is open
  is recorded (`RecordsFollowCursor`).

Only model-checked:

- `Terminates` of the compiler, a liveness property;
- `HiddenSurfacesAreRendered` and `CompilesBySubstitution`, whose definitions
  are RECURSIVE operators. The prover has no backend for those. `CompileMeaning`
  is a module of its own for that reason; no module proved about extends it.

The prover reaches neither liveness nor `ENABLED`, and cannot instantiate the
library's induction theorems, whose parameter is an operator. Induction over a
set of naturals is proved here instead (`SetInduction`, from the
well-foundedness of `<`), which is enough for recursive functions over a finite
chain.

## 5. Findings

- *Preflight gaps* (`plan_admission_gaps`). (1) A step of a group binds all its
  surface parameters, the preflight checks those that an enabled pass samples:
  `pointsBillboardRender(tex: o3, blendMode: 2)` with `o3` unwritten is admitted
  and then fails. (2) The preflight adds what the steps of an iterated group
  publish to the producers of the whole chain (`executor.cpp:1632`), although in
  execution those routes never leave the group. `points/heightGrid`, which reads
  particle state without being iterated, is admitted after a group has been
  closed and then fails: `solid(color: #3a7).pointsEmit(stateSize: 64,`
  `iterationCount: 2).invert().heightGrid().write(o0)`. `AdmittedChainsRun` names
  the two (`BindsUnsampledSurface`, `SamplesGroupRoute`); that there is no third
  is proved (`AdmittedChainsAlwaysRun`).
  Both programs were rendered with the built library, which throws at the places
  the traces show.
- *Volume size in a group* (`volume_sizes_groups`). A group inherits the volume
  size once, from what came into it, where the design note has it before every
  step. In a group of an animated noise3d with `volumeSize: x16` and flow3d
  behind it, flow3d runs with its default 32 on a 16 x 256 atlas; its pass
  follows the extent of the input, so nothing is reported.
- *Cycles through chain arguments* (`dsl_scope_cycles`). The path of resolving
  lets is not passed through a chain argument, so `let a = (solid(color: a))`
  used in `noise().blendMode(tex: a)`, or `let p = blendMode(tex: p())` used as
  `noise().p()`, does not end in "Automation cycle detected" but in a stack
  overflow of the process, also with the built library.

Met on the way, and not worth a run: `resource.hpp` says that a pin keeps a
resource unretired, the public `retire` ignores pins (the executor never calls
it); `iteration.hpp` lists three rules that form groups, the scan has a fourth
for noise3d followed by flow3d; in a loop region without `pointsEmit` two steps
like `points/flow` of different `stateSize` render into destinations of
different size, which the code rejects and no document excludes, hence the
condition in `MrtDestinationsFit`; a let that another let has resolved before makes
oscillators nest deeper than `kMaxAutomationDepth`; and `read(solid())` drops
its chain, since only effects carry the chains of their arguments
(`KeepsArguments` excludes it from two properties).

## 6. Not modelled

Most of the repository is not control. Of some 121 600 lines, 84 000 are
generated code and data (`typed_generated/typed_slice.cpp` 44 175 lines of
shader kernels, `generated/effect_catalog.cpp` 39 887 lines of definitions), and
another 8 000 a table of reciprocals (`metal_reciprocal_data.cpp`) and a copy of
a reference implementation of fdlibm. The models use the catalog by the shapes
of definition that it contains, not line by line, so the part of the source that
they translate stays small: it is `graph/`, `pass_runner.cpp` and half of
`dsl/compiler.cpp`.

- *Pixels, uniforms, formats, floating point* (kernels, hand-written effects,
  scatter and mesh rasterization, fdlibm and Metal numerics): functions without
  state, whose results the repository tests bit by bit against recorded oracles.
- *Automation*: a pure function of time and a schedule in floating point; how
  oscillators nest in a program is in `CompileScope`.
- *Lexer and parser*: recursive descent over text without state beyond a cursor;
  `CompileScope` starts from its result.
- *Compiler*: search namespaces, the render directive, snapshots, availability
  and the normalization of values by type.
- *Executor*: binding of uniforms, MIDI and audio routes, quantization and the
  authentication of factories, ABIs and formats, which do not look at the bundle.
  They appear as the ways in which a step may fail.
- *PNG, command line, generator, parity and release tooling*: I/O and offline.

## 7. Plan

1. `ResourceArena` - checked and proved.
2. `GraphExecutor` refining `ChainSemantics` - checked and proved, the
   refinement too.
3. `IterationGroups` - checked and proved.
4. `IteratedGroup` - checked and proved.
5. `PassRunner` - checked and proved.
6. `PlanAdmission` - checked and proved: grouping, flags, the refinement of the
   scan, the agreement of dry run and execution on the bundle, and that admitted
   chains run but for the two gaps.
7. `VolumeSizes` - checked and proved.
8. `CompileScope` - checked, its safety proved; termination only checked.
9. Open: the search namespaces and the render directive of the compiler.
