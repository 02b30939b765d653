-------------------------- MODULE ChainSemantics ---------------------------
(***************************************************************************)
(* What the execution of a plan promises, with surfaces as plain values:   *)
(* no arena, no pointers, no lifetimes.  This is the bundle semantics that *)
(* docs/port-engineering/chain-bundle-volume-geometry-threading.md gives   *)
(* for the renderer the executor ports: a chain threads {image, volume,    *)
(* geometry}; an effect owns a map from routes to values that starts from  *)
(* its inputs; chain arguments run before the step that binds them and     *)
(* leave nothing behind but the surface they publish.                      *)
(*                                                                         *)
(* A value stands for the pixels of one rendered surface.  A new value is  *)
(* any one that nothing in the state still denotes, so an implementation   *)
(* that recycles storage refines this module only if it never recycles     *)
(* what the semantics can still read.                                      *)
(***************************************************************************)
EXTENDS EffectCatalog, FiniteSets

CONSTANTS
    Catalog,      \* the effect definitions a plan may use
    Values,
    NoValue       \* the null image, volume, geometry, surface or route

VARIABLES
    surfaces,     \* the value of every surface of the program
    stack,        \* the bundle of the running chain, over those of the chains
                  \* whose step waits for it as an argument
    effect,       \* the effect being run, its next pass, its map of routes
                  \* and the last surface it rendered
    reads,        \* what the pass being run samples, by route
    phase         \* "chain", "effect", "pass", "done" or "failed"

vars == <<surfaces, stack, effect, reads, phase>>

EmptyBundle == [image |-> NoValue, volume |-> NoValue, geometry |-> NoValue]

\* The effect variable between two effects.
Idle == [definition |-> NoEffect, binding |-> <<>>, next |-> 1,
         map |-> <<>>, output |-> NoValue]

Top == stack[Len(stack)]

\* A component of the running bundle is still looked at: a pass to come samples
\* it, or the step hands it on.  Between two effects every component is.
StillNeeded(route, output) ==
    \/ PassesThrough(output)
    \/ \E i \in effect.next .. Len(effect.definition.passes) :
          route \in effect.definition.passes[i].inputs

\* Every value that the rest of the execution may still look at.
InUse ==
    LET waiting  == UNION {{b.image, b.volume, b.geometry} :
                             b \in {stack[i] : i \in 1 .. Len(stack) - 1}}
        volume   == IF StillNeeded("inputTex3d", effect.definition.outputTex3d)
                    THEN {Top.volume} ELSE {}
        geometry == IF StillNeeded("inputGeo", effect.definition.outputGeo)
                    THEN {Top.geometry} ELSE {}
        inEffect == {effect.map[r] : r \in DOMAIN effect.map} \cup {effect.output}
    IN  {surfaces[s] : s \in Surfaces} \cup waiting
          \cup {Top.image} \cup volume \cup geometry \cup inEffect

\* Pairwise distinct new values, one per route.
Fresh(routes) ==
    {f \in [routes -> Values \ InUse] :
        \A r, q \in routes : f[r] = f[q] => r = q}

Init ==
    /\ surfaces \in [Surfaces -> Values \cup {NoValue}]
    /\ \A s, t \in Surfaces : surfaces[s] = surfaces[t] => s = t \/ surfaces[s] = NoValue
    /\ stack = <<EmptyBundle>>
    /\ effect = Idle
    /\ reads = <<>>
    /\ phase = "chain"

-----------------------------------------------------------------------------

SetTop(bundle) == stack' = [stack EXCEPT ![Len(stack)] = bundle]

\* A chain starts with an empty bundle, whatever the previous one left.
NextChain ==
    /\ phase = "chain" /\ Len(stack) = 1
    /\ SetTop(EmptyBundle)
    /\ UNCHANGED <<surfaces, effect, reads, phase>>

Read(s) ==
    /\ phase = "chain" /\ surfaces[s] # NoValue
    /\ SetTop([EmptyBundle EXCEPT !.image = surfaces[s]])
    /\ UNCHANGED <<surfaces, effect, reads, phase>>

Write(s) ==
    /\ phase = "chain" /\ Top.image # NoValue
    /\ surfaces' = [surfaces EXCEPT ![s] = Top.image]
    /\ UNCHANGED <<stack, effect, reads, phase>>

Read3D(v, g) ==
    /\ phase = "chain" /\ surfaces[v] # NoValue
    /\ SetTop([image |-> NoValue, volume |-> surfaces[v], geometry |-> surfaces[g]])
    /\ UNCHANGED <<surfaces, effect, reads, phase>>

Write3D(v, g) ==
    /\ phase = "chain"
    /\ surfaces' =
         [s \in Surfaces |->
            IF s = v /\ Top.volume # NoValue THEN Top.volume
            ELSE IF s = g /\ Top.geometry # NoValue THEN Top.geometry
            ELSE surfaces[s]]
    /\ UNCHANGED <<stack, effect, reads, phase>>

\* A chain argument: an empty bundle on top of a suspended one, which the end
\* of the argument uncovers as it was.
EnterArgument ==
    /\ phase = "chain"
    /\ stack' = Append(stack, EmptyBundle)
    /\ UNCHANGED <<surfaces, effect, reads, phase>>

LeaveArgument(s, more) ==
    /\ phase = "chain" /\ Len(stack) > 1 /\ Top.image # NoValue
    /\ surfaces' = [surfaces EXCEPT ![s] = Top.image]
    /\ LET outer == SubSeq(stack, 1, Len(stack) - 1)
       IN  stack' = IF more THEN Append(outer, EmptyBundle) ELSE outer
    /\ UNCHANGED <<effect, reads, phase>>

\* An iterated group consumes the bundle and leaves another: each component
\* is dropped, kept or new.
IteratedGroup ==
    LET after == stack'[Len(stack)]
        new   == {after.image, after.volume, after.geometry}
                   \ {NoValue, Top.image, Top.volume, Top.geometry}
    IN  /\ phase = "chain" /\ Len(stack') = Len(stack)
        /\ SetTop([image |-> after.image, volume |-> after.volume,
                   geometry |-> after.geometry])
        /\ new \cap InUse = {}
        /\ after.image \in {NoValue, Top.image} \cup new
        /\ after.volume \in {NoValue, Top.volume} \cup new
        /\ after.geometry \in {NoValue, Top.geometry} \cup new
        /\ UNCHANGED <<surfaces, effect, reads, phase>>

-----------------------------------------------------------------------------

\* The map of an effect starts with its cleared textures; its inputs are the
\* running bundle, which no pass of the effect changes.
BeginEffect(d, binding) ==
    /\ phase = "chain"
    /\ \E fresh \in Fresh({d.cleared[i] : i \in 1 .. Len(d.cleared)}) :
         effect' = [definition |-> d, binding |-> binding, next |-> 1,
                    map |-> fresh, output |-> Top.image]
    /\ phase' = "effect"
    /\ UNCHANGED <<surfaces, stack, reads>>

\* The value a route has for a pass of the effect.
Resolve(route) ==
    LET bound == effect.binding[route]
    IN  CASE IsNull(effect.definition, effect.binding, route) -> NoValue
          [] route \in effect.definition.parameters /\ bound \in Surfaces ->
               surfaces[bound]
          [] route \in effect.definition.parameters /\ bound = "input" -> Top.image
          [] route = "inputTex"   -> Top.image
          [] route = "inputTex3d" -> Top.volume
          [] route = "inputGeo"   -> Top.geometry
          [] OTHER -> IF route \in DOMAIN effect.map THEN effect.map[route]
                                                     ELSE NoValue

Selected(name, input) ==
    IF PassesThrough(name) THEN input
    ELSE IF name \in DOMAIN effect.map THEN effect.map[name] ELSE NoValue

HasPass == phase = "effect" /\ effect.next <= Len(effect.definition.passes)

ThePass == effect.definition.passes[effect.next]

BindPass ==
    /\ HasPass
    /\ \A r \in ThePass.inputs :
          Resolve(r) # NoValue \/ IsNull(effect.definition, effect.binding, r)
    /\ reads' = [r \in Sampled(ThePass) |->
                    IF r # "destination" THEN Resolve(r)
                    ELSE Selected(ThePass.outputs[1], NoValue)]
    /\ phase' = "pass"
    /\ UNCHANGED <<surfaces, stack, effect>>

\* The outputs of a pass enter the map together; the last slot is the output
\* of the effect so far.  The pass may run again.
PublishPass(again) ==
    /\ phase = "pass"
    /\ \E fresh \in Fresh(Routes(ThePass)) :
         effect' = [effect EXCEPT
                      !.map    = [r \in DOMAIN @ \cup Routes(ThePass) |->
                                    IF r \in Routes(ThePass) THEN fresh[r] ELSE @[r]],
                      !.output = fresh[ThePass.outputs[Len(ThePass.outputs)]],
                      !.next   = IF again THEN @ ELSE @ + 1]
    /\ reads' = <<>>
    /\ phase' = "effect"
    /\ UNCHANGED <<surfaces, stack>>

SkipPass ==
    /\ HasPass /\ 0 \in ThePass.repeats
    /\ effect' = [effect EXCEPT !.next = @ + 1]
    /\ UNCHANGED <<surfaces, stack, reads, phase>>

\* outputTex wins over the last pass; a volume effect without one keeps the
\* image that came in.
EndEffect ==
    /\ phase = "effect" /\ ~HasPass
    /\ LET d     == effect.definition
           image == IF "outputTex" \in DOMAIN effect.map THEN effect.map["outputTex"]
                    ELSE IF IsVolumeDomain(d.domain) THEN Top.image ELSE effect.output
       IN  SetTop([image    |-> image,
                   volume   |-> Selected(d.outputTex3d, Top.volume),
                   geometry |-> Selected(d.outputGeo, Top.geometry)])
    /\ effect' = Idle
    /\ phase' = "chain"
    /\ UNCHANGED <<surfaces, reads>>

-----------------------------------------------------------------------------

\* A failure ends the whole execution, from anywhere, without publishing.
Fail ==
    /\ phase \in {"chain", "effect", "pass"}
    /\ phase' = "failed"
    /\ stack' = <<EmptyBundle>>
    /\ effect' = Idle
    /\ reads' = <<>>
    /\ UNCHANGED surfaces

Finish(s) ==
    /\ phase = "chain" /\ Len(stack) = 1
    /\ surfaces[s] # NoValue
    /\ phase' = "done"
    /\ UNCHANGED <<surfaces, stack, effect, reads>>

Next ==
    \/ NextChain \/ EnterArgument \/ IteratedGroup \/ Fail
    \/ \E s \in Surfaces : Read(s) \/ Write(s) \/ Finish(s)
    \/ \E s \in Surfaces, more \in BOOLEAN : LeaveArgument(s, more)
    \/ \E v, g \in Surfaces \cup {NoRoute} : Write3D(v, g)
    \/ \E v, g \in Surfaces : Read3D(v, g)
    \/ \E d \in Catalog \ {NoEffect} : \E binding \in Bindings(d) : BeginEffect(d, binding)
    \/ BindPass \/ SkipPass \/ EndEffect
    \/ \E again \in BOOLEAN : PublishPass(again)

Spec == Init /\ [][Next]_vars
=============================================================================
