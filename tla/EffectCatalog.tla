--------------------------- MODULE EffectCatalog ---------------------------
(***************************************************************************)
(* What an executed chain needs to know of an effect definition            *)
(* (include/noisemaker/effects/catalog_types.hpp): its domain, its passes  *)
(* and the routes they sample and publish.  Pixels, uniforms and extents   *)
(* are abstracted away.                                                    *)
(***************************************************************************)
EXTENDS Naturals, Sequences

CONSTANTS
    Surfaces,     \* the surfaces a program can read, write or bind by name
    NoRoute       \* an output a definition does not declare, `none` in write3d

\* One pass: the routes of its samplers, the routes it publishes in slot
\* order, whether its destination starts from the previous contents of its
\* route (scatter and mesh passes), and how often it may run: 0 stands for a
\* pass whose conditions disable it.
Pass(inputs, outputs, accumulates, repeats) ==
    [inputs |-> inputs, outputs |-> outputs,
     accumulates |-> accumulates, repeats |-> repeats]

\* cleared: the declared textures initialized before the first pass.
\* parameters: the routes that belong to a surface parameter.
\* opens: a generator, which the compiler admits only as the first step.
Effect(domain, opens, cleared, parameters, passes, outputTex3d, outputGeo) ==
    [domain |-> domain, opens |-> opens, cleared |-> cleared,
     parameters |-> parameters, passes |-> passes,
     outputTex3d |-> outputTex3d, outputGeo |-> outputGeo]

\* No effect is running.
NoEffect == Effect("image", FALSE, <<>>, {}, <<>>, NoRoute, NoRoute)

\* bundle::is_volume_domain
IsVolumeDomain(domain) == domain \notin {"image", "loop-begin", "loop-end"}

\* bundle::requires_output_image
RequiresOutputImage(domain) == domain \notin {"volume-generator", "volume-filter"}

\* validate_volume_output_shape: the part that does not look at extents.
RequiresOutputVolume(domain) ==
    IsVolumeDomain(domain) /\ domain # "volume-renderer"

\* bundle::is_passthrough_output_name, and an output that is not declared.
PassesThrough(name) ==
    name \in {NoRoute, "inputTex", "inputTex3d", "inputGeo"}

\* A surface parameter is unbound, bound to the chain's image, or to a surface.
Bindings(definition) ==
    [definition.parameters -> {"null", "input"} \cup Surfaces]
\* The route is a surface parameter the program left unbound: it samples an
\* empty image.
IsNull(definition, binding, route) ==
    route \in definition.parameters /\ binding[route] = "null"

\* What a pass looks at: its sampler routes and, when it accumulates, what its
\* destination held before.
Sampled(pass) == pass.inputs \cup IF pass.accumulates THEN {"destination"} ELSE {}

Routes(pass) == {pass.outputs[i] : i \in 1 .. Len(pass.outputs)}

LastSlot(pass) == pass.outputs[Len(pass.outputs)]

\* pass_enabled or pass_repeat may say so.
CanBeSkipped(pass) == 0 \in pass.repeats
=============================================================================
