-------------------------- MODULE MCIteratedGroup --------------------------
(***************************************************************************)
(* Instance of IteratedGroup for TLC: a group for each shape that          *)
(* compute_iteration_groups can hand over, made of the definitions of      *)
(* src/effects/generated/effect_catalog.cpp, shortened where passes repeat *)
(* the same pattern.                                                       *)
(***************************************************************************)
EXTENDS IteratedGroup

\* An image filter that is not iterated.
Plain ==
    [domain |-> "image", textures |-> {},
     passes |-> <<Pass({"inputTex"}, <<"outputTex">>, FALSE, {1})>>,
     outputTex3d |-> NoRoute, outputGeo |-> NoRoute, surfaces |-> <<>>, typed |-> <<>>,
     iterated |-> FALSE, count |-> Absent, repeating |-> FALSE,
     stateSize |-> 0, inherits |-> FALSE]

\* synth/*: an animated image that feeds particles.
Moving == [Plain EXCEPT !.passes = <<Pass({}, <<"outputTex">>, FALSE, {1})>>]

\* filter/feedback: the second pass keeps the result for the next tick.
Feedback(n) ==
    [Plain EXCEPT !.iterated = TRUE, !.count = n, !.textures = {"_selfTex"},
       !.passes = <<Pass({"inputTex", "_selfTex"}, <<"outputTex">>, FALSE, {1}),
                    Pass({"outputTex"}, <<"_selfTex">>, FALSE, {1})>>]

\* filter/convolutionFeedback samples selfTex.
Convolution(n) ==
    [Plain EXCEPT !.iterated = TRUE, !.count = n, !.textures = {"_cfSharpened"},
       !.passes = <<Pass({"selfTex"}, <<"_cfSharpened">>, FALSE, {1}),
                    Pass({"inputTex", "_cfSharpened"}, <<"outputTex">>, FALSE, {0, 1})>>]

\* synth/reactionDiffusion: its own repeat counts the ticks.
Reaction(n) ==
    [Plain EXCEPT !.iterated = TRUE, !.count = n, !.repeating = TRUE,
       !.textures = {"global_rd_state"}, !.surfaces = [tex |-> "input"],
       !.passes = <<Pass({"global_rd_state", "tex"}, <<"global_rd_state">>, FALSE, {0, 1, 2}),
                    Pass({"global_rd_state", "tex"}, <<"outputTex">>, FALSE, {1})>>]

\* render/pointsEmit owns the particles.
Emit(n, size) ==
    [Plain EXCEPT !.iterated = TRUE, !.count = n, !.stateSize = size,
       !.textures = {"global_xyz", "global_rgba"},
       !.passes = <<Pass({"global_xyz", "global_rgba", "inputTex"},
                         <<"global_xyz", "global_rgba">>, FALSE, {1}),
                    Pass({"inputTex"}, <<"outputTex">>, FALSE, {1})>>]

\* points/flow and points/flock move them; flock has no stateSize of its own.
Flow(size) ==
    [Plain EXCEPT !.iterated = TRUE, !.count = 1, !.stateSize = size, !.inherits = TRUE,
       !.textures = {"global_flow_base_color"}, !.surfaces = [diffuseTex |-> "null"],
       !.passes = <<Pass({"global_xyz", "global_flow_base_color", "diffuseTex"},
                         <<"global_xyz", "global_flow_base_color">>, FALSE, {1}),
                    Pass({"inputTex"}, <<"outputTex">>, FALSE, {1})>>]

\* render/pointsRender draws them over the trail of the earlier ticks.
PointsRender ==
    [Plain EXCEPT !.iterated = TRUE, !.textures = {"global_points_trail"},
       !.passes = <<Pass({"global_points_trail"}, <<"global_points_trail">>, FALSE, {1}),
                    Pass({"global_xyz"}, <<"global_points_trail">>, TRUE, {0, 1}),
                    Pass({"inputTex", "global_points_trail"}, <<"outputTex">>, FALSE, {1})>>]

\* render/loopBegin and render/loopEnd around any filters.
LoopBegin(n) ==
    [Plain EXCEPT !.domain = "loop-begin", !.iterated = TRUE, !.count = n,
       !.passes = <<Pass({"inputTex", "global_accum"}, <<"outputTex">>, FALSE, {1})>>]
LoopEnd ==
    [Plain EXCEPT !.domain = "loop-end",
       !.passes = <<Pass({"inputTex"}, <<"global_accum">>, FALSE, {1}),
                    Pass({"inputTex"}, <<"outputTex">>, FALSE, {1})>>]

\* filter3d/palette3d: a new volume, the geometry that came in.
Palette3D ==
    [Plain EXCEPT !.domain = "volume-filter", !.textures = {"volumeCache"},
       !.passes = <<Pass({"inputTex3d"}, <<"volumeCache">>, FALSE, {1})>>,
       !.outputTex3d = "volumeCache", !.outputGeo = "inputGeo"]

\* synth3d/noise3d and filter3d/flow3d.
Noise3D ==
    [Plain EXCEPT !.domain = "volume-generator", !.textures = {"volumeCache", "geoBuffer"},
       !.passes = <<Pass({}, <<"volumeCache", "geoBuffer">>, FALSE, {1})>>,
       !.outputTex3d = "volumeCache", !.outputGeo = "geoBuffer"]
Flow3D(n) ==
    [Plain EXCEPT !.domain = "volume-filter", !.iterated = TRUE, !.count = n,
       !.textures = {"geoBuffer", "global_flow3d_state1", "global_flow3d_trail",
                     "global_flow3d_blended"},
       !.passes = <<Pass({"global_flow3d_state1", "inputTex3d", "inputGeo"},
                         <<"global_flow3d_state1">>, FALSE, {1}),
                    Pass({"global_flow3d_state1"}, <<"global_flow3d_trail">>, TRUE, {1}),
                    Pass({"inputTex3d", "global_flow3d_trail"},
                         <<"global_flow3d_blended">>, FALSE, {1})>>,
       !.outputTex3d = "global_flow3d_blended", !.outputGeo = "geoBuffer"]

\* synth3d/cellularAutomata3d: seeded by the volume that comes in, if any.
Automata3D(n) ==
    [Plain EXCEPT !.domain = "volume-generator", !.iterated = TRUE, !.count = n,
       !.textures = {"geoBuffer", "global_ca_state"}, !.typed = [source |-> "volume"],
       !.passes = <<Pass({"global_ca_state", "source"}, <<"global_ca_state">>, FALSE, {1})>>,
       !.outputTex3d = "global_ca_state", !.outputGeo = "geoBuffer"]

One(s)      == [steps |-> <<s>>, loop |-> FALSE]
Several(ss) == [steps |-> ss, loop |-> FALSE]
Loop(ss)    == [steps |-> ss, loop |-> TRUE]

MCGroups ==
    {One(Feedback(3)), One(Feedback(0)), One(Feedback(Absent)), One(Convolution(3)),
     One(Reaction(2)), One([Reaction(1) EXCEPT !.surfaces = [tex |-> "o0"]]),
     One([Reaction(1) EXCEPT !.surfaces = [tex |-> "o7"]]),
     One(Flow(0)), One(Flow(2)), One(Automata3D(2)), One(Automata3D(0)), One(Flow3D(2)),
     Several(<<Emit(2, 1), Flow(0), PointsRender>>),
     Several(<<Emit(2, 1), Flow(2), Flow(2)>>),
     Several(<<Moving, Emit(2, 1), Flow(2), PointsRender>>),
     Several(<<Noise3D, Flow3D(2)>>),
     Loop(<<LoopBegin(3), Plain, LoopEnd>>),
     Loop(<<LoopBegin(2), Palette3D, LoopEnd>>),
     Loop(<<LoopBegin(1), Flow(1), Flow(2), LoopEnd>>),
     Loop(<<LoopBegin(1), Flow(2), Emit(2, 1), LoopEnd>>),
     Loop(<<LoopBegin(2), Convolution(2), Feedback(2), LoopEnd>>)}

\* A volume never comes without the step that left it, geometry not without
\* a volume.
MCInputs == {{}, {"image"}, {"volume"}, {"image", "volume"}, {"volume", "geometry"}, Components}
MCParticleState == {"global_xyz", "global_rgba", "global_flow_base_color",
                    "global_points_trail", "global_flow3d_trail"}
=============================================================================
