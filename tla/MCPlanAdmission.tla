-------------------------- MODULE MCPlanAdmission --------------------------
(***************************************************************************)
(* Instance of PlanAdmission for TLC: one step for each shape of the       *)
(* generated catalog, and each parameter value, that one of the three      *)
(* parts tells apart.                                                      *)
(***************************************************************************)
EXTENDS PlanAdmission, TLC

Nameless == Effect("image", FALSE, <<>>, {}, <<>>, NoRoute, NoRoute)

Plain ==
    [boundary |-> FALSE, role |-> "none", declaresXyz |-> FALSE,
     references |-> FALSE, iterated |-> FALSE, generator |-> FALSE,
     speed |-> "absent", ticks |-> FALSE, id |-> "other"]

Iterated == [Plain EXCEPT !.iterated = TRUE, !.ticks = TRUE]

Step(effect, scan) ==
    [kind |-> "effect", names |-> <<>>, scan |-> scan, effect |-> effect, textures |-> {},
     binding |-> <<>>, typed |-> <<>>, zero |-> FALSE, mesh |-> FALSE, arguments |-> <<>>]

BuiltIn(kind, names) ==
    [Step(Nameless, [Plain EXCEPT !.boundary = TRUE]) EXCEPT !.kind = kind, !.names = names]

\* The same step with iterationCount 0.
Zero(s) == [s EXCEPT !.zero = TRUE, !.scan.ticks = FALSE]

Runs(inputs, outputs) == Pass(inputs, outputs, FALSE, {1})
Off(inputs, outputs)  == Pass(inputs, outputs, FALSE, {0})

Image(opens, passes) == Effect("image", opens, <<>>, {}, passes, NoRoute, NoRoute)

Solid  == Step(Image(TRUE, <<Runs({}, <<"outputTex">>)>>), [Plain EXCEPT !.generator = TRUE])
Moving == [Solid EXCEPT !.scan.speed = "moving"]
Invert == Step(Image(FALSE, <<Runs({"inputTex"}, <<"outputTex">>)>>), Plain)

\* mixer/*: a surface parameter, bound to a surface or to a chain argument.
Mixer(surface, arguments) ==
    [Step(Image(FALSE, <<Runs({"inputTex", "tex"}, <<"outputTex">>)>>), Plain)
       EXCEPT !.binding = ("tex" :> surface), !.arguments = arguments]

Argument(reads, writes, hidden) == [reads |-> reads, writes |-> writes, publishes |-> hidden]

\* render/meshRender, which samples its own input after it publishes outputTex.
MeshRender ==
    [Step(Image(FALSE, <<Runs({}, <<"outputTex">>), Runs({"inputTex"}, <<"outputTex">>)>>), Plain)
       EXCEPT !.mesh = TRUE]

\* filter/feedback
Feedback ==
    [Step(Image(FALSE, <<Runs({"inputTex", "_selfTex"}, <<"outputTex">>),
                         Runs({"outputTex"}, <<"_selfTex">>)>>), Iterated)
       EXCEPT !.textures = {"_selfTex"}]

\* synth/cellularAutomata
Cellular(surface) ==
    [Step(Image(TRUE, <<Runs({"ca_state", "tex"}, <<"ca_state">>),
                        Runs({"ca_state", "tex"}, <<"outputTex">>)>>),
          [Iterated EXCEPT !.generator = TRUE])
       EXCEPT !.textures = {"ca_state"}, !.binding = ("tex" :> surface)]

LoopBegin ==
    Step(Effect("loop-begin", FALSE, <<>>, {},
                <<Runs({"inputTex", "global_accum"}, <<"outputTex">>)>>, NoRoute, NoRoute),
         [Iterated EXCEPT !.role = "begin"])

LoopEnd ==
    Step(Effect("loop-end", FALSE, <<>>, {},
                <<Runs({"inputTex"}, <<"global_accum">>), Runs({"inputTex"}, <<"outputTex">>)>>,
                NoRoute, NoRoute),
         [Plain EXCEPT !.role = "end"])

PointsEmit ==
    [Step(Image(FALSE, <<Runs({"global_xyz"}, <<"global_xyz">>),
                         Runs({"inputTex"}, <<"outputTex">>)>>),
          [Iterated EXCEPT !.declaresXyz = TRUE, !.references = TRUE])
       EXCEPT !.textures = {"global_xyz"}]

\* points/heightGrid: particle state that it does not declare, not iterated.
HeightGrid ==
    [Step(Image(FALSE, <<Runs({"global_xyz", "heightTex"}, <<"global_xyz">>),
                         Runs({"inputTex"}, <<"outputTex">>)>>),
          [Plain EXCEPT !.references = TRUE])
       EXCEPT !.binding = ("heightTex" :> "input")]

\* render/pointsBillboardRender: with blendMode 2 no pass samples the sprite.
Billboard(sprite) ==
    [Step(Image(FALSE, <<sprite, Runs({"inputTex", "billboard_trail"}, <<"outputTex">>)>>),
          [Iterated EXCEPT !.references = TRUE])
       EXCEPT !.textures = {"billboard_trail"}, !.binding = ("tex" :> "o1")]

Deposit   == Billboard(Runs({"global_xyz", "tex"}, <<"billboard_trail">>))
NoDeposit == Billboard(Off({"global_xyz", "tex"}, <<"billboard_trail">>))

Noise3D ==
    Step(Effect("volume-generator", TRUE, <<>>, {}, <<Runs({}, <<"volumeCache", "geoBuffer">>)>>,
                "volumeCache", "geoBuffer"),
         [Plain EXCEPT !.id = "noise3d", !.speed = "moving"])

\* filter3d/flow3d: no pass publishes the geometry it declares.
Flow3D ==
    [Step(Effect("volume-filter", FALSE, <<>>, {},
                 <<Runs({"flow_state", "inputTex3d", "inputGeo"}, <<"flow_state">>),
                   Runs({"inputTex3d"}, <<"flow_blended">>)>>, "flow_blended", "geoBuffer"),
          [Iterated EXCEPT !.id = "flow3d"])
       EXCEPT !.textures = {"flow_state", "flow_blended", "geoBuffer"}]

\* synth3d/cellularAutomata3d: a volume parameter, seeded by its own output.
Cellular3D ==
    [Step(Effect("volume-generator", TRUE, <<>>, {},
                 <<Runs({"ca3_state", "source"}, <<"ca3_state">>)>>, "ca3_state", "geoBuffer"),
          Iterated)
       EXCEPT !.textures = {"ca3_state", "geoBuffer"}, !.typed = ("source" :> "volume")]

Palette3D ==
    Step(Effect("volume-filter", FALSE, <<>>, {}, <<Runs({"inputTex3d"}, <<"volumeCache">>)>>,
                "volumeCache", "inputGeo"), Plain)

Render3D ==
    Step(Effect("volume-renderer", FALSE, <<>>, {},
                <<Runs({"inputTex3d", "inputGeo"}, <<"outputTex", "screenGeo">>)>>,
                "inputTex3d", "screenGeo"), Plain)

MCSteps ==
    {BuiltIn("read", <<"o1">>), BuiltIn("write", <<"o0">>), BuiltIn("read3d", <<"vol0", "geo0">>),
     BuiltIn("write3d", <<"vol1", "geo1">>), BuiltIn("write3d", <<"vol1", NoRoute>>),
     Solid, Moving, Invert, Mixer("o1", <<>>), Mixer("arg0", <<Argument("o1", "o2", "arg0")>>),
     MeshRender, Feedback, Zero(Feedback), Cellular("null"), Cellular("input"),
     Zero(Cellular("input")), LoopBegin, Zero(LoopBegin), LoopEnd,
     PointsEmit, Zero(PointsEmit), HeightGrid, Deposit, NoDeposit,
     Noise3D, Flow3D, Zero(Flow3D), Cellular3D, Zero(Cellular3D), Palette3D, Render3D}

MCParticles == {"global_xyz"}
MCWritten   == {"o1", "vol0", "geo0"}
MCLeftovers == {"outputTex", "volumeCache", "geoBuffer"}
MCSurfaces  == {"o0", "o1", "o2", "arg0", "vol0", "geo0", "vol1", "geo1"}
=============================================================================
