-------------------------- MODULE MCGraphExecutor --------------------------
(***************************************************************************)
(* Instance of GraphExecutor for TLC.  The catalog has one effect for each *)
(* shape of pass list that src/effects/generated/effect_catalog.cpp        *)
(* contains and that the arena tells apart.                                *)
(***************************************************************************)
EXTENDS GraphExecutor, TLC

\* synth/* generators: one pass, no input.
Solid == Effect("image", TRUE, <<>>, {}, <<Pass({}, <<"outputTex">>, FALSE, {1})>>,
                NoRoute, NoRoute)

\* filter/blur: two passes through a declared texture; the first may be disabled.
Blur == Effect("image", FALSE, <<>>, {},
               <<Pass({"inputTex"}, <<"blurTex">>, FALSE, {1}),
                 Pass({"inputTex", "blurTex"}, <<"outputTex">>, FALSE, {0, 1, 2})>>,
               NoRoute, NoRoute)

\* mixer/*: a surface parameter, bound to a surface or to a chain argument.
Mixer == Effect("image", FALSE, <<>>, {"tex"},
                <<Pass({"inputTex", "tex"}, <<"outputTex">>, FALSE, {1})>>,
                NoRoute, NoRoute)

\* filter/wormhole: clear, scatter in place, blend.
Wormhole == Effect("image", FALSE, <<>>, {},
                   <<Pass({}, <<"wormhole_accum">>, FALSE, {1}),
                     Pass({"inputTex"}, <<"wormhole_accum">>, TRUE, {1}),
                     Pass({"inputTex", "wormhole_accum"}, <<"outputTex">>, FALSE, {1})>>,
                   NoRoute, NoRoute)

\* render/meshRender: publishes outputTex, then samples its own input again.
MeshRender == Effect("image", FALSE, <<>>, {},
                     <<Pass({}, <<"outputTex">>, FALSE, {1}),
                       Pass({"inputTex"}, <<"outputTex">>, TRUE, {1})>>,
                     NoRoute, NoRoute)

\* synth/roll: a cleared feedback texture.
Roll == Effect("image", TRUE, <<"_rollFb">>, {},
               <<Pass({"_rollFb"}, <<"_rollFb">>, FALSE, {1}),
                 Pass({"_rollFb"}, <<"outputTex">>, FALSE, {1})>>, NoRoute, NoRoute)

\* synth3d/noise3d: an MRT pass publishes volume and geometry.
Noise3D == Effect("volume-generator", TRUE, <<>>, {},
                  <<Pass({}, <<"volumeCache", "geoBuffer">>, FALSE, {1})>>,
                  "volumeCache", "geoBuffer")

\* synth3d/heightmap3d: the same, from two surface parameters.
Heightmap3D == Effect("volume-generator", TRUE, <<>>, {"heightTex", "tex"},
                      <<Pass({"heightTex", "tex"}, <<"volumeCache", "geoBuffer">>, FALSE, {1})>>,
                      "volumeCache", "geoBuffer")

\* filter3d/palette3d: publishes over the route its input volume has.
Palette3D == Effect("volume-filter", FALSE, <<>>, {},
                    <<Pass({"inputTex3d"}, <<"volumeCache">>, FALSE, {1})>>,
                    "volumeCache", "inputGeo")

\* render/render3d
Render3D == Effect("volume-renderer", FALSE, <<>>, {},
                   <<Pass({"inputTex3d", "inputGeo"}, <<"outputTex", "screenGeoBuffer">>,
                          FALSE, {1})>>,
                   "inputTex3d", "screenGeoBuffer")

\* The shapes that differ in how their passes use the arena.
ImageCatalog  == {Solid, Roll, Blur, Wormhole, MeshRender, Mixer}
VolumeCatalog == {Noise3D, Heightmap3D, Palette3D, Render3D, NoEffect}

NoNames     == <<>>
OneInline   == <<"inline0">>
TwoInlines  == <<"inline0", "inline1">>
FourHolds   == <<"hold0", "hold1", "hold2", "hold3">>
MCSurfaces  == ChainSurfaces \cup Volumes \cup Geometries \cup {Inlines[i] : i \in 1 .. Len(Inlines)}
MCRoutes    == UNION {UNION {Routes(d.passes[i]) : i \in 1 .. Len(d.passes)} : d \in Catalog}
                 \cup UNION {{d.cleared[i] : i \in 1 .. Len(d.cleared)} : d \in Catalog}
MCNames     == MCSurfaces \cup {HoldNames[i] : i \in 1 .. Len(HoldNames)}
                 \cup MCRoutes \cup {"outputTex", GroupVolume, GroupGeometry}
MCResources == 1 .. 17
OneSeed     == <<"o0">>
=============================================================================
