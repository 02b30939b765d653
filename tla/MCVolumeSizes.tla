--------------------------- MODULE MCVolumeSizes ---------------------------
(***************************************************************************)
(* Instance of VolumeSizes for TLC: one effect for each shape of volume    *)
(* effect in src/effects/generated/effect_catalog.cpp, and the groups that *)
(* compute_iteration_groups makes of them.                                 *)
(***************************************************************************)
EXTENDS VolumeSizes

Effect(domain, output, samples, image) ==
    [domain |-> domain, output |-> output, samples |-> samples, image |-> image]

Step(effect, size) == [effect |-> effect, size |-> size]

\* synth/solid, filter/blur
Solid == Step(Effect("image", "input", {}, TRUE), NoSize)
Blur  == Step(Effect("image", "input", {"image"}, TRUE), NoSize)

\* synth3d/noise3d and cellularAutomata3d; filter3d/palette3d and flow3d
Generator(n) == Step(Effect("volume-generator", "parameter extent", {}, FALSE), n)
Filter(n)    == Step(Effect("volume-filter", "input extent", {"volume"}, FALSE), n)

\* render/render3d
Renderer(n) == Step(Effect("volume-renderer", "input", {"volume"}, TRUE), n)

LoopBegin == Step(Effect("loop-begin", "input", {"image"}, TRUE), NoSize)
LoopEnd   == Step(Effect("loop-end", "input", {"image"}, TRUE), NoSize)

Declared == {2, 3}

Single(s)       == [steps |-> <<s>>, iterated |-> FALSE, loop |-> FALSE, ticks |-> 1]
Iterated(s, n)  == [steps |-> <<s>>, iterated |-> TRUE, loop |-> FALSE, ticks |-> n]
Pair(s, t, n)   == [steps |-> <<s, t>>, iterated |-> TRUE, loop |-> FALSE, ticks |-> n]
Loop(body, n)   == [steps |-> <<LoopBegin>> \o body \o <<LoopEnd>>, iterated |-> TRUE,
                    loop |-> TRUE, ticks |-> n]

MCGroups ==
    {Single(Solid), Single(Blur)}
      \cup {Single(s) : s \in UNION {{Generator(n), Filter(n), Renderer(n)} : n \in Declared}}
      \cup {Iterated(s, n) : s \in UNION {{Generator(m), Filter(m)} : m \in Declared}, n \in 0 .. 2}
      \cup {Pair(Generator(m), Filter(k), n) : m, k \in Declared, n \in 1 .. 2}
      \cup {Loop(<<Filter(m), Renderer(k)>>, n) : m, k \in Declared, n \in {0, 2}}
      \cup {Loop(<<Generator(m), Filter(k)>>, 2) : m, k \in Declared}
      \cup {Loop(<<Blur>>, 2)}

\* Well-formed atlases of a declared size and of one that no step declares, one
\* too low and one too wide; the last is as wide as a surface may be.
MCSeeds == {Atlas(1), Atlas(2), [width |-> 3, height |-> 8], [width |-> 8, height |-> 3],
            [width |-> 27, height |-> 1]}
=============================================================================
