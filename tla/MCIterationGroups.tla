------------------------- MODULE MCIterationGroups -------------------------
(***************************************************************************)
(* Instance of IterationGroups for TLC: one step for each shape that the   *)
(* definitions of src/effects/generated/effect_catalog.cpp, with the       *)
(* parameters a program can give them, present to the scan.                *)
(***************************************************************************)
EXTENDS IterationGroups

\* An effect that no rule of the scan looks at: filter/blur.
Plain ==
    [boundary |-> FALSE, role |-> "none", declaresXyz |-> FALSE,
     references |-> FALSE, iterated |-> FALSE, generator |-> FALSE,
     speed |-> "absent", ticks |-> FALSE, id |-> "other"]

Boundary    == [Plain EXCEPT !.boundary = TRUE]
LoopBegin   == [Plain EXCEPT !.role = "begin", !.iterated = TRUE, !.ticks = TRUE]
LoopEnd     == [Plain EXCEPT !.role = "end"]
Feedback    == [Plain EXCEPT !.iterated = TRUE, !.ticks = TRUE]
StillImage  == [Plain EXCEPT !.generator = TRUE, !.speed = "zero"]
MovingImage == [Plain EXCEPT !.generator = TRUE, !.speed = "moving"]
Cellular    == [MovingImage EXCEPT !.iterated = TRUE, !.ticks = TRUE]
PointsEmit  == [Plain EXCEPT !.declaresXyz = TRUE, !.references = TRUE,
                             !.iterated = TRUE, !.ticks = TRUE]
IdleEmit    == [PointsEmit EXCEPT !.ticks = FALSE]
Flock       == [Plain EXCEPT !.references = TRUE, !.iterated = TRUE, !.ticks = TRUE]
HeightGrid  == [Plain EXCEPT !.references = TRUE]
Noise3D     == [Plain EXCEPT !.id = "noise3d", !.speed = "moving"]
StillNoise  == [Plain EXCEPT !.id = "noise3d", !.speed = "zero"]
Flow3D      == [Flock EXCEPT !.id = "flow3d"]
IdleFlow    == [Flow3D EXCEPT !.ticks = FALSE]

MCSteps == {Plain, Boundary, LoopBegin, LoopEnd, Feedback, StillImage,
            MovingImage, Cellular, PointsEmit, IdleEmit, Flock, HeightGrid,
            Noise3D, StillNoise, Flow3D, IdleFlow}
=============================================================================
