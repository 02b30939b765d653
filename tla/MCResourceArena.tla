-------------------------- MODULE MCResourceArena --------------------------
\* Instance of ResourceArena for TLC: the sets are model values of the cfg,
\* interchangeable, so their permutations are a sound symmetry.
EXTENDS ResourceArena, TLC

Symmetry == Permutations(Resources) \cup Permutations(Names)
=============================================================================
