SPECIFICATION Spec
CONSTANTS
    Groups <- MCGroups
    Volumes = {"vol0", "vol1"}
    Seeds <- MCSeeds
    MaxPixels = 27
    Word = 1024
INVARIANTS
    TypeOK
    ThreadedSizeIsWidth
    RunsOnWellFormed
    FollowsInput
    RejectsOnlyMalformed
