SPECIFICATION Spec
CONSTANTS
    Groups <- MCGroups
    Volumes = {"vol0"}
    Seeds <- MCSeeds
    MaxPixels = 27
    Word = 1024
INVARIANTS
    EveryStepFollowsInput
