SPECIFICATION Spec
CONSTANTS
    Steps <- MCSteps
    MaxLength = 4
INVARIANTS
    TypeOK
    Partition
    RunsEveryStep
    SingleStateOwner
    ThrowsExactlyWhenUnbalanced
    MatchesIntent
