SPECIFICATION Spec
CONSTANTS
    Groups <- MCGroups
    Inputs <- MCInputs
    Published = {"o0"}
    Surfaces = {"o0", "o7"}
    NoRoute = ""
    ParticleState <- MCParticleState
    DefaultTicks = 2
    DefaultSize = 4
INVARIANTS
    SamplesLatestRendering
    StepsThreadTheBundle
    FeedbackIsPreviousTick
    HandsBackLegalBundle
    MrtDestinationsFit
