SPECIFICATION Spec
CONSTANTS
    Surfaces <- MCSurfaces
    NoRoute = "none"
    Steps <- MCSteps
    MaxLength = 4
    ParticleState <- MCParticles
    Written <- MCWritten
    Leftovers <- MCLeftovers
CHECK_DEADLOCK FALSE
INVARIANT
    AuthenticatesFirst
