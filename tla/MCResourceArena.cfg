SPECIFICATION Spec
CONSTANTS
    Resources = {r1, r2, r3}
    Names = {outputTex, o0}
    NoResource = NoResource
    MaxCount = 2
SYMMETRY Symmetry
INVARIANTS
    TypeOK
    OwnedExactlyWhileHeld
    ArenaWellFormed
PROPERTIES
    RetirementIsFinal
