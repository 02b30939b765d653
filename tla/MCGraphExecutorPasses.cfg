SPECIFICATION Spec
CONSTANTS
    Resources <- MCResources
    Names <- MCNames
    NoResource = 0
    MaxCount = 2
    Catalog <- ImageCatalog
    Surfaces <- MCSurfaces
    NoRoute = ""
    ChainSurfaces = {"o0"}
    Inlines <- TwoInlines
    HoldNames <- FourHolds
    Seeds <- OneSeed
    Volumes = {}
    Geometries = {}
    GroupVolume = "global_ca_state"
    GroupGeometry = "geoBuffer"
    MaxLength = 3
    MaxArgument = 2
    MaxChains = 2
INVARIANTS
    NoDanglingPointer
    LivePointersAreBindable
    HoldersBalance
    NothingLingers
PROPERTIES
    ImplementsValueSemantics
