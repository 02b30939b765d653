SPECIFICATION Spec
CONSTANTS
    Resources <- MCResources
    Names <- MCNames
    NoResource = 0
    MaxCount = 2
    Catalog <- VolumeCatalog
    Surfaces <- MCSurfaces
    NoRoute = ""
    ChainSurfaces = {"o0"}
    Inlines <- OneInline
    HoldNames <- FourHolds
    Seeds <- NoNames
    Volumes = {"vol0"}
    Geometries = {"geo0"}
    GroupVolume = "global_ca_state"
    GroupGeometry = "geoBuffer"
    MaxLength = 3
    MaxArgument = 2
    MaxChains = 1
INVARIANTS
    NoDanglingPointer
PROPERTIES
    ImplementsValueSemantics
