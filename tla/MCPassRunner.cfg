SPECIFICATION Spec
CONSTANTS
    Extents <- MCExtents
INVARIANTS
    CacheHoldsOpenQuads
    ReplaysOwnCorners
    StoresEveryPixel
    InvocationOrder
