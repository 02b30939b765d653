SPECIFICATION Spec
CONSTANTS
    Programs <- MCPrograms
    Expressions <- MCExpressions
    Names = {"a", "b", "c"}
    Effects = {"solid", "mix"}
    Parameters <- MCParameters
    OscKinds = {"sine"}
    MaxDepth = 1
    MaxStack = 14
INVARIANTS
    OnlyChainsRecurse
    HiddenSurfacesAreRendered
    CompilesBySubstitution
PROPERTIES
    Terminates
    EvaluatedOnce
