\* Every two pairs of the types, one after the other.
SPECIFICATION FairUnifySpec
CONSTANTS
    Types <- MCTypes
    Vars <- MCVars
    Shape <- MCShape
    VarsIn <- MCVarsIn
    Satisfies <- MCSatisfies
    Asked <- MCAsked
    Unbound = "unbound"
    MaxCalls = 2
    MaxDepth = 12
INVARIANTS
    UnifyTypeOK
    SubstitutionEnds
    UnifiedTypesMatch
PROPERTIES
    SolutionsStay
    UnifyReturns
CHECK_DEADLOCK FALSE
