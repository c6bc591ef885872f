CONSTANTS
    v1 = v1
    v2 = v2
    NullValue = NullValue
    Default = Default
    MaxParams = 4
    MaxBound = 6
    MaxTargets = 3
    BindCalls <- MC_BindCalls
    Rows <- MC_Rows
SPECIFICATION Spec
INVARIANTS
    BindsInPlaceholderOrder
    CollectsInColumnOrder
