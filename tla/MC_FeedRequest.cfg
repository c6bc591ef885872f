CONSTANTS
    ExcludeLimit = 2
    ValidAddresses <- MC_ValidAddresses
    Tip = 1000
    ArrayLimit = 2
SPECIFICATION Spec
INVARIANTS
    ExclusionMatchesReference
