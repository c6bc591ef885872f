SPECIFICATION Spec
INVARIANTS
    RoundTripKeepsHash
