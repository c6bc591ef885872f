SPECIFICATION Spec
INVARIANTS
    HashDeterminism
