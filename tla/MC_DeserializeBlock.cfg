CONSTANTS
    Entries <- WellFormedEntries
    MaxEntries = 3
    Blobs <- MC_Blobs
SPECIFICATION Spec
INVARIANTS
    BlockDeliveredAsSpecified
