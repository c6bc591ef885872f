CONSTANTS
    Entries <- WithFaultyEntries
    MaxEntries = 2
    Blobs <- MC_Blobs
SPECIFICATION Spec
INVARIANTS
    BlockDeliveredAsSpecified
