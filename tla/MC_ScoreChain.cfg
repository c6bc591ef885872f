CONSTANTS
    a1 = a1
    a2 = a2
    Address = {a1, a2}
    NoData = NoData
    RepOf <- MC_RepOf
    LikersOf <- MC_LikersOf
    TxChoices <- MC_TxChoices
    StartHeight = 224999
    MaxBlocks = 3
    TimeSteps = {43200, 86400}
    MaxTxs = 2
SPECIFICATION Spec
INVARIANTS
    TypeOK
    OneToOneLimit
