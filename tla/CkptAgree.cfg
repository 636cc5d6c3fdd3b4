CONSTANTS
    Nodes = {1, 2}
    Peers <- EveryoneKnown
    Cuts = {1}
    Days = {0}
    PageLimit = 99
    History <- TwoByFirst
    Seen <- NobodySeen
    MaxObs <- OnlySecond
    MaxExcusals <- None
    MaxSeals <- NineEach
    MaxCrashes = 1
    ConcurrentAdoption = TRUE
    MayHold = TRUE
    ProofMayFail = FALSE
    GraphMayChange = FALSE
SPECIFICATION FairSpec
INVARIANT TypeOK
INVARIANT OneCertificate
PROPERTY InventoryOnlyGrows
PROPERTY CertifiedIsTrimmed
CHECK_DEADLOCK FALSE
