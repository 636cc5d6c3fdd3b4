CONSTANTS
    Nodes = {1, 2}
    Peers <- EveryoneKnown
    Cuts = {1}
    Days = {0, 1}
    PageLimit = 99
    History <- TwoByFirst
    Seen <- NobodySeen
    MaxObs <- None
    MaxExcusals <- OneEach
    MaxSeals <- OneAndTwo
    MaxCrashes = 0
    ConcurrentAdoption = TRUE
    MayHold = FALSE
    ProofMayFail = FALSE
    GraphMayChange = FALSE
SPECIFICATION Spec
INVARIANT SealIsAPromise
INVARIANT CertificatesDisjoint
INVARIANT WritesInOrder
INVARIANT SealedFloor
CHECK_DEADLOCK FALSE
