CONSTANTS
    Nodes = {1, 2}
    Peers <- EveryoneKnown
    Cuts = {1}
    Days = {0}
    PageLimit = 99
    History <- TwoByFirst
    Seen <- NobodySeen
    MaxObs <- None
    MaxExcusals <- OneEach
    MaxSeals <- OneEach
    MaxCrashes = 0
    ConcurrentAdoption = TRUE
    MayHold = FALSE
    ProofMayFail = FALSE
    GraphMayChange = FALSE
SPECIFICATION Spec
INVARIANT AdvertisedIsCertified
CHECK_DEADLOCK FALSE
