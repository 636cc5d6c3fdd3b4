CONSTANTS
    Nodes = {1, 2}
    Peers <- EveryoneKnown
    Cuts = {1}
    Days = {0}
    PageLimit = 2
    History <- TwoEach
    Seen <- NobodySeen
    MaxObs <- None
    MaxExcusals <- OneEach
    MaxSeals <- OneEach
    MaxCrashes = 0
    ConcurrentAdoption = FALSE
    MayHold = FALSE
    ProofMayFail = FALSE
    GraphMayChange = FALSE
SPECIFICATION FairSpec
INVARIANT AdvertisedIsCertified
INVARIANT OwnNewestStored
PROPERTY NodesConverge
CHECK_DEADLOCK FALSE
