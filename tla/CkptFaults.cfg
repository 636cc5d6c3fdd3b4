CONSTANTS
    Nodes = {1, 2}
    Peers <- EveryoneKnown
    Cuts = {1}
    Days = {0}
    PageLimit = 99
    History <- OneEach
    Seen <- NobodySeen
    MaxObs <- None
    MaxExcusals <- OnlyFirst
    MaxSeals <- OneEach
    MaxCrashes = 1
    ConcurrentAdoption = TRUE
    MayHold = TRUE
    ProofMayFail = TRUE
    GraphMayChange = FALSE
SPECIFICATION Spec
INVARIANT TrimmedIsDeleted
 
CHECK_DEADLOCK FALSE
