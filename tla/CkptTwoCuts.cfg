CONSTANTS
    Nodes = {1, 2}
    Peers <- EveryoneKnown
    Cuts = {1, 2}
    Days = {0}
    PageLimit = 2
    History <- TwoByFirst
    Seen <- NobodySeen
    MaxObs <- None
    MaxExcusals <- None
    MaxSeals <- TwoEach
    MaxCrashes = 0
    ConcurrentAdoption = TRUE
    MayHold = FALSE
    ProofMayFail = FALSE
    GraphMayChange = TRUE
SPECIFICATION Spec
INVARIANT DropsAccumulate
INVARIANT SameTrims
INVARIANT OwnPlansSuffice
 
CHECK_DEADLOCK FALSE
