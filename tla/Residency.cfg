SPECIFICATION FairSpec
CONSTANTS
    MaxGeneration = 3
    Tasks <- TheTasks
    Agent = "agent"
    FaultKinds <- AllFaults
    MaxFaults = 2
INVARIANT TypeOK
 
INVARIANT DemandIsKept
 
 
PROPERTY ServedUnlessStuck
