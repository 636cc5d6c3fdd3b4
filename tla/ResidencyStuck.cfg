SPECIFICATION FairSpec
CONSTANTS
    MaxGeneration = 2
    Tasks <- TheTasks
    Agent = "agent"
    FaultKinds <- OnlyDeaths
    MaxFaults = 1
PROPERTY WakeIsServed
