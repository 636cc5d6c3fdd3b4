SPECIFICATION FairSpec
CONSTANTS
    Callers <- TheCallers
    Lenders <- TheLenders
    Parts = {1, 2}
    MaxFaults = 3
    MaxCrashes = 1
INVARIANT TypeOK
INVARIANT AllOrNothing
INVARIANT SeenByReaders
INVARIANT LentInTurn
PROPERTY EveryWriteIsAnswered
PROPERTY KeepsPromise
CHECK_DEADLOCK FALSE
