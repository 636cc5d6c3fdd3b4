CONSTANTS
    Machines = {"a", "b", "r", "r2"}
    Names = {"a", "b", "r"}
    NameOf <- OwnNames
    Anchor = "a"
    NoKey = "none"
    Founding <- AdmitsBR
    MaxNotes <- ByR
    MaxRemovals <- ByA
    Announcers = {"r2"}
    Leavers = {"r"}
    Sponsors = {"a"}
SPECIFICATION Spec
INVARIANT TypeOK
INVARIANT OneEnvelopePerSequence
INVARIANT WindowsDisjoint
 
CHECK_DEADLOCK FALSE
