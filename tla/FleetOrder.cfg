CONSTANTS
    Machines = {"a", "b", "r"}
    Names = {"a", "b", "r"}
    NameOf <- OwnNames
    Anchor = "a"
    NoKey = "none"
    Founding <- AdmitsBR
    MaxNotes <- Nobody
    MaxRemovals <- ByBR
    Announcers = {}
    Leavers = {}
    Sponsors = {}
SPECIFICATION Spec
INVARIANT SameEnvelopesSameMembers
CHECK_DEADLOCK FALSE
