CONSTANTS
    Machines = {"a", "b", "r", "r2"}
    Names = {"a", "b", "r"}
    NameOf <- OwnNames
    Anchor = "a"
    NoKey = "none"
    Founding <- AdmitsBR
    MaxNotes <- Nobody
    MaxRemovals <- ByA
    Announcers = {}
    Leavers = {"r"}
    Sponsors = {"a", "b"}
SPECIFICATION FairSpec
INVARIANT SameEnvelopesSameMembers
PROPERTY MembersAgree
CHECK_DEADLOCK FALSE
