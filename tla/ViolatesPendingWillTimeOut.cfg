SPECIFICATION Spec
CONSTANTS
    Capability = {"old", "new"}
    Legacy = {"old"}
    Retrievable = {"old", "new"}
    Queried = {"old", "new"}
    Reportable = {"new"}
    Provided = {"old", "new"}
    LegacyReply <- MCLegacyReply
    MaxRequests = 2
    MaxReplies = 1
    MaxChanges = 0
    FirstTimer = 0
CHECK_DEADLOCK FALSE
INVARIANTS
    PendingWillTimeOut
