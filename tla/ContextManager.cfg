SPECIFICATION FairSpec
CONSTANTS
    Capability = {"old", "new"}
    Legacy = {"old"}
    Retrievable = {"old", "new"}
    Queried = {"old", "new"}
    Reportable = {"new"}
    Provided = {"old", "new"}
    LegacyReply <- MCLegacyReply
    MaxRequests = 2
    MaxReplies = 2
    MaxChanges = 1
    FirstTimer = 0
CHECK_DEADLOCK FALSE
INVARIANTS
    AnsweredIsForgotten
    OnlyTimerZeroIsLost
    ContextHoldsWhatWasAsked
PROPERTY EveryRequestIsAnswered
