SPECIFICATION Spec
CONSTANTS
    MaxMessages = 2
    MaxRestarts = 0
    MaxFaults = 0
    HardLimit = 2
    SizeLimit = 2
    NoRow = NoRow
CHECK_DEADLOCK FALSE
INVARIANT AcceptedIsKept
