SPECIFICATION FairOrderlySpec
CONSTANTS
    MaxMessages = 4
    MaxRestarts = 1
    MaxFaults = 1
    HardLimit = 3
    SizeLimit = 2
    NoRow = NoRow
INVARIANTS
    AcceptedIsKept
    InFlightIsFirst
PROPERTIES
    ImplementsDelivery
    AcceptedIsHandled
