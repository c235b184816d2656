SPECIFICATION Spec
CONSTANTS
    Channel = {1, 2}
    Activity = {"speech", "music", "news", "more"}
    ChannelOf <- MCChannelOf
    InterfaceOf <- MCInterfaceOf
    Patient = {"news", "more"}
    Mixing <- MCMixing
    None = None
    MaxStops = 1
CHECK_DEADLOCK FALSE
INVARIANTS
    OneForegroundChannel
    IdleIsSettled
    LeftIsTold
    SecondPlaceEnds
    StoppedIsGone
