SPECIFICATION BoundedSpec
CONSTANTS
    r1 = r1
    r2 = r2
    r3 = r3
    app = app
    other = other
    None = None
    Request = {r1, r2}
    Serialized = {r1}
    Caller = {app}
    MaxTransports = 3
    MaxCalls = 1
CHECK_DEADLOCK FALSE
PROPERTY OldTransportIsLeftAlive
