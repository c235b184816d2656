SPECIFICATION BoundedSpec
CONSTANTS
    r1 = r1
    r2 = r2
    r3 = r3
    app = app
    other = other
    None = None
    Request = {r1, r2, r3}
    Serialized = {r1, r2}
    Caller = {app, other}
    MaxTransports = 3
    MaxCalls = 2
SYMMETRY Symmetry
CHECK_DEADLOCK FALSE
INVARIANTS
    ReportedIsCurrent
    OnePuller
    ShutdownLeavesNothing
    SerializedOneAtATime
