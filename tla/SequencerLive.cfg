SPECIFICATION RetiringSpec
CONSTANTS
    d1 = d1
    d2 = d2
    A = A
    None = None
    NoDialog = NoDialog
    DialogId = {A}
    Directive = {d1, d2}
    DialogOf <- TwoDialogOf
    PolicyOf <- TwoPolicyOf
CHECK_DEADLOCK FALSE
PROPERTIES
    AcceptedIsPassedOn
    ArrivalsAreServed
    CancellationsAreDelivered
    SequencerShutdownEnds
