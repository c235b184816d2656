SPECIFICATION BoundedSpec
CONSTANTS
    d1 = d1
    d2 = d2
    d3 = d3
    A = A
    B = B
    None = None
    NoDialog = NoDialog
    DialogId = {A, B}
    Directive = {d1, d2, d3}
    DialogOf <- ThreeDialogOf
    PolicyOf <- ThreePolicyOf
INVARIANTS
    CurrentDialogOnly
    NoLostWakeup
    StoppedIsQuiet
    CallsWellFormed
    HandledInOrder
    NoDirectiveForgotten
PROPERTY ImplementsLifecycle
