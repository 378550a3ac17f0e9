\* Every pair of actions, one handshake, up to four callbacks.
CONSTANTS
    MaxCallbacks = 4
    None = None
SPECIFICATION Spec
\* a cancelled handshake with nothing pending makes no further call
CHECK_DEADLOCK FALSE
INVARIANTS
    AtMostOnePendingOperation
