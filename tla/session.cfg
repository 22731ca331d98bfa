SPECIFICATION Spec
CONSTANTS
    Conn = {c1, c2, c3}
    Web = {w1}
    None = None
INVARIANTS
    NoDeadConnection
    ConnectedHasConnection
PROPERTIES
    ImplementsSession
CHECK_DEADLOCK FALSE
