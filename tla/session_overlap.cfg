SPECIFICATION Spec
CONSTANTS
    Conn = {c1, c2, c3}
    Web = {}
    None = None
INVARIANTS
    DisconnectedMeansNone
CHECK_DEADLOCK FALSE
