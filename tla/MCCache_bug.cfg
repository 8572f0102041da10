CONSTANTS
    Clients = {c1}
    NoClient = NoClient
    Modes = {"wr"}
    Part = {"life"}
SPECIFICATION MCSpec
INVARIANT NoBug
CHECK_DEADLOCK FALSE
