CONSTANTS
    Clients = {c1, c2, c3}
    NoClient = NoClient
    Modes = {"wr"}
    Part = {"handle", "life"}
SPECIFICATION MCSpec
INVARIANTS HandleSound RequestsServed RollbackExact
PROPERTIES OperationsEnd
CHECK_DEADLOCK FALSE
