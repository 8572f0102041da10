CONSTANTS
    Users = {u1, u2}
    Managers = {m1, m2}
    Freezers = {f1}
    Clients = {c1}
    Lines = {0, 1, 2}
    Run = {"cleaner"}
SPECIFICATION SyncSpec
INVARIANT MasterAlive
CHECK_DEADLOCK FALSE
