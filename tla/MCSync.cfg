CONSTANTS
    Users = {u1, u2}
    Managers = {m1, m2}
    Freezers = {f1}
    Clients = {c1, c2, c3, c4}
    Lines = {0, 1, 2}
    Run = {"refcnt", "lock", "switch", "nhit", "cleaner"}
SPECIFICATION SyncSpec
INVARIANTS CountSound LockSound ContextSound RingSound OrderSound
PROPERTIES NoIncWhileFrozen FirstComeFirstServed SyncEnds
CHECK_DEADLOCK FALSE
