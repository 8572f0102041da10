CONSTANTS
    r1 = r1
    r2 = r2
    r3 = r3
    e1 = e1
    e2 = e2
    Reqs = {r1, r2, r3}
    Entries = {e1, e2}
    NoEntry = NoEntry
    NoReq = NoReq
    ListOf <- OwnLists
    WR = 4
    Calls <- MixedCalls
    CanFail = TRUE
SPECIFICATION MCSpec
INVARIANTS LinesLocked BucketsExact TableSound
PROPERTIES NoOvertaking ChainsStand CallsReturn
CHECK_DEADLOCK FALSE
