SPECIFICATION FairSpec
CONSTANTS
    A = A
    B = B
    C = C
    l1 = l1
    l2 = l2
    l3 = l3
    c1 = c1
    c2 = c2
    s1 = s1
    s2 = s2
    NoLine = NoLine
    Reqs = {A, B, C}
    CoreLines = {l1, l2, l3}
    CacheLines = {c1, c2}
    Sectors = {s1, s2}
    PageOf <- OnePage
    Scenarios <- EndScenarios
    SubmitFast = TRUE
PROPERTIES
    EveryRequestEnds
