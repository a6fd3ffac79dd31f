SPECIFICATION FairSpec
CONSTANTS
    Callers = {c1, c2}
    Keys = {k1, t1}
    TimeKeys = {t1}
    c1 = c1
    c2 = c2
    k1 = k1
    t1 = t1
INVARIANTS
    OthersSurvive
    NoStaleEmpty
PROPERTIES
    ReturnsOnDeadline
