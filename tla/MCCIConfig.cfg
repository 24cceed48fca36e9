CONSTANTS
    t1 = t1
    t2 = t2
    s1 = s1
    s2 = s2
    unknown = unknown
    Nil = Nil
    NoBase = NoBase
    NoSnapShot = NoSnapShot
    Services = {t1, t2, s1, s2}
    ThirdServices = {t1, t2}
    Names = {t1, t2, s1, s2, unknown}
    Lists <- MCLists
    Definitions <- MCDefinitions
SPECIFICATION CISpec
CHECK_DEADLOCK FALSE
INVARIANTS TopologicalOrder EachOnce RefusedForAReason
INVARIANTS OneVerdict InheritsUnlessSet EveryServiceHasAnImage
PROPERTIES Decides Advances
