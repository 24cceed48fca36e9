CONSTANTS
    a = a
    b = b
    c = c
    unknown = unknown
    nameOfA = nameOfA
    nameOfC = nameOfC
    Services = {a, b, c}
    ThirdServices = {a, c}
    Names = {a, b, c, unknown}
    Lists <- MCLists
    ContainerName <- MCContainerName
    MaxFaults = 2
SPECIFICATION Spec
CHECK_DEADLOCK FALSE
INVARIANTS TypeOK ServesAll
PROPERTIES InOrder Serves
