SPECIFICATION Spec
CONSTANTS
    Addr = {a1, a2}
    Obj = {o1, o2}
    RandomPort = {q1, p3}
    None = None
    p1 = p1
    p2 = p2
    p3 = p3
    Failing <- MCFailing
    RouterPort <- MCRouterPort
PROPERTIES
    WaitsForAll
