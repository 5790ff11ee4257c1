SPECIFICATION Spec
CONSTANTS
    h1 = h1
    h2 = h2
    h3 = h3
    p1 = p1
    p2 = p2
    HostPorts = {h1, h2, h3}
    CPorts = {p1, p2}
    MaxCalls = 3
SYMMETRY Interchangeable
INVARIANTS StartedPortsReachable
CHECK_DEADLOCK FALSE
