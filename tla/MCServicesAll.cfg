SPECIFICATION ServicesFairSpec
CONSTANTS
    HostPorts = {h1}
    CPorts = {p1}
    Port = p1
    MaxCalls = 1
    Callers = {k1, k2}
CHECK_DEADLOCK FALSE
INVARIANTS ServicesTypeOK CreatedOnce
PROPERTIES NilIsOwn AnswersAreTrue HelperReturns
