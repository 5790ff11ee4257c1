SPECIFICATION K3sFairSpec
CONSTANTS
    c1 = c1
    i1 = i1
    m1 = m1
    x1 = x1
    xc = xc
    NoID = NoID
    NoNet = NoNet
    Containers = {c1}
    Instances = {i1}
    Networks = {}
    Images = {m1}
    Ctxs = {x1, xc}
    Label <- OneLabel
    ImageOf <- OneImage
    Latest = {}
    Verbatim = {m1}
    Faults <- AllFaults
    Cleanup <- OneCleanup
    MaxTries = 3
CHECK_DEADLOCK FALSE
INVARIANTS K3sTypeOK FailedLeavesNothing BuiltHoldsContainer OneLateAttempt K3sCloseLeavesNothing
PROPERTIES ConstructorReturns
