SPECIFICATION Spec
CONSTANTS
    c1 = c1
    c2 = c2
    i1 = i1
    i2 = i2
    x1 = x1
    x2 = x2
    m1 = m1
    NoID = NoID
    NoNet = NoNet
    Containers = {c1}
    Instances = {i1, i2}
    Networks = {n1}
    Images = {m1}
    Ctxs = {x1, x2}
    Label <- OneLabel
    ImageOf <- OneImage
    Latest = {m1}
    Verbatim = {m1}
    Faults <- AllFaults
SYMMETRY Interchangeable
INVARIANTS TypeOK CloseLeavesNothing AwaitNilIsFinal ExpiredCloseHasWindow IInv
PROPERTIES RunNilServes ImplementsLease
