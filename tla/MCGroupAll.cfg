SPECIFICATION GroupFairSpec
CONSTANTS
    c1 = c1
    c2 = c2
    i1 = i1
    i2 = i2
    i3 = i3
    n1 = n1
    n2 = n2
    m1 = m1
    NoID = NoID
    NoNet = NoNet
    Containers = {c1, c2}
    Instances = {i1, i2}
    Images = {m1}
    Label <- TwoLabels
    ImageOf <- SameImage
    Latest = {}
    Verbatim = {m1}
    N = 2
    App <- TwoApps
    Networks = {n1}
    Ctxs = {x1}
    Hooks <- OneHookEach
    Faults <- DaemonFaults
INVARIANTS GroupTypeOK StartsInOrder ClosesAllInReverse
PROPERTIES GroupReturns FixedTagStable CallsReturn
