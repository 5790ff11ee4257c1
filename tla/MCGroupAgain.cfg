SPECIFICATION GroupSpec
CONSTANTS
    c1 = c1
    c2 = c2
    i1 = i1
    i2 = i2
    i3 = i3
    n1 = n1
    n2 = n2
    m1 = m1
    NoID = NoID
    NoNet = NoNet
    Containers = {c1}
    Instances = {i1, i3}
    Images = {m1}
    Label <- OneLabel
    ImageOf <- OneImage
    Latest = {}
    Verbatim = {m1}
    N = 1
    App <- OneApp
    Networks = {n1, n2}
    Ctxs = {x1}
    Hooks <- OneHook
    Faults <- DaemonFaults
SYMMETRY Interchangeable
INVARIANTS GroupCloseLeavesNothing NeverRunsDetached
