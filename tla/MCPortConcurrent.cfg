CONSTANTS
    h1 = h1
    h2 = h2
    h3 = h3
    Handlers = {h1, h2}
    Instances = {1, 2}
    Ports = {80}
    RangeStart = 30000
    RangeEnd = 30001
    Requests <- Openings
    MaxFaults = 1
    MaxRestarts = 1
SPECIFICATION Spec
SYMMETRY HandlerSymmetry
INVARIANT OpenersExclusive
PROPERTY NoLostUpdate
