CONSTANTS
    h1 = h1
    h2 = h2
    h3 = h3
    Handlers = {h1, h2}
    Instances = {1, 2}
    Ports = {80}
    RangeStart = 30000
    RangeEnd = 30001
    Requests <- TwoTCP
    MaxFaults = 0
    MaxRestarts = 0
SPECIFICATION Spec
INVARIANT UniqueExternal
