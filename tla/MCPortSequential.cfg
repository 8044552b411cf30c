CONSTANTS
    h1 = h1
    h2 = h2
    h3 = h3
    Handlers = {h1}
    Instances = {1, 2}
    Ports = {80, 81}
    RangeStart = 30000
    RangeEnd = 30001
    Requests <- AllRequests
    MaxFaults = 2
    MaxRestarts = 0
SPECIFICATION FairSpec
INVARIANT TypeOK
INVARIANT UniqueExternal
INVARIANT TruthfulReply
PROPERTY NewRowIsExposed
PROPERTY NoHijack
PROPERTY EveryRequestAnswered
INVARIANT ExactWhenQuiet
INVARIANT ServedWhileBound
PROPERTY ImplementsRegistry
