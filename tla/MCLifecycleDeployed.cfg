CONSTANTS
    h1 = h1
    h2 = h2
    first = first
    again = again
    bad = bad
    stray = stray
    Handlers = {h1, h2}
    Instances = {1}
    UserOf <- Users
    Images <- TwoImages
    Messages = {first, bad}
    Event <- What
    Requests <- ApiRequests
    MaxRetries = 1
    MaxFaults = 1
    MaxOutages = 0
    DeliveryCap = 0
SPECIFICATION Spec
INVARIANT AckedIsDeployed
