CONSTANTS
    h1 = h1
    h2 = h2
    first = first
    again = again
    bad = bad
    stray = stray
    Handlers = {h1, h2}
    Instances = {1}
    UserOf <- Users
    Images <- TwoImages
    Messages = {first, stray}
    Event <- What
    Requests <- ApiRequests
    MaxRetries = 1
    MaxFaults = 0
    MaxOutages = 0
    DeliveryCap = 3
SPECIFICATION Spec
INVARIANT BoundedRetries
