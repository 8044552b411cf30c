CONSTANTS
    c1 = c1
    c2 = c2
    Clients = {c1}
    Instances = {1, 2, 3}
    Users <- Twins
    Specs <- TwoSpecs
    Events <- Creations
    Queries <- Asked
    Watched <- Watching
    MaxTime = 3
    MaxFaults = 2
SPECIFICATION Spec
INVARIANT TypeOK
INVARIANT ListedWithSpecs
INVARIANT NothingMissed
