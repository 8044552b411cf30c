CONSTANTS
    ChannelSize = 1
    ResizeSize = 1
    MaxInputs = 2
    MaxOutputs <- TwoAndOne
    Disconnects = TRUE
SPECIFICATION FairSpec
CHECK_DEADLOCK FALSE
INVARIANT TypeOK
INVARIANT OutputRelayed
INVARIANT InputRelayed
INVARIANT ExitOvertakesLittle
PROPERTY CallEnds
PROPERTY CommandLeft
