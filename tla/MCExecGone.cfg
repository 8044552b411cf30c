CONSTANTS
    ChannelSize = 1
    ResizeSize = 1
    MaxInputs = 0
    MaxOutputs <- TwoAndOne
    Disconnects = TRUE
SPECIFICATION FairSpec
CHECK_DEADLOCK FALSE
PROPERTY GoneCallEnds
