CONSTANTS
    ChannelSize = 1
    ResizeSize = 1
    MaxInputs = 0
    MaxOutputs <- OneEach
    Disconnects = FALSE
SPECIFICATION Spec
CHECK_DEADLOCK FALSE
INVARIANT NoSendOnClosed
