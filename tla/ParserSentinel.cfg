SPECIFICATION Spec
CONSTANTS
    engine = engine
    x7E0 = x7E0
    Id = {engine}
    Uds = {}
    Signal = {"speed"}
    MessageOf <- MessageOf_
    Multiplexor = {}
    MuxValue <- MuxValue_
    Timeout <- Timeout_
    Modulus = 256
    Increment = 1
    Field = {0}
    Calculated <- CalculatesCRC8
    MaxFrames = 4
    MaxCalls = 1
    MaxAge = 2
PROPERTY NoSkippedCounter
