SPECIFICATION Spec
CONSTANTS
    engine = engine
    x7E0 = x7E0
    Id = {engine}
    Uds = {}
    Signal = {"speed"}
    MessageOf <- MessageOf_
    Multiplexor = {}
    MuxValue <- MuxValue_
    Timeout <- Timeout_
    Modulus = 4
    Increment = 1
    Field = {0, 127}
    Calculated <- CalculatesXOR
    MaxFrames = 4
    MaxCalls = 2
    MaxAge = 2
INVARIANT WrongChecksumRejected
