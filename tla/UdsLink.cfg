SPECIFICATION LinkSpec
CONSTANTS
    UdsId = {x7E0}
    b27 = b27
    b01 = b01
    b00 = b00
    mem = mem
    Byte <- Bytes_
    SecurityAccess = b27
    RequestSeed = b01
    PastFrame = mem
    Pad = b00
    Heard = {}
    Lengths <- Lengths_
    Requests = {"framed", "raw"}
    MaxMessages = 3
    MaxLost = 2
INVARIANTS
    IntactIsProcessed
    OneLossIsNoticed
    SplicesKeepPlaces
    RequestsAnswered
CHECK_DEADLOCK FALSE
