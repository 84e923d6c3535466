SPECIFICATION BoundedSpec
CONSTANTS
    UdsId = {x7E0}
    Byte = {b27, b01, mem}
    SecurityAccess = b27
    RequestSeed = b01
    PastFrame = mem
    Heard <- Heard_
    MaxProcessed = 2
INVARIANTS
    TypeOK
    ReceptionTracked
    CompleteIsWhole
