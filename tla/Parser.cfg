SPECIFICATION Spec
CONSTANTS
    engine = engine
    x7E0 = x7E0
    Id = {engine, x7E0}
    Uds = {x7E0}
    Signal = {"mode", "volt", "amp"}
    MessageOf <- MessageOf_
    Multiplexor = {"mode"}
    MuxValue <- MuxValue_
    Timeout <- Timeout_
    Modulus = 2
    Increment = 1
    Field = {0, 1}
    Calculated <- CalculatesCRC8
    MaxFrames = 2
    MaxCalls = 2
    MaxAge = 2
INVARIANTS
    TypeOK
    TotalsAddUp
    RejectionsExplained
    OneBranchValid
    TimeoutsTrackAcceptance
    MarksMatchCount
PROPERTY NoSkippedCounter
