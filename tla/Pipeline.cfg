SPECIFICATION FairPipelineSpec
CONSTANTS
    Size = 2
    Frame = {known, other}
    NoFrame = NoFrame
    Known = {known}
    RefreshEvery = 2
    MaxFrames = 3
INVARIANTS
    PipelineTypeOK
    EveryFrameAccounted
    RateIsSane
PROPERTIES
    EveryFrameHandled
    IsAChannel
