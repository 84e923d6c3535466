SPECIFICATION PipelineSpec
CONSTANTS
    Size = 3
    Frame = {known, other}
    NoFrame = NoFrame
    Known = {known}
    RefreshEvery = 2
    MaxFrames = 3
INVARIANT DashboardNotStale
