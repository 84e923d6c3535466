SPECIFICATION InsistentSpec
CONSTANTS
    Size = 4
    f1 = f1
    f2 = f2
    Frame <- Frame_
    NoFrame = NoFrame
INVARIANTS
    TypeOK
    ViewsInOrder
    NoDataRace
    RoomIsKept
    FrameIsKept
PROPERTIES
    IsAQueue
    DeliversAll
    AcceptedAgain
