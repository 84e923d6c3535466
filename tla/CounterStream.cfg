SPECIFICATION SignalSpec
CONSTANTS
    Bytes = 2
    ByteBits = 4
    CounterLength = 2
    CounterStarts = {0, 3, 6}
    Patterns <- Patterns_
    Modulus = 4
    Increment = 3
    MaxLost = 3
    MaxRejected = 12
INVARIANTS
    TypeOK
    BlackoutBounded
    ShownAsMeant
PROPERTIES
    Resynchronises
    IsCounterStream
