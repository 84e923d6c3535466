SPECIFICATION DoipSpec
CONSTANTS
    Header = 2
    Version = "02"
    BufferSize = 3
    Messages <- Messages_
    MaxMessages = 2
INVARIANTS
    TypeOK
    LocalsOutliveThreads
    ClientIsServed
    ReaderStopsOnlyOnSignal
    ProbesAnsweredOnce
PROPERTIES
    CanKeepsReading
    BusyShutdownCompletes
    NoProbeWaits
