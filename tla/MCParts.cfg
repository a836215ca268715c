SPECIFICATION MCSpec
CONSTANTS
    U1 = U1
    U2 = U2
    Users = {U1, U2}
    HeapAt = 1
    HeapSize = 21
    Alignment = 2
    StructSize = 2
    SizeMax = 63
    Sizes <- MCSizes
    MaxOwned = 3
    Rdy = Rdy
    Dly = Dly
    X = X
    Y = Y
    Z = Z
    ListIds = {Rdy, Dly}
    Ordered = {Dly}
    Items = {X, Y, Z}
    Values = {0, 1}
    NoList = NoList
    EndValue = 1
    W = 4
    TickIncrement = 3
    Delays <- MCDelays
    CountMod = 4
    Writes <- MCWrites
    Ticks <- MCTicks
    Image <- HardImage
    BlockMod = 8
    MaxRetries = 3
    Noise <- HardNoise
    MaxFaults = 3
    LineBeats = 2
    BeatPix = 2
    Rows = 3
    HFp = 1
    HBlank = 2
    VBlank = 1
INVARIANTS
    HeapSound
    FailsOnlyWhenFull
    MtimeReadWhole
    IrqWhenDue
    LoadedWhole
    NoTearing
    ShownLineWhole
PROPERTIES
    ImplementsLists
    DelayLongEnough
    LoadingSucceeds
    LinesInOrder
    PanelKeepsFed
CHECK_DEADLOCK FALSE
