SPECIFICATION MCSpec
CONSTANTS
    l1 = l1
    NoRequest = NoRequest
    Line <- MCLine
    WordIdx <- MCIdx
    Lane <- MCIdx
    Byte <- MCIdx
    Requests <- MCRequests
    Cards <- MCCards
    Blank <- MCBlank
    SectorUnits = 2
    FatPer = 4
    EndOfChain = 100
    LbaMod = 128
    Room = 5
    InitTries = 2
    MaxAttempts = 3
    MaxNoise = 3
    MaxBoots = 2
INVARIANTS
    RequestCapturedWhole
    CommandTaken
    BridgeInv
    SdLoadedWhole
PROPERTIES
    ImplementsWordMemory
    CardBootSucceeds
CHECK_DEADLOCK FALSE
