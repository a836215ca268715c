SPECIFICATION FairTaskSpec
CONSTANTS
    A = A
    B = B
    C = C
    I = I
    Tasks = {A, B, C, I}
    Idle = I
    MaxPriorities = 3
    MaxDelay = 3
    Overflows = 3
    EventLists = {}
    Pending = Pending
    Loads <- MCLoads
    Delays = {0, 1, 3}
    MaxPended = 2
    MaxNotify = 2
INVARIANTS
    ListsConsistent
    HighestPriorityRuns
    NoUseAfterFree
    NeverLate
    NotifiedTaskWakes
PROPERTIES
    NeverEarly
    TimeSliced
