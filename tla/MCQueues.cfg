SPECIFICATION QueueSpec
CONSTANTS
    A = A
    B = B
    C = C
    I = I
    X = X
    Y = Y
    Tasks = {A, B, C, I}
    Idle = I
    MaxPriorities = 4
    MaxDelay = 3
    Overflows = 2
    EventLists <- MCEventLists
    Pending = Pending
    Loads <- MCLoads
    Delays = {1}
    MaxPended = 1
    MaxNotify = 1
    QueueIds = {X, Y}
    NoQueue = NoQueue
    MaxDepth = 2
    MaxLate = 1
INVARIANTS
    NoLostWakeup
    TimeoutsExact
    HolderPriorityExact
PROPERTIES
    ImplementsFifo
