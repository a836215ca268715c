SPECIFICATION ServiceSpec
CONSTANTS
    A = A
    D = D
    I = I
    X = X
    T1 = T1
    T2 = T2
    Tasks = {A, D, I}
    Idle = I
    Daemon = D
    TimerQueue = X
    Timers = {T1, T2}
    Periods = {1, 2}
    MaxPriorities = 3
    MaxDelay = 3
    Overflows = 2
    EventLists <- MCEventLists
    Pending = Pending
    Loads <- MCLoads
    Delays = {1}
    MaxPended = 1
    MaxNotify = 1
    QueueIds = {X}
    NoQueue = NoQueue
    MaxDepth = 2
    MaxLate = 1
INVARIANTS
    CallbacksExact
    DaemonWakesInTime
