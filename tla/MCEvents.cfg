\* The heaps, the stages, the backends and the wake-up of the event loop.
SPECIFICATION Spec
CONSTANTS
    NoWatcher = 0
    Fds = {1}
    MaxPri = 1
    DHeap = 2
    Afters = {0, 2}
    MaxCalls = 2
    MaxClock = 3
    MinTimejump = 2
    WallStart = 10
    TimerSetups <- MCTimerSetups
    WallJumps <- MCWallJumps
    LoopSetups <- MCLoopSetups
    MaxUserCalls = 2
    MaxTurns = 2
    BackendSetups <- MCBackendSetups
    Files = {"f", "g", "p"}
    PlainFiles = {"p"}
    MaxBackendCalls = 5
    Senders = {"t1", "t2"}
    Asyncs = {"a"}
    Signals = {"s"}
    Sends <- MCSends
INVARIANTS
    
    NoLostWakeup
PROPERTIES
    AsyncDelivered
CHECK_DEADLOCK FALSE
