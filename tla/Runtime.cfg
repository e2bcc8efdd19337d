CONSTANTS
    t1 = t1
    t2 = t2
    t3 = t3
    c1 = c1
    c2 = c2
    NoTask = NoTask
    Tasks = {t1, t2, t3, c1, c2}
    Priority <- MCPriority
    Parent <- MCParent
    Interleaved = {c2}
    Throwing = {t2}
    Threads = {w1, w2}
    Producers = {p1, p2}
    MaxItems = 1
    Coroutines = {a, b, c}
    Slots = 2
    MaxWork = 2
    Timers = {background, user}
    Background = {background}
    Period = 1
    MaxJump = 2
    MaxSet = 1
    MaxWorkers = 3
    MaxReloads = 2
    MaxCreated = 2
SPECIFICATION Spec
INVARIANTS
    NoLostWakeup
    JoinWaits
    NoForgottenWaiter
    StopIsFinal
    NoOversleep
    Handover
PROPERTIES
    ImplementsTaskPool
    TimerStopReturns
    SignalsAreObeyed
CHECK_DEADLOCK FALSE
