CONSTANTS
    disp = disp
    net = net
    e1 = e1
    e2 = e2
    e3 = e3
    null = null
    Threads <- MCThreads
    DThread = disp
    Events <- MCEvents
    Delay <- MCDelay
    MinTicks = 2
    IdMax = 5
    MaxTime = 3
    NoEvent = null
SPECIFICATION FairSpec
CHECK_DEADLOCK FALSE
INVARIANTS
    SleepsRight
    IdsSound
PROPERTIES
    ImplementsService
    EventsExpire
