CONSTANTS
    net = net
    sch = sch
    disp = disp
    free = free
    stopT = stopT
    downT = downT
    t1 = t1
    t2 = t2
    t3 = t3
    null = null
    Threads <- MCThreads
    DThread = disp
    NoThread = free
    Tasks <- MCTasks
    StopTask = stopT
    ShutdownTask = downT
    NoTask = null
    Spawn <- MCSpawn
    Creatures = {1, 2}
    Blocks = 1
    Vectors = 2
    RateSpawn = 1
    NoMaster = 0
    Objects = {1, 2}
    Types = {"lit", "out", "stub", "field"}
    TypeData <- MCTypeData
    Never = never
    Vanish = vanish
    Interval = 2
    TextInterval = 1
    MaxEntries = 3
SPECIFICATION TasksSpec
CHECK_DEADLOCK FALSE
INVARIANTS
    NoLostWakeup
    TaskFates
PROPERTIES
    AcceptedTasksRun
    DeadLeave
    DecayEnds
