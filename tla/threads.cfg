SPECIFICATION ThSpec
CONSTANTS
    Threads = {t1, t2, t3}
    Main = t1
    Idle = idl
    TIME_SLICE = 2
    Sleeps = {0, 2}
    MaxSema = 1
INVARIANTS QueuesSound SynchronizationSound
PROPERTIES EveryoneRuns
CHECK_DEADLOCK FALSE
