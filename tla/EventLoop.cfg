SPECIFICATION FairSpec
CONSTANTS
    Callers = {a, b}
    Loop = l
    Tasks = {f1, f2, f3}
    a = a
    b = b
    l = l
    f1 = f1
    f2 = f2
    f3 = f3
INVARIANTS
    TypeOK
    Fifo
    NoLostWakeup
    NoLostQuit
PROPERTIES
    QueuedTasksRun
    QuitStops
    ExecutorSpec
