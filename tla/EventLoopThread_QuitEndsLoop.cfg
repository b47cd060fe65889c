SPECIFICATION FairThreadSpec
CONSTANTS
    Callers = {o}
    Owner = o
    Loop = l
    Tasks = {f1, f2}
    MayQuit = {}
    o = o
    l = l
    f1 = f1
    f2 = f2
PROPERTIES
    QuitEndsLoop
