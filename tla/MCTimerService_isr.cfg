\* Interrupt handlers issue commands too, which fill the queue; two wraps.
CONSTANTS
    TickMod = 3
    Timers = {t1, t2}
    Tasks = {a}
    Periods = {2}
    QueueLength = 2
    StartupCommands = {"START"}
    TaskCommands = {"DELETE"}
    IsrCommands = {"START", "STOP"}
    MaxEpoch = 2
SPECIFICATION Spec
INVARIANT NoUseAfterFree
CHECK_DEADLOCK FALSE
SYMMETRY Symmetry
