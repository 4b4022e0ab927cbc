\* An interrupt handler stops a timer.
CONSTANTS
    TickMod = 4
    Timers = {t1, t2}
    Tasks = {a}
    Periods = {1, 3}
    QueueLength = 2
    StartupCommands = {"START"}
    TaskCommands = {"START"}
    IsrCommands = {"STOP"}
    MaxEpoch = 2
SPECIFICATION Spec
INVARIANT StopIsFinal
CHECK_DEADLOCK FALSE
SYMMETRY Symmetry
