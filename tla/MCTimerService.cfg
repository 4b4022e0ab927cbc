\* Two timers, one task that uses every command, a counter that wraps.
CONSTANTS
    TickMod = 3
    Timers = {t1, t2}
    Tasks = {a}
    Periods = {1, 2}
    QueueLength = 2
    StartupCommands = {"START"}
    TaskCommands = {"START", "STOP", "CHANGE_PERIOD", "DELETE"}
    IsrCommands = {}
    MaxEpoch = 1
SPECIFICATION FairSpec
INVARIANTS ListsMatchEpochs NeverSleepsThrough ReloadNeverLost NoUseAfterFree StopIsFinal
PROPERTIES KeepsPromise OverdueServed
CHECK_DEADLOCK FALSE
