\* Two signals and two expiries of the timer at any point.
CONSTANTS
  File <- Text
  Letters <- Alphabet
  Limit = 2
  MaxSignals = 2
  MaxTicks = 2
SPECIFICATION FairSpec
INVARIANTS EndsByOwnSignal ReportsAreTicked
PROPERTIES KillTakesEffect
CHECK_DEADLOCK FALSE
