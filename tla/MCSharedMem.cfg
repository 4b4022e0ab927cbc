\* Signals, kills and a second run at any point.
CONSTANTS
  Commands = 1
  Strings = 2
  MaxSignals = 2
  MaxKills = 1
  MaxRuns = 2
SPECIFICATION FairSpec
INVARIANTS TokenConserved ReadsInOrder StartsFresh
PROPERTY ExchangeCompletes
CHECK_DEADLOCK FALSE
