\* Two clients; a SIGINT and a kill at any point.
CONSTANTS
  Clients = {c1, c2}
  Commands = 2
  Strings = 1
  MaxSignals = 1
  MaxKills = 1
SPECIFICATION FairSpec
INVARIANT InOrder
PROPERTIES OnlyFailedReadsRepeat ExchangeCompletes
CHECK_DEADLOCK FALSE
