\* Signals at any point; pipes that hold eight bytes, just enough, and pipes that
\* fill up.
CONSTANTS
  Commands = 2
  Strings = 2
  STR_MAX_LEN = 3
  Capacities = {5, 8}
  MaxSignals = 3
SPECIFICATION FairSpec
INVARIANTS ReceivedInOrder ClosingIsSafe
PROPERTY ExchangeCompletes
CHECK_DEADLOCK FALSE
