\* The module is loaded twice, removed and its period written at any time.
CONSTANTS
  MAX_ITERATIONS = 3
  Periods = {0, 1, 3}
  MaxLoads = 2
  MaxAge = 3
SPECIFICATION FairSpec
PROPERTIES Spaced Finishes
CHECK_DEADLOCK FALSE
