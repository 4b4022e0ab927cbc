\* Readings around the threshold in both modes; the LED timer runs twice, the
\* temperature timer once; queues of two places overflow.
CONSTANTS
  TickMod = 32
  Timers <- HwTimers
  Periods = {1, 2}
  Dormant = dormant
  TempPeriod = 2
  LEDPeriod = 1
  QUEUE_MAX_SIZE = 2
  Registers <- Samples
  MaxTicks = 2
SPECIFICATION FairSpec
INVARIANTS AlertBeforeRecord ReturnsTheRegister AlertIffHot TogglesAccounted LEDsMatchCount LogInOrder
PROPERTY LogDrained
