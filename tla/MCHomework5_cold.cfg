\* A reading below zero that raises the alert.
CONSTANTS
  TickMod = 32
  Timers <- HwTimers
  Periods = {1, 2}
  Dormant = dormant
  TempPeriod = 2
  LEDPeriod = 1
  QUEUE_MAX_SIZE = 2
  Registers <- Samples
  MaxTicks = 2
SPECIFICATION Spec
INVARIANT AlertOnlyWhenHot
