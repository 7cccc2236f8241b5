\* Both clients, with the cycles, windows and lookback of the code, for
\* calls made up to fourteen hours after the first cycle.
CONSTANTS
  Hours <- ThreeHours
  Period <- Periods
  Window <- Thresholds
  Lookback = 3
  Retries = 1
  Total <- Rain
  MaxClock = 14
SPECIFICATION Spec
INVARIANTS
  TypeOK
  DiscoveryOverlooksNothing
  AllHoursOrNone
  RainCountedOnce
\* A call that ended stays so.
CHECK_DEADLOCK FALSE
