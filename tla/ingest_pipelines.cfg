\* A provider fails while the database holds a station observation.
CONSTANTS
  Job = {j1, j2}
  Ingested <- GfsOnly
  Hours <- OneHour
  CyclePeriod <- Periods
  Window <- Windows
  MaxAge <- Ages
  OpsToken = FALSE
  MaxClock = 2
  Forecast <- EveryForecast
  NoRun = NoRun
SYMMETRY JobSymmetry
SPECIFICATION Spec
INVARIANT PipelinesIndependent
CHECK_DEADLOCK FALSE
