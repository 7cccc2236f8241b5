\* Two executions over both providers, which may overlap.
CONSTANTS
  Job = {j1, j2}
  Ingested <- AllProviders
  Hours <- TwoHours
  CyclePeriod <- Periods
  Window <- Windows
  MaxAge <- Ages
  OpsToken = TRUE
  MaxClock = 2
  Forecast <- EveryForecast
  NoRun = NoRun
SYMMETRY JobSymmetry
SPECIFICATION Spec
INVARIANTS
  TypeOK
  HolesNeedAnUnfinishedWriter
  DuplicatesNeedOverlap
  AlertSeesWholeCycles
  FailureIsNotified
PROPERTY StoreImplemented
\* A finite set of executions ends.
CHECK_DEADLOCK FALSE
