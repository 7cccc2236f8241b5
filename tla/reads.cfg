\* One client beside two ECMWF executions, which may overlap.
CONSTANTS
  Job = {j1, j2}
  Ingested <- EcmwfOnly
  Hours <- OneHour
  CyclePeriod <- OneUnit
  Window <- OneUnit
  MaxAge <- OneUnit
  OpsToken = FALSE
  MaxClock = 1
  Reader = {r1}
  DayLength = 2
  MaxExportDays = 2
  EventDates <- OneEvent
SYMMETRY JobSymmetry
SPECIFICATION ReadsSpec
INVARIANTS
  BlockNotBehindFrames
  FailureSurfaces
  ExportsTile
CHECK_DEADLOCK FALSE
