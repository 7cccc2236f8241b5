\* Two writes: a run, and the next one.
CONSTANTS
  gfs = gfs
  ecmwf = ecmwf
  x44 = x44
  Provider <- MCProvider
  Providers <- MCProviders
  Window <- MCWindow
  Thresholds <- MCThresholds
  Basin <- MCBasin
  Contents <- MCContents
  Gauge <- MCGauge
  Heights = {7, 8, 10, 12}
  FreshAge = 0
  AgingAge = 1
  ExpectedCells = 2
  MinCoverage = 60
  WatchRatio = 80
  StationAge = 0
  ServedAge = 1
  RidLevels <- MCRidLevels
  NoThreshold = NoThreshold
  Cycle = {0, 1}
  NoRun = NoRun
  NoAnswer = NoAnswer
  MaxWrites = 2
  MaxClock = 2
SPECIFICATION Spec
INVARIANT AlertOnFreshFrames
