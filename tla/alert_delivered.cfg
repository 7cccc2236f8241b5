\* One execution whose LINE request is refused with a status.
CONSTANTS
  Cooldown = 1
  NoState = NoState
  Job = {j1}
  Configured <- BothChannels
  BasinLevels = {"orange", "red"}
  Audited = FALSE
  Serial = TRUE
  MaxClock = 1
SPECIFICATION Spec
INVARIANT PersistedWasDelivered
CHECK_DEADLOCK FALSE
