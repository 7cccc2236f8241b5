\* Three executions one after the other; Web Push has no key.
CONSTANTS
  Cooldown = 2
  NoState = NoState
  Job = {j1, j2, j3}
  Configured = {"line"}
  BasinLevels = {"orange", "red"}
  Audited = FALSE
  Serial = TRUE
  MaxClock = 2
SYMMETRY JobSymmetry
SPECIFICATION Spec
INVARIANT SavedSpacing
PROPERTY LedgerSpec
CHECK_DEADLOCK FALSE
