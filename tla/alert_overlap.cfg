\* Two executions that may overlap, both channels configured.
CONSTANTS
  Cooldown = 1
  NoState = NoState
  Job = {j1, j2}
  Configured <- BothChannels
  BasinLevels = {"yellow", "orange", "red"}
  Audited = TRUE
  Serial = FALSE
  MaxClock = 2
SYMMETRY JobSymmetry
SPECIFICATION Spec
INVARIANTS
  TypeOK
  SuppressionJustified
  RepeatNeedsCooldown
  AuditAgreesWithState
\* A finite set of executions ends.
CHECK_DEADLOCK FALSE
