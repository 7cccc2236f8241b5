\* Two submissions from two addresses, an hour of two instants, two moderators, a reader.
CONSTANTS
  Submission = {s1, s2}
  Ip = {a, b}
  Moderator = {m1, m2}
  Reader = {r}
  Nothing = Nothing
  MaxPerWindow = 1
  Hour = 2
  MaxClock = 2
SYMMETRY ActorSymmetry
SPECIFICATION Spec
INVARIANTS
  TypeOK
  QuotaPerHour
  RefusalJustified
  PromisedPhotoStored
  OrphanNeedsFailure
  PublicPhotoWasApproved
PROPERTY TakeDownSettles
\* A finite set of submissions ends.
CHECK_DEADLOCK FALSE
