--------------------------- MODULE MCAlertDispatch ---------------------------
(***************************************************************************)
(* TLC instances of AlertDispatch.  Executions are interchangeable.        *)
(***************************************************************************)
EXTENDS AlertDispatch, TLC

BothChannels == {"line", "web"}

JobSymmetry == Permutations(Job)
=============================================================================
