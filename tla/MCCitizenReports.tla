--------------------------- MODULE MCCitizenReports ---------------------------
(* TLC instances of CitizenReports; its actors are interchangeable. *)
EXTENDS CitizenReports, TLC

ActorSymmetry ==
  Permutations(Submission) \cup Permutations(Ip) \cup Permutations(Moderator)
===============================================================================
