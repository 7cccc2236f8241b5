------------------------------ MODULE AlertRule ------------------------------
(***************************************************************************)
(* The alert decision of app/services/alert_dispatch.py: the ordering of   *)
(* the risk levels, the persisted alert state and should_send_alert.  The  *)
(* module has no state; both channels and the abstract ledger use it.      *)
(*                                                                         *)
(* Here and in the other modules an operator whose name starts with "Mut"  *)
(* is not part of the model: it is the operator defined right after it     *)
(* with a plausible bug, kept to show that a property notices the bug.     *)
(***************************************************************************)
EXTENDS Naturals

CONSTANTS
  Cooldown,   \* line_notify_cooldown_hours, in units of the clock
  NoState     \* the missing alert_state document of a channel

Level == {"green", "yellow", "orange", "red"}

Rank == [green |-> 0, yellow |-> 1, orange |-> 2, red |-> 3]

AlertingLevels == {"orange", "red"}

\* The fields of an alert_state document the rule reads; "source" is the index
\* of the variable that holds the documents.
AlertState == [level : Level, at : Nat]

ASSUME CooldownAssumption == Cooldown \in Nat
ASSUME NoStateAssumption == NoState \notin AlertState

Escalates(l, s) == Rank[l] > Rank[s.level]

MutCooldownElapsedEarly(s, now) == now + 1 >= s.at + Cooldown

MutCooldownElapsedLate(s, now) == now > s.at + Cooldown

CooldownElapsed(s, now) == now >= s.at + Cooldown

MutNoDowngrade(l, s, now) ==
  /\ l \in AlertingLevels
  /\ s # NoState => l # s.level \/ CooldownElapsed(s, now)

MutAnyRepeat(l, s, now) ==
  /\ l \in AlertingLevels
  /\ s # NoState => Rank[l] >= Rank[s.level]

\* should_send_alert: quiet levels never alert, the first alert is free, a rise
\* over the last alerted level bypasses the cooldown, a repeat waits for it.
ShouldSend(l, s, now) ==
  /\ l \in AlertingLevels
  /\ s # NoState =>
       \/ Escalates(l, s)
       \/ Rank[l] = Rank[s.level] /\ CooldownElapsed(s, now)
=============================================================================
