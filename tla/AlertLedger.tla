----------------------------- MODULE AlertLedger -----------------------------
(***************************************************************************)
(* What a reader of alert_state may rely on when evaluations do not        *)
(* overlap: one ledger entry per channel that never de-escalates and never *)
(* repeats a level before its cooldown has elapsed.  AlertDispatch         *)
(* implements this module with ledger <- alert_state.                      *)
(***************************************************************************)
EXTENDS AlertRule

CONSTANTS
  Channel,   \* the alert channels
  Time       \* the instants an evaluation can carry

VARIABLE ledger

Init == ledger = [c \in Channel |-> NoState]

\* Level l is announced on channel c by an evaluation made at time t.
Record(c, l, t) ==
  /\ \/ ledger[c] = NoState
     \/ Escalates(l, ledger[c]) /\ t >= ledger[c].at
     \/ l = ledger[c].level /\ CooldownElapsed(ledger[c], t)
  /\ ledger' = [ledger EXCEPT ![c] = [level |-> l, at |-> t]]

Next == \E c \in Channel, l \in AlertingLevels, t \in Time : Record(c, l, t)

Spec == Init /\ [][Next]_ledger
=============================================================================
