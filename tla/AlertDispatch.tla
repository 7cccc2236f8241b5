---------------------------- MODULE AlertDispatch ----------------------------
(***************************************************************************)
(* The alert phase of one ingestion execution: _evaluate_and_dispatch_alert *)
(* of app/ingestion/forecast_cli.py calling dispatch_risk_alert (LINE) and *)
(* then dispatch_web_push_alert of app/services/alert_dispatch.py.         *)
(*                                                                         *)
(* A member of Job is one execution of the scheduled container.  Executions *)
(* share nothing but the two alert_state documents.  Each await of the     *)
(* code is the boundary of an action, so executions interleave exactly     *)
(* where the event loop and the database let them, and an execution may    *)
(* die at every boundary.                                                  *)
(***************************************************************************)
EXTENDS AlertRule

CONSTANTS
  Job,          \* executions: scheduled, retried after a failure, or manual
  Configured,   \* channels with credentials (LINE token, VAPID private key)
  BasinLevels,  \* the risk levels the rainfall can lead to
  Audited,      \* is a delivery_repository passed to the dispatchers?
  Serial,       \* does an execution start only when no other one is running?
  MaxClock      \* bound on the clock

Channel == {"line", "web"}

Time == 0 .. MaxClock

ASSUME ConfiguredAssumption == Configured \subseteq Channel
ASSUME BasinLevelsAssumption == BasinLevels \subseteq Level
ASSUME AuditedAssumption == Audited \in BOOLEAN
ASSUME SerialAssumption == Serial \in BOOLEAN
ASSUME MaxClockAssumption == MaxClock \in Nat

VARIABLES
  clock,          \* wall clock, in hours
  alert_state,    \* the alert_state collection, one document per channel
  stage,          \* where each execution is
  channel,        \* the channel an execution is dispatching to
  level,          \* risk.level computed by an execution
  evaluated_at,   \* evaluated_at of each dispatch call
  state,          \* the local variable "state": the document the call read
  outcome,        \* what became of each dispatch call
  saved,          \* per channel, the executions whose write_alert_state happened
  audit           \* the alert_deliveries collection

vars == <<clock, alert_state, stage, channel, level, evaluated_at, state,
          outcome, saved, audit>>

Active == {"read", "send", "save"}

Stage == Active \cup {"idle", "done", "failed", "crashed"}

\* A transport either answers (2xx or any other status) or raises; when it
\* raises the message may be lost or may have been delivered all the same.
Answered == {"accepted", "refused"}
Raised == {"lost", "late"}
Attempted == Answered \cup Raised

Outcome == Attempted \cup {"none", "suppressed", "no_token"}

DeliveryOutcome == {"none", "sent", "skipped_cooldown", "failed", "skipped_no_token"}

TypeOK ==
  /\ clock \in Time
  /\ alert_state \in [Channel -> AlertState \cup {NoState}]
  /\ stage \in [Job -> Stage]
  /\ channel \in [Job -> Channel]
  /\ level \in [Job -> Level]
  /\ evaluated_at \in [Channel -> [Job -> Time]]
  /\ state \in [Channel -> [Job -> AlertState \cup {NoState}]]
  /\ outcome \in [Channel -> [Job -> Outcome]]
  /\ saved \in [Channel -> SUBSET Job]
  /\ audit \in [Channel -> [Job -> DeliveryOutcome]]

Init ==
  /\ clock = 0
  /\ alert_state = [c \in Channel |-> NoState]
  /\ stage = [j \in Job |-> "idle"]
  /\ channel = [j \in Job |-> "line"]
  /\ level = [j \in Job |-> "green"]
  /\ evaluated_at = [c \in Channel |-> [j \in Job |-> 0]]
  /\ state = [c \in Channel |-> [j \in Job |-> NoState]]
  /\ outcome = [c \in Channel |-> [j \in Job |-> "none"]]
  /\ saved = [c \in Channel |-> {}]
  /\ audit = [c \in Channel |-> [j \in Job |-> "none"]]

-----------------------------------------------------------------------------
(* Steps shared by the actions. *)

Goto(j, s) == stage' = [stage EXCEPT ![j] = s]

Resolve(j, o) == outcome' = [outcome EXCEPT ![channel[j]][j] = o]

\* _log_delivery: nothing without a repository, and a failing append is
\* swallowed.  It runs right after the event it records, so it is part of the
\* action of that event.
Log(j, o) ==
  \/ UNCHANGED audit
  \/ Audited /\ audit' = [audit EXCEPT ![channel[j]][j] = o]

\* A dispatch call returns: LINE is followed by Web Push, whose evaluated_at is
\* taken as its call starts; Web Push is the last one.
Return(j) ==
  \/ /\ channel[j] = "line"
     /\ Goto(j, "read")
     /\ channel' = [channel EXCEPT ![j] = "web"]
     /\ evaluated_at' = [evaluated_at EXCEPT !["web"][j] = clock]
  \/ /\ channel[j] = "web"
     /\ Goto(j, "done")
     /\ UNCHANGED <<channel, evaluated_at>>

-----------------------------------------------------------------------------
(* Actions. *)

\* The frames yield a risk level (any level: the rainfall is the environment's)
\* and the LINE dispatch starts.
Evaluate(j, l) ==
  /\ stage[j] = "idle"
  /\ Serial => \A i \in Job : stage[i] \notin Active
  /\ Goto(j, "read")
  /\ level' = [level EXCEPT ![j] = l]
  /\ evaluated_at' = [evaluated_at EXCEPT !["line"][j] = clock]
  /\ UNCHANGED <<clock, alert_state, channel, state, outcome, saved, audit>>

\* No rainfall inputs in the stored frames, or reading them failed.
SkipEvaluation(j) ==
  /\ stage[j] = "idle"
  /\ Goto(j, "done")
  /\ UNCHANGED <<clock, alert_state, channel, level, evaluated_at, state,
                 outcome, saved, audit>>

\* read_alert_state, with the decision the code derives from it at once.
ReadState(j) ==
  /\ stage[j] = "read"
  /\ state' = [state EXCEPT ![channel[j]][j] = alert_state[channel[j]]]
  /\ UNCHANGED <<clock, alert_state, level, saved>>

Decision(j) ==
  ShouldSend(level[j], alert_state[channel[j]], evaluated_at[channel[j]][j])

Suppress(j) ==
  /\ ReadState(j)
  /\ ~Decision(j)
  /\ Resolve(j, "suppressed")
  /\ Log(j, "skipped_cooldown")
  /\ Return(j)

SkipUnconfigured(j) ==
  /\ ReadState(j)
  /\ Decision(j)
  /\ channel[j] \notin Configured
  /\ Resolve(j, "no_token")
  /\ Log(j, "skipped_no_token")
  /\ Return(j)

Decide(j) ==
  /\ ReadState(j)
  /\ Decision(j)
  /\ channel[j] \in Configured
  /\ Goto(j, "send")
  /\ UNCHANGED <<channel, evaluated_at, outcome, audit>>

MutSendAnswered(j, o) ==
  /\ stage[j] = "send"
  /\ o \in Answered
  /\ Resolve(j, o)
  /\ Log(j, "sent")
  /\ Goto(j, "save")
  /\ UNCHANGED <<clock, alert_state, channel, level, evaluated_at, state, saved>>

\* send_line_notify returned a status, whatever it is; or the Web Push loop
\* ended, "refused" when it counted no accepted push.
SendAnswered(j, o) ==
  /\ stage[j] = "send"
  /\ o \in Answered
  /\ Resolve(j, o)
  /\ Goto(j, "save")
  /\ UNCHANGED <<clock, alert_state, channel, level, evaluated_at, state, saved, audit>>

\* send_line_notify raised: logged as failed, nothing is persisted, and the
\* execution goes on with Web Push.
LineSendRaised(j, o) ==
  /\ stage[j] = "send"
  /\ channel[j] = "line"
  /\ o \in Raised
  /\ Resolve(j, o)
  /\ Log(j, "failed")
  /\ Return(j)
  /\ UNCHANGED <<clock, alert_state, level, state, saved>>

\* list_subscriptions or delete_subscription raised: only the blanket handler
\* of _evaluate_and_dispatch_alert catches it.
WebSendRaised(j, o) ==
  /\ stage[j] = "send"
  /\ channel[j] = "web"
  /\ o \in Raised
  /\ Resolve(j, o)
  /\ Goto(j, "failed")
  /\ UNCHANGED <<clock, alert_state, channel, level, evaluated_at, state, saved, audit>>

MutSaveState(j) ==
  LET c == channel[j] IN
  /\ stage[j] = "save"
  /\ alert_state' = [alert_state EXCEPT ![c] = [level |-> level[j]]]
  /\ saved' = [saved EXCEPT ![c] = @ \cup {j}]
  /\ Log(j, "sent")
  /\ Return(j)
  /\ UNCHANGED <<clock, level, state, outcome>>

\* write_alert_state: an upsert by source with the locals of the call.
SaveState(j) ==
  LET c == channel[j] IN
  /\ stage[j] = "save"
  /\ alert_state' = [alert_state EXCEPT
                       ![c] = [level |-> level[j], at |-> evaluated_at[c][j]]]
  /\ saved' = [saved EXCEPT ![c] = @ \cup {j}]
  /\ Log(j, "sent")
  /\ Return(j)
  /\ UNCHANGED <<clock, level, state, outcome>>

\* A database error in read_alert_state or write_alert_state, swallowed by the
\* blanket handler of _evaluate_and_dispatch_alert.
DatabaseError(j) ==
  /\ stage[j] \in {"read", "save"}
  /\ Goto(j, "failed")
  /\ UNCHANGED <<clock, alert_state, channel, level, evaluated_at, state,
                 outcome, saved, audit>>

\* The container dies or reaches the task timeout.
Crash(j) ==
  /\ stage[j] \in Active
  /\ Goto(j, "crashed")
  /\ UNCHANGED <<clock, alert_state, channel, level, evaluated_at, state,
                 outcome, saved, audit>>

Tick ==
  /\ clock < MaxClock
  /\ clock' = clock + 1
  /\ UNCHANGED <<alert_state, stage, channel, level, evaluated_at, state,
                 outcome, saved, audit>>

Next ==
  \/ Tick
  \/ \E j \in Job :
       \/ \E l \in BasinLevels : Evaluate(j, l)
       \/ SkipEvaluation(j)
       \/ Suppress(j)
       \/ SkipUnconfigured(j)
       \/ Decide(j)
       \/ \E o \in Answered : SendAnswered(j, o)
       \/ \E o \in Raised : LineSendRaised(j, o)
       \/ \E o \in Raised : WebSendRaised(j, o)
       \/ SaveState(j)
       \/ DatabaseError(j)
       \/ Crash(j)

Spec == Init /\ [][Next]_vars

-----------------------------------------------------------------------------
(* Properties. *)

\* Execution j announced on channel c exactly what the state s says.
Announced(c, j, s) ==
  s = [level |-> level[j], at |-> evaluated_at[c][j]]

\* Whatever alert_state says was announced by an execution whose transport
\* answered: a send that raised (dispatch_risk_alert returns before
\* write_alert_state) leaves the state to the next execution.
PersistedWasAnswered ==
  \A c \in Channel : alert_state[c] # NoState =>
    \E j \in saved[c] :
      /\ Announced(c, j, alert_state[c])
      /\ outcome[c][j] \in Answered

\* An orange or red level is never suppressed for nothing: an execution that
\* the transport answered announced a higher level, or this level less than a
\* cooldown before.  Holds with overlapping executions, failures and crashes.
SuppressionJustified ==
  \A c \in Channel, j \in Job :
    outcome[c][j] = "suppressed" /\ level[j] \in AlertingLevels =>
      \E i \in saved[c] :
        /\ outcome[c][i] \in Answered
        /\ \/ Rank[level[i]] > Rank[level[j]]
           \/ /\ level[i] = level[j]
              /\ evaluated_at[c][j] < evaluated_at[c][i] + Cooldown

\* A push that repeats the level found in alert_state comes at least a cooldown
\* after an answered push of that level, whoever wrote the state in between.
RepeatNeedsCooldown ==
  \A c \in Channel, j \in Job :
    /\ outcome[c][j] \in Attempted
    /\ state[c][j] # NoState
    /\ state[c][j].level = level[j]
    => \E i \in saved[c] :
         /\ level[i] = level[j]
         /\ outcome[c][i] \in Answered
         /\ evaluated_at[c][i] + Cooldown <= evaluated_at[c][j]

\* The audit trail never runs ahead of the state: a "sent" record belongs to an
\* answered push whose state was written, a "failed" record to one whose state
\* was not, so the next execution may try again.
AuditAgreesWithState ==
  \A c \in Channel, j \in Job :
    /\ audit[c][j] = "sent" => j \in saved[c] /\ outcome[c][j] \in Answered
    /\ audit[c][j] = "failed" => j \notin saved[c]

\* Without overlap, two persisted announcements of one level on one channel are
\* at least a cooldown apart, whatever was announced between them and however
\* many executions failed or died.
SavedSpacing ==
  Serial => \A c \in Channel : \A i, j \in saved[c] :
    i # j /\ level[i] = level[j] =>
      \/ evaluated_at[c][i] + Cooldown <= evaluated_at[c][j]
      \/ evaluated_at[c][j] + Cooldown <= evaluated_at[c][i]

\* With Serial, alert_state is an AlertLedger: every write escalates or repeats
\* after the cooldown.
Ledger == INSTANCE AlertLedger WITH ledger <- alert_state

LedgerSpec == Ledger!Spec

\* The docstrings of dispatch_risk_alert ("only updated after a successful
\* send") and dispatch_web_push_alert ("only persisted after at least one
\* successful send"): the persisted announcement reached somebody.  The code
\* does not provide it.
PersistedWasDelivered ==
  \A c \in Channel : alert_state[c] # NoState =>
    \E j \in saved[c] :
      Announced(c, j, alert_state[c]) /\ outcome[c][j] = "accepted"
=============================================================================
