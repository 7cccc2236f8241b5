--------------------------- MODULE WebPushBroadcast ---------------------------
(***************************************************************************)
(* The Web Push channel in detail: dispatch_web_push_alert and             *)
(* send_web_push_alerts of app/services/alert_dispatch.py, against the     *)
(* push_subscriptions collection that POST and DELETE                      *)
(* /alerts/subscriptions change while broadcasts run.                      *)
(*                                                                         *)
(* One alert episode is modelled: the basin stays at one alerting level    *)
(* and the cooldown does not elapse, so the web_push state document is     *)
(* either missing (or lower) or says that this alert was announced.        *)
(* Nothing keeps a scheduled execution from starting beside one that still *)
(* runs: the state is read at the start of a broadcast and written at its  *)
(* end, and no lock is held between.                                       *)
(***************************************************************************)
EXTENDS Naturals, FiniteSets

CONSTANTS
  Job,         \* executions that may run at one time
  Endpoint,    \* push endpoints, ordered as list_subscriptions sorts them
  MaxFaults,   \* bound on the executions that die or meet a database error
  MaxOverlaps  \* bound on the executions that start beside a running one

ASSUME JobAssumption == IsFiniteSet(Job)
ASSUME EndpointAssumption == Endpoint \subseteq Nat /\ IsFiniteSet(Endpoint)
ASSUME BoundsAssumption == MaxFaults \in Nat /\ MaxOverlaps \in Nat

VARIABLES
  store,       \* push_subscriptions
  wanted,      \* endpoints whose browser opted in and did not opt out
  expired,     \* endpoints the push service dropped: it answers 404 or 410
  announced,   \* the web_push alert_state document names this alert
  stage,       \* where each execution is
  pending,     \* the part of its list each execution's loop has not reached
  dead,        \* the endpoint to prune while stage[j] = "prune"
  tried,       \* endpoints a push of this alert was sent to
  received,    \* pushes of this alert each browser received
  faults,      \* executions that died or met a database error
  overlaps     \* executions that started beside a running one

browsers == <<store, wanted, expired>>
vars == <<browsers, announced, stage, pending, dead, tried, received, faults, overlaps>>

\* Not running: no alert was to be sent or it was persisted, an error was swallowed
\* by the blanket handler of the caller, or the container died.
Ended == {"idle", "failed", "crashed"}

Running == {j \in Job : stage[j] \notin Ended}

TypeOK ==
  /\ store \subseteq Endpoint
  /\ wanted \subseteq Endpoint
  /\ expired \subseteq Endpoint
  /\ announced \in BOOLEAN
  /\ stage \in [Job -> Ended \cup {"list", "send", "prune", "save"}]
  /\ pending \in [Job -> SUBSET Endpoint]
  /\ dead \in [Job -> SUBSET Endpoint]
  /\ \A j \in Job : dead[j] # {} <=> stage[j] = "prune"
  /\ tried \subseteq Endpoint
  /\ received \in [Endpoint -> Nat]
  /\ faults \in 0 .. MaxFaults
  /\ overlaps \in 0 .. MaxOverlaps

Init ==
  /\ store \in SUBSET Endpoint
  /\ wanted = store
  /\ expired = {}
  /\ announced = FALSE
  /\ stage = [j \in Job |-> "idle"]
  /\ pending = [j \in Job |-> {}]
  /\ dead = [j \in Job |-> {}]
  /\ tried = {}
  /\ received = [e \in Endpoint |-> 0]
  /\ faults = 0
  /\ overlaps = 0

-----------------------------------------------------------------------------
(* Browsers, the API and the push service. *)

\* create_subscription: an upsert by endpoint.  A page may post again an
\* endpoint the push service has already dropped.
Subscribe(e) ==
  /\ store' = store \cup {e}
  /\ wanted' = wanted \cup {e}
  /\ UNCHANGED <<expired, announced, stage, pending, dead, tried, received, faults, overlaps>>

\* delete_subscription of the API.
Unsubscribe(e) ==
  /\ store' = store \ {e}
  /\ wanted' = wanted \ {e}
  /\ UNCHANGED <<expired, announced, stage, pending, dead, tried, received, faults, overlaps>>

\* The push service drops an endpoint, for good.
Expire(e) ==
  /\ expired' = expired \cup {e}
  /\ UNCHANGED <<store, wanted, announced, stage, pending, dead, tried, received, faults, overlaps>>

-----------------------------------------------------------------------------
(* The scheduled executions. *)

MutStart(j) ==
  /\ stage[j] \in Ended
  /\ IF Running = {} THEN UNCHANGED overlaps
     ELSE overlaps < MaxOverlaps /\ overlaps' = overlaps + 1
  /\ stage' = [stage EXCEPT ![j] = "list"]
  /\ UNCHANGED <<browsers, announced, pending, dead, tried, received, faults>>

\* read_alert_state and should_send_alert: an announced alert is suppressed.
Start(j) ==
  /\ stage[j] \in Ended
  /\ ~announced
  /\ IF Running = {} THEN UNCHANGED overlaps
     ELSE overlaps < MaxOverlaps /\ overlaps' = overlaps + 1
  /\ stage' = [stage EXCEPT ![j] = "list"]
  /\ UNCHANGED <<browsers, announced, pending, dead, tried, received, faults>>

List(j) ==
  /\ stage[j] = "list"
  /\ pending' = [pending EXCEPT ![j] = store]
  /\ stage' = [stage EXCEPT ![j] = "send"]
  /\ UNCHANGED <<browsers, announced, dead, tried, received, faults, overlaps>>

\* The loop takes the next subscription and sends to it.
Sending(j, e) ==
  /\ stage[j] = "send"
  /\ e \in pending[j]
  /\ \A f \in pending[j] : e <= f
  /\ tried' = tried \cup {e}
  /\ UNCHANGED <<browsers, announced, faults, overlaps>>

\* The push service took the message (2xx).
PushAccepted(j, e) ==
  /\ Sending(j, e)
  /\ e \notin expired
  /\ pending' = [pending EXCEPT ![j] = @ \ {e}]
  /\ received' = [received EXCEPT ![e] = @ + 1]
  /\ UNCHANGED <<stage, dead>>

MutPushFailed(j, e) ==
  /\ Sending(j, e)
  /\ pending' = [pending EXCEPT ![j] = {}]
  /\ UNCHANGED <<stage, dead, received>>

MutPushFailedPrunes(j, e) ==
  /\ Sending(j, e)
  /\ pending' = [pending EXCEPT ![j] = @ \ {e}]
  /\ stage' = [stage EXCEPT ![j] = "prune"]
  /\ dead' = [dead EXCEPT ![j] = {e}]
  /\ UNCHANGED received

\* An exception, no answer, or a status that is neither 2xx nor 404/410: logged,
\* and the loop continues.  The message may have arrived all the same.
PushFailed(j, e) ==
  /\ Sending(j, e)
  /\ pending' = [pending EXCEPT ![j] = @ \ {e}]
  /\ received' \in {received, [received EXCEPT ![e] = @ + 1]}
  /\ UNCHANGED <<stage, dead>>

\* 404 or 410: the subscription is to be deleted.
PushGone(j, e) ==
  /\ Sending(j, e)
  /\ e \in expired
  /\ pending' = [pending EXCEPT ![j] = @ \ {e}]
  /\ stage' = [stage EXCEPT ![j] = "prune"]
  /\ dead' = [dead EXCEPT ![j] = {e}]
  /\ UNCHANGED received

MutPrune(j) ==
  /\ stage[j] = "prune"
  /\ store' = store \ dead[j]
  /\ stage' = [stage EXCEPT ![j] = "send"]
  /\ UNCHANGED <<wanted, expired, announced, pending, dead, tried, received, faults, overlaps>>

\* delete_subscription of the repository, by endpoint.
Prune(j) ==
  /\ stage[j] = "prune"
  /\ store' = store \ dead[j]
  /\ dead' = [dead EXCEPT ![j] = {}]
  /\ stage' = [stage EXCEPT ![j] = "send"]
  /\ UNCHANGED <<wanted, expired, announced, pending, tried, received, faults, overlaps>>

\* The loop is over, whatever it counted.
EndLoop(j) ==
  /\ stage[j] = "send"
  /\ pending[j] = {}
  /\ stage' = [stage EXCEPT ![j] = "save"]
  /\ UNCHANGED <<browsers, announced, pending, dead, tried, received, faults, overlaps>>

\* write_alert_state, whatever the document says by now.
Save(j) ==
  /\ stage[j] = "save"
  /\ announced' = TRUE
  /\ stage' = [stage EXCEPT ![j] = "idle"]
  /\ UNCHANGED <<browsers, pending, dead, tried, received, faults, overlaps>>

\* The execution ends before write_alert_state: "failed" after a database error
\* (delete_subscription included: the loop does not catch it), "crashed" when
\* the container dies.
Abort(j, s) ==
  /\ stage[j] \notin Ended
  /\ faults < MaxFaults
  /\ faults' = faults + 1
  /\ stage' = [stage EXCEPT ![j] = s]
  /\ pending' = [pending EXCEPT ![j] = {}]
  /\ dead' = [dead EXCEPT ![j] = {}]
  /\ s = "failed" => stage[j] # "send"
  /\ UNCHANGED <<browsers, announced, tried, received, overlaps>>

\* What a running execution does next.
Step(j) ==
  \/ List(j)
  \/ \E e \in Endpoint : PushAccepted(j, e) \/ PushFailed(j, e) \/ PushGone(j, e)
  \/ Prune(j)
  \/ EndLoop(j)
  \/ Save(j)

Next ==
  \/ \E j \in Job : Start(j) \/ Step(j) \/ Abort(j, "failed") \/ Abort(j, "crashed")
  \/ \E e \in Endpoint : Subscribe(e) \/ Unsubscribe(e) \/ Expire(e)

\* The scheduler starts executions for ever, and every await of a running one
\* returns: each send has a timeout of ten seconds.
Spec ==
  /\ Init /\ [][Next]_vars
  /\ WF_vars(\E j \in Job : Start(j))
  /\ \A j \in Job : WF_vars(Step(j))

-----------------------------------------------------------------------------
(* Properties. *)

\* Pruning never costs a live subscriber its subscription: a browser that opted
\* in and whose endpoint the push service still serves is stored, whatever the
\* interleaving of broadcasts, pruning and API calls.
LiveSubscribersKept == wanted \ expired \subseteq store

\* Every further push of the same alert to a browser is paid for: by an execution
\* that died or failed between its push and write_alert_state, or by one that
\* started beside a running one and so did not find its announcement.
DuplicatesNeedFaultOrOverlap ==
  \A e \in Endpoint : received[e] <= 1 + faults + overlaps

\* A browser that stays subscribed is sent the alert sooner or later, whatever
\* the other endpoints answer.
StandingSubscriberTried ==
  \A e \in Endpoint : [](e \in store) => <>(e \in tried)
===============================================================================
