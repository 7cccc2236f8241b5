-------------------------- MODULE ForecastIngestion --------------------------
(***************************************************************************)
(* One execution of the scheduled container: run_mongo_ingestion of        *)
(* app/ingestion/forecast_cli.py over MongoForecastRepository, from the    *)
(* discovery of a model cycle to the start of the public alert phase, with *)
(* the data-quality check and the operator notifications in between.  The  *)
(* alert phase itself is AlertDispatch.                                    *)
(*                                                                         *)
(* Executions share the forecast_runs and forecast_frames collections.     *)
(* Every await is the boundary of an action; an execution may die there,   *)
(* or meet a database error, and executions may overlap (a manual re-run,  *)
(* a retry).  Downloading is synchronous and touches no shared state.      *)
(***************************************************************************)
EXTENDS ModelCycles, Sequences, FiniteSets

CONSTANTS
  Job,          \* executions
  Ingested,     \* the providers of --provider, in order
  Hours,        \* the requested forecast hours
  CyclePeriod,  \* per provider, clock units between two model cycles
  Window,       \* per provider, freshness_threshold_hours of the discovery
  MaxAge,       \* per provider, data_quality_..._max_age_hours
  OpsToken,     \* is the LINE ops token set?
  MaxClock      \* bound on the clock

Provider == {"gfs", "ecmwf"}

Pipeline == Provider \cup {"stations"}

\* The order in which the snapshot lists its sources.
Position == [gfs |-> 1, ecmwf |-> 2, stations |-> 3]

Time == 0 .. MaxClock

ASSUME IngestedAssumption == Ingested \in Seq(Provider)
ASSUME HoursAssumption == Hours \subseteq Nat /\ IsFiniteSet(Hours) /\ Hours # {}
ASSUME CycleAssumption ==
  /\ CyclePeriod \in [Provider -> Nat \ {0}]
  /\ Window \in [Provider -> Nat]
  /\ MaxAge \in [Provider -> Nat]
ASSUME OpsTokenAssumption == OpsToken \in BOOLEAN
ASSUME MaxClockAssumption == MaxClock \in Nat

VARIABLES
  clock,         \* wall clock
  runs,          \* forecast_runs, per provider
  frames,        \* forecast_frames: copies stored, per provider, cycle and hour
  observations,  \* does station_observations hold a document?
  stage,         \* where each execution is
  retrieved_at,  \* retrieved_at of each execution
  at,            \* index of the provider the loop is at
  cycle,         \* run_time of the cycle an execution stores, per provider
  left,          \* forecast hours of the current cycle still to insert
  result,        \* what the loop did with each provider
  events,        \* ops events still to be dispatched
  notified,      \* ops events LINE answered, or logged when there is no token
  overlap        \* has an execution ever started while another was running?

store == <<runs, frames, observations>>
progress == <<at, cycle, left, result>>
ops == <<events, notified>>
vars == <<clock, store, stage, retrieved_at, progress, ops, overlap>>

Running == {"ingest", "delete", "insert", "quality", "notify", "alert"}

\* An execution that ended: normally, by a database error, by an error of the
\* quality check that nothing caught, or with its container.
Ended == {"done", "aborted", "raised", "crashed"}

Stage == Running \cup Ended \cup {"idle"}

\* A run document.  A stored one is keyed by its cycle; a failed one by the hour
\* of the execution that failed, whose wall-clock time is also its run_time.
Run == [status : {"stored", "failed"}, time : Time]

TypeOK ==
  /\ clock \in Time
  /\ runs \in [Provider -> SUBSET Run]
  /\ frames \in [Provider -> [Time -> [Hours -> Nat]]]
  /\ observations \in BOOLEAN
  /\ stage \in [Job -> Stage]
  /\ retrieved_at \in [Job -> Time]
  /\ at \in [Job -> 1 .. Len(Ingested) + 1]
  /\ cycle \in [Job -> [Provider -> Time]]
  /\ left \in [Job -> SUBSET Hours]
  /\ result \in [Job -> [Provider -> {"none", "stored", "failed"}]]
  /\ events \in [Job -> SUBSET Pipeline]
  /\ notified \in [Job -> SUBSET Pipeline]
  /\ overlap \in BOOLEAN
  /\ \A j \in Job : stage[j] \in {"delete", "insert"} => at[j] <= Len(Ingested)

Init ==
  /\ clock = 0
  /\ runs = [p \in Provider |-> {}]
  /\ frames = [p \in Provider |-> [t \in Time |-> [h \in Hours |-> 0]]]
  /\ observations = FALSE
  /\ stage = [j \in Job |-> "idle"]
  /\ retrieved_at = [j \in Job |-> 0]
  /\ at = [j \in Job |-> 1]
  /\ cycle = [j \in Job |-> [p \in Provider |-> 0]]
  /\ left = [j \in Job |-> {}]
  /\ result = [j \in Job |-> [p \in Provider |-> "none"]]
  /\ events = [j \in Job |-> {}]
  /\ notified = [j \in Job |-> {}]
  /\ overlap = FALSE

-----------------------------------------------------------------------------
(* What the readers of the two collections see. *)

\* An instant is named by the hour it follows: at clock t it is a little later
\* than t, so a failed run has a later run_time than the cycle of the same hour,
\* and a cycle's age exceeds a whole number of hours as soon as it reaches it.
Newer(r, s) ==
  \/ r.time > s.time
  \/ r.time = s.time /\ r.status = "failed" /\ s.status = "stored"

\* freshness_summary and _classify_forecast_source: the status of a pipeline is
\* that of its run with the latest run_time, failed before its age is looked at.
MutStatus(p) ==
  IF \E r \in runs[p] : r.status = "stored" /\ clock < r.time + MaxAge[p]
  THEN "fresh"
  ELSE "failed"

Status(p) ==
  IF runs[p] = {} THEN "failed"
  ELSE LET latest == CHOOSE r \in runs[p] : \A s \in runs[p] \ {r} : Newer(r, s)
       IN  CASE latest.status = "failed" -> "failed"
             [] latest.status # "failed" /\ clock >= latest.time + MaxAge[p] -> "stale"
             [] OTHER -> "fresh"

\* compute_data_quality and ops_events_from_snapshot.  A station collection that
\* can be classified at all is empty, which is a failed pipeline.
Breaching == {p \in Provider : Status(p) # "fresh"} \cup {"stations"}

Whole(p, c) == \A h \in Hours : frames[p][c][h] = 1

-----------------------------------------------------------------------------
(* Actions. *)

Goto(j, s) == stage' = [stage EXCEPT ![j] = s]

\* The provider the loop of execution j is at.
Current(j) == Ingested[at[j]]

CurrentCycle(j) == cycle[j][Current(j)]

Start(j) ==
  /\ stage[j] = "idle"
  /\ Goto(j, "ingest")
  /\ retrieved_at' = [retrieved_at EXCEPT ![j] = clock]
  /\ overlap' = (overlap \/ \E i \in Job : stage[i] \in Running)
  /\ UNCHANGED <<clock, store, progress, ops>>

\* The cycles discover_latest_run may settle on: not in the future and not older
\* than the freshness window.  Which of them it finds depends on what is
\* published and on which probes get through.
Candidates(p, t) == Discoverable(CyclePeriod[p], Window[p], t)

\* _ingest_one_provider succeeded (the clients return every requested hour or
\* raise) and upsert_run replaced the run document, keyed by provider and cycle.
RecordRun(j, c) ==
  /\ stage[j] = "ingest" /\ at[j] <= Len(Ingested)
  /\ c \in Candidates(Current(j), retrieved_at[j])
  /\ runs' = [runs EXCEPT ![Current(j)] = @ \cup {[status |-> "stored", time |-> c]}]
  /\ cycle' = [cycle EXCEPT ![j][Current(j)] = c]
  /\ left' = [left EXCEPT ![j] = Hours]
  /\ Goto(j, "delete")
  /\ UNCHANGED <<clock, frames, observations, retrieved_at, at, result, ops, overlap>>

MutRecordFailure(j) ==
  /\ stage[j] = "ingest" /\ at[j] <= Len(Ingested)
  /\ runs' = [runs EXCEPT ![Current(j)] = {[status |-> "failed", time |-> retrieved_at[j]]}]
  /\ result' = [result EXCEPT ![j][Current(j)] = "failed"]
  /\ at' = [at EXCEPT ![j] = @ + 1]
  /\ UNCHANGED <<clock, frames, observations, stage, retrieved_at, cycle, left, ops, overlap>>

\* Discovery, download or decoding raised: a failed run is recorded and the loop
\* goes on with the next provider.
RecordFailure(j) ==
  /\ stage[j] = "ingest" /\ at[j] <= Len(Ingested)
  /\ runs' = [runs EXCEPT ![Current(j)] =
                @ \cup {[status |-> "failed", time |-> retrieved_at[j]]}]
  /\ result' = [result EXCEPT ![j][Current(j)] = "failed"]
  /\ at' = [at EXCEPT ![j] = @ + 1]
  /\ UNCHANGED <<clock, frames, observations, stage, retrieved_at, cycle, left, ops, overlap>>

MutDeleteFrames(j) ==
  /\ stage[j] = "delete"
  /\ Goto(j, "insert")
  /\ UNCHANGED <<clock, store, retrieved_at, progress, ops, overlap>>

MutDeleteProviderFrames(j) ==
  /\ stage[j] = "delete"
  /\ frames' = [frames EXCEPT ![Current(j)] = [t \in Time |-> [h \in Hours |-> 0]]]
  /\ Goto(j, "insert")
  /\ UNCHANGED <<clock, runs, observations, retrieved_at, progress, ops, overlap>>

\* upsert_frames, first half: delete_many over the frame ids of the batch.
DeleteFrames(j) ==
  /\ stage[j] = "delete"
  /\ frames' = [frames EXCEPT ![Current(j)][CurrentCycle(j)] = [h \in Hours |-> 0]]
  /\ Goto(j, "insert")
  /\ UNCHANGED <<clock, runs, observations, retrieved_at, progress, ops, overlap>>

\* Second half: insert_many stores the documents one by one, in order.
InsertFrame(j, h) ==
  /\ stage[j] = "insert"
  /\ h \in left[j] /\ \A k \in left[j] : h <= k
  /\ frames' = [frames EXCEPT ![Current(j)][CurrentCycle(j)][h] = @ + 1]
  /\ left' = [left EXCEPT ![j] = @ \ {h}]
  /\ UNCHANGED <<clock, runs, observations, stage, retrieved_at, at, cycle,
                 result, ops, overlap>>

MutNextProviderStays(j) ==
  /\ stage[j] = "insert" /\ left[j] = {}
  /\ result' = [result EXCEPT ![j][Current(j)] = "stored"]
  /\ at' = [at EXCEPT ![j] = @ + 1]
  /\ UNCHANGED <<clock, store, stage, retrieved_at, cycle, left, ops, overlap>>

MutNextProvider(j) ==
  /\ stage[j] = "insert"
  /\ result' = [result EXCEPT ![j][Current(j)] = "stored"]
  /\ at' = [at EXCEPT ![j] = @ + 1]
  /\ Goto(j, "ingest")
  /\ UNCHANGED <<clock, store, retrieved_at, cycle, left, ops, overlap>>

NextProvider(j) ==
  /\ stage[j] = "insert" /\ left[j] = {}
  /\ result' = [result EXCEPT ![j][Current(j)] = "stored"]
  /\ at' = [at EXCEPT ![j] = @ + 1]
  /\ Goto(j, "ingest")
  /\ UNCHANGED <<clock, store, retrieved_at, cycle, left, ops, overlap>>

EndIngestion(j) ==
  /\ stage[j] = "ingest" /\ at[j] > Len(Ingested)
  /\ Goto(j, "quality")
  /\ UNCHANGED <<clock, store, retrieved_at, progress, ops, overlap>>

\* evaluate_and_alert computes its snapshot.  Its reads, one per pipeline, are one
\* action: no property relates the answers for two pipelines.
ReadQuality(j) ==
  /\ stage[j] = "quality"
  /\ ~observations
  /\ events' = [events EXCEPT ![j] = Breaching]
  /\ Goto(j, "notify")
  /\ UNCHANGED <<clock, store, retrieved_at, progress, notified, overlap>>

\* latest_per_station cannot decode a stored observation: Motor hands back naive
\* datetimes, which StationObservation rejects.  Nothing catches the error.
ReadQualityRaises(j) ==
  /\ stage[j] = "quality"
  /\ observations
  /\ Goto(j, "raised")
  /\ UNCHANGED <<clock, store, retrieved_at, progress, ops, overlap>>

NextEvent(j, e) == e \in events[j] /\ \A f \in events[j] : Position[e] <= Position[f]

\* LineOpsNotifier.notify returned: LINE answered, or there is no token.
Notify(j, e) ==
  /\ stage[j] = "notify"
  /\ NextEvent(j, e)
  /\ events' = [events EXCEPT ![j] = @ \ {e}]
  /\ notified' = [notified EXCEPT ![j] = @ \cup {e}]
  /\ UNCHANGED <<clock, store, stage, retrieved_at, progress, overlap>>

\* The LINE request raised; neither dispatch_ops_alerts nor its callers catch it.
NotifyRaises(j) ==
  /\ stage[j] = "notify" /\ events[j] # {}
  /\ OpsToken
  /\ Goto(j, "raised")
  /\ UNCHANGED <<clock, store, retrieved_at, progress, ops, overlap>>

BeginAlert(j) ==
  /\ stage[j] = "notify" /\ events[j] = {}
  /\ Goto(j, "alert")
  /\ UNCHANGED <<clock, store, retrieved_at, progress, ops, overlap>>

\* _evaluate_and_dispatch_alert swallows what goes wrong in it, so the execution
\* ends normally; main exits with 1 when a provider failed.
EndAlert(j) ==
  /\ stage[j] = "alert"
  /\ Goto(j, "done")
  /\ UNCHANGED <<clock, store, retrieved_at, progress, ops, overlap>>

\* A database error outside the alert phase ends the execution.
DatabaseError(j) ==
  /\ stage[j] \in {"ingest", "delete", "insert", "quality"}
  /\ Goto(j, "aborted")
  /\ UNCHANGED <<clock, store, retrieved_at, progress, ops, overlap>>

\* The container dies or reaches the task timeout.
Crash(j) ==
  /\ stage[j] \in Running
  /\ Goto(j, "crashed")
  /\ UNCHANGED <<clock, store, retrieved_at, progress, ops, overlap>>

\* GET /water-levels of the API persists what it fetched.
StoreObservation ==
  /\ ~observations
  /\ observations' = TRUE
  /\ UNCHANGED <<clock, runs, frames, stage, retrieved_at, progress, ops, overlap>>

Tick ==
  /\ clock < MaxClock
  /\ clock' = clock + 1
  /\ UNCHANGED <<store, stage, retrieved_at, progress, ops, overlap>>

Next ==
  \/ Tick
  \/ StoreObservation
  \/ \E j \in Job :
       \/ Start(j)
       \/ \E c \in Time : RecordRun(j, c)
       \/ RecordFailure(j)
       \/ DeleteFrames(j)
       \/ \E h \in Hours : InsertFrame(j, h)
       \/ NextProvider(j)
       \/ EndIngestion(j)
       \/ ReadQuality(j)
       \/ ReadQualityRaises(j)
       \/ \E e \in Pipeline : Notify(j, e)
       \/ NotifyRaises(j)
       \/ BeginAlert(j)
       \/ EndAlert(j)
       \/ DatabaseError(j)
       \/ Crash(j)

Spec == Init /\ [][Next]_vars

-----------------------------------------------------------------------------
(* Properties. *)

Stored(p, c) == [status |-> "stored", time |-> c] \in runs[p]

\* A frame is never found without its run document: upsert_run comes before
\* upsert_frames, and a failure is recorded under another key.
FramesHaveRun ==
  \A p \in Provider, c \in Time, h \in Hours : frames[p][c][h] > 0 => Stored(p, c)

\* A stored cycle that lacks an hour is the work of an execution that is still
\* storing that hour, or that died or met a database error before it did; a
\* re-run that completed leaves no hole.
HolesNeedAnUnfinishedWriter ==
  \A p \in Provider, c \in Time, h \in Hours :
    Stored(p, c) /\ frames[p][c][h] = 0 =>
      \E j \in Job :
        /\ at[j] <= Len(Ingested) /\ Current(j) = p
        /\ cycle[j][p] = c
        /\ h \in left[j]
        /\ stage[j] \in {"delete", "insert", "aborted", "crashed"}

\* Without overlap, re-runs and retries are idempotent: however many executions
\* died half-way through a cycle, no frame is stored twice.
DuplicatesNeedOverlap ==
  overlap \/ \A p \in Provider, c \in Time, h \in Hours : frames[p][c][h] <= 1

\* Without overlap, the alert phase finds whole what its execution ingested.
AlertSeesWholeCycles ==
  overlap \/ \A j \in Job : stage[j] = "alert" =>
    \A p \in Provider : result[j][p] = "stored" =>
      Stored(p, cycle[j][p]) /\ Whole(p, cycle[j][p])

\* An operator hears of every provider failure: an execution that recorded one
\* and got to the alert phase notified that pipeline, unless a cycle newer than
\* the failure had been stored meanwhile.
FailureIsNotified ==
  \A j \in Job, p \in Provider :
    stage[j] \in {"alert", "done"} /\ result[j][p] = "failed" =>
      \/ p \in notified[j]
      \/ \E c \in Time : c > retrieved_at[j] /\ Stored(p, c)

\* docs/ops-runbook.md: detection runs on every ingestion tick, and each
\* pipeline is classified independently.  However the quality check of an
\* execution ends, the providers that failed in it were notified.  The code does
\* not provide it: one station observation in the database makes the station
\* check raise before any event is dispatched.
PipelinesIndependent ==
  \A j \in Job, p \in Provider :
    stage[j] = "raised" /\ result[j][p] = "failed" => p \in notified[j]
=============================================================================
