---------------------------- MODULE ForecastReads ----------------------------
(***************************************************************************)
(* The API's readers of forecast_runs and forecast_frames, beside the      *)
(* executions of ForecastIngestion that write them: GET                    *)
(* /api/forecast/frames, GET /api/freshness, GET /health, and the forecast *)
(* and event datasets of GET /api/export.                                  *)
(*                                                                         *)
(* A request reads in several awaits, so executions write between two of   *)
(* its reads.  An export is a single read: it is an operator on the store. *)
(* The frame count of a freshness report is left out.                      *)
(* Forecast hours are in units of the clock here, so that the valid time   *)
(* of hour h of cycle c is c + h.                                          *)
(***************************************************************************)
EXTENDS ForecastIngestion

CONSTANTS
  Reader,         \* clients of the API
  DayLength,      \* clock units in a UTC calendar day
  MaxExportDays,  \* MAX_EXPORT_RANGE_DAYS
  EventDates      \* dates of the curated historical events

ASSUME DaysAssumption == DayLength \in Nat \ {0} /\ MaxExportDays \in Nat \ {0}
ASSUME EventsAssumption == EventDates \subseteq Nat

\* What a request may be scoped to: a provider, the normalized model name of
\* ECMWF, or nothing.  The model name of GFS is its provider's.
Scope == Provider \cup {"ifs", "all"}

Kind == {"frames", "freshness", "health"}

VARIABLES
  kind,     \* per reader, the endpoint asked last
  scope,    \* the filter of the request
  phase,    \* what the request does next, or how it ended
  now,      \* the time a health check took before it read
  page,     \* the frames it listed, with their copies
  found,    \* the latest runs it found
  unmended, \* history: per provider, the failed runs since which none was stored
  known     \* history: those of the request's providers that were unmended when
            \* it was made and are still

request == <<kind, scope, phase, now, page, found>>
readers == <<request, unmended, known>>

Phase == {"idle", "list", "latest", "gfs", "ecmwf", "stations",
          "answered", "blank", "error"}

Found == [provider : Provider, run : Run]

NoFrames == [p \in Provider |-> [c \in Time |-> [h \in Hours |-> 0]]]

\* Every variable keeps its type, and a request finds at most one run of each
\* provider it may speak of.
ReadsTypeOK ==
  /\ TypeOK
  /\ kind \in [Reader -> Kind]
  /\ scope \in [Reader -> Scope]
  /\ phase \in [Reader -> Phase]
  /\ now \in [Reader -> Time]
  /\ page \in [Reader -> [Provider -> [Time -> [Hours -> Nat]]]]
  /\ found \in [Reader -> SUBSET Found]
  /\ unmended \in [Provider -> SUBSET Run]
  /\ known \in [Reader -> [Provider -> SUBSET Run]]
  /\ \A r \in Reader : \A x, y \in found[r] : x.provider = y.provider => x = y

ReadsInit ==
  /\ Init
  /\ kind = [r \in Reader |-> "frames"]
  /\ scope = [r \in Reader |-> "all"]
  /\ phase = [r \in Reader |-> "idle"]
  /\ now = [r \in Reader |-> 0]
  /\ page = [r \in Reader |-> NoFrames]
  /\ found = [r \in Reader |-> {}]
  /\ unmended = [p \in Provider |-> {}]
  /\ known = [r \in Reader |-> [p \in Provider |-> {}]]

-----------------------------------------------------------------------------
(* What the queries select. *)

InScope(s, p) == s \in {p, "all"} \/ (s = "ifs" /\ p = "ecmwf")

\* A failed run is stored under its provider's name as model: the filter by the
\* model name of ECMWF selects its stored runs only.
RunsIn(s) ==
  {x \in Found : /\ x.run \in runs[x.provider]
                 /\ InScope(s, x.provider)
                 /\ s = "ifs" => x.run.status = "stored"}

MutLatestRuns(s) == RunsIn(s)

\* find_one sorted by descending run_time; ties are broken arbitrarily.
LatestRuns(s) == {x \in RunsIn(s) : \A y \in RunsIn(s) : ~Newer(y.run, x.run)}

\* list_frames: both bounds on the valid time are inclusive.
FramesBetween(s, from, to) ==
  [p \in Provider |-> [c \in Time |-> [h \in Hours |->
     IF InScope(s, p) /\ from <= c + h /\ c + h <= to THEN frames[p][c][h] ELSE 0]]]

\* The last valid time a stored frame may have.
Horizon == CHOOSE t \in {c + h : c \in Time, h \in Hours} :
             \A c \in Time, h \in Hours : c + h <= t

-----------------------------------------------------------------------------
(* The requests. *)

MutTurn(r, to) ==
  phase' = [phase EXCEPT ![r] =
              CASE to = "list" -> "latest"
                [] kind[r] = "frames" /\ phase[r] = "latest" /\ to = "answered" -> "list"
                [] phase[r] = "list" /\ to = "latest" -> "answered"
                [] OTHER -> to]

Turn(r, to) == phase' = [phase EXCEPT ![r] = to]

FirstPhase == [frames |-> "list", freshness |-> "latest", health |-> "gfs"]

\* The failures of p, for a request that speaks of p and p alone at a time.
FailuresNow(k, s, p) == IF k = "health" \/ s = p THEN unmended[p] ELSE {}

\* A request arrives.  A health check speaks of every pipeline, and fixes the time
\* its ages refer to before it reads.
Ask(r, k, s) ==
  /\ phase[r] \in {"idle", "answered", "blank", "error"}
  /\ k = "health" => s = "all"
  /\ kind' = [kind EXCEPT ![r] = k]
  /\ scope' = [scope EXCEPT ![r] = s]
  /\ Turn(r, FirstPhase[k])
  /\ now' = [now EXCEPT ![r] = IF k = "health" THEN clock ELSE 0]
  /\ known' = [known EXCEPT ![r] = [p \in Provider |-> FailuresNow(k, s, p)]]
  /\ page' = [page EXCEPT ![r] = NoFrames]
  /\ found' = [found EXCEPT ![r] = {}]

\* list_forecast_frames lists the frames before it reads the freshness summary.
ListFrames(r) ==
  /\ phase[r] = "list"
  /\ page' = [page EXCEPT ![r] = FramesBetween(scope[r], 0, Horizon)]
  /\ Turn(r, "latest")
  /\ UNCHANGED <<kind, scope, now, known, found>>

\* freshness_summary finds the latest run of the scope, or none.
FindLatest(r) ==
  /\ phase[r] = "latest"
  /\ \/ LatestRuns(scope[r]) = {} /\ UNCHANGED found
     \/ \E x \in LatestRuns(scope[r]) : found' = [found EXCEPT ![r] = {x}]
  /\ Turn(r, "answered")
  /\ UNCHANGED <<kind, scope, now, known, page>>

\* compute_data_quality reads the providers one after the other.
CheckProvider(r, p) ==
  /\ phase[r] = p
  /\ \/ LatestRuns(p) = {} /\ UNCHANGED found
     \/ \E x \in LatestRuns(p) : found' = [found EXCEPT ![r] = @ \cup {x}]
  /\ Turn(r, IF p = "gfs" THEN "ecmwf" ELSE "stations")
  /\ UNCHANGED <<kind, scope, now, known, page>>

\* What was read before an error reaches nobody.
Discard(r) ==
  /\ now' = [now EXCEPT ![r] = 0]
  /\ known' = [known EXCEPT ![r] = [p \in Provider |-> {}]]
  /\ page' = [page EXCEPT ![r] = NoFrames]
  /\ found' = [found EXCEPT ![r] = {}]

\* The stations come last.  A stored observation cannot be decoded, and the block
\* of all three pipelines is then left out of an answer that still says ok.
CheckStations(r) ==
  /\ phase[r] = "stations"
  /\ \/ ~observations /\ Turn(r, "answered") /\ UNCHANGED <<now, known, page, found>>
     \/ observations /\ Turn(r, "blank") /\ Discard(r)
  /\ UNCHANGED <<kind, scope>>

\* A database error: the health check answers without the block.
ReadFails(r) ==
  /\ phase[r] \in {"list", "latest", "gfs", "ecmwf", "stations"}
  /\ Turn(r, IF kind[r] = "health" THEN "blank" ELSE "error")
  /\ Discard(r)
  /\ UNCHANGED <<kind, scope>>

\* What a step of an execution makes of the history of failures: RecordRun of a
\* provider ends that of the provider, RecordFailure adds to it.
Remember ==
  LET mended == {Current(j) : j \in {i \in Job : stage[i] = "ingest" /\ stage'[i] = "delete"}}
      failing == {j \in Job : stage[j] = "ingest" /\ at'[j] # at[j]}
      Failed(j) == [status |-> "failed", time |-> retrieved_at[j]]
  IN
  IF mended \cup failing = {} THEN UNCHANGED <<unmended, known>>
  ELSE /\ unmended' = [p \in Provider |->
              IF p \in mended THEN {}
              ELSE unmended[p] \cup {Failed(j) : j \in {i \in failing : Current(i) = p}}]
       /\ known' = [r \in Reader |-> [p \in Provider |->
              IF p \in mended THEN {} ELSE known[r][p]]]

Read ==
  \E r \in Reader :
    \/ \E k \in Kind, s \in Scope : Ask(r, k, s)
    \/ ListFrames(r)
    \/ FindLatest(r)
    \/ \E p \in Provider : CheckProvider(r, p)
    \/ CheckStations(r)
    \/ ReadFails(r)

ReadsNext ==
  \/ Next /\ Remember /\ UNCHANGED request
  \/ Read /\ UNCHANGED <<vars, unmended>>

ReadsSpec == ReadsInit /\ [][ReadsNext]_<<vars, readers>>

-----------------------------------------------------------------------------
(* The answers. *)

\* The freshness block of frames and freshness requests: a run was fresh when it
\* was stored, as the discovery window is its threshold, and is not aged again.
BlockStatus(r) ==
  IF \E x \in found[r] : x.run.status = "stored" THEN "fresh" ELSE "failed"

\* _classify_forecast_source for a health check; a run later than the time it took
\* has age zero.
QualityOf(r, p) ==
  LET stored == {x \in found[r] : x.provider = p /\ x.run.status = "stored"}
  IN  CASE stored = {} -> "failed"
        [] \E x \in stored : now[r] >= x.run.time + MaxAge[p] -> "stale"
        [] OTHER -> "fresh"

Breach(r) == {p \in Provider : QualityOf(r, p) \in {"stale", "failed"}}

\* validate_export_range.
Accepted(start, end) == start <= end /\ end - start + 1 <= MaxExportDays

MutExportedFrames(start, end) ==
  FramesBetween("all", start * DayLength, (end + 1) * DayLength)

\* The range is half-open and the query inclusive: the export asks for frames up to
\* a microsecond before its end.  Valid times are whole units of the clock.
ExportedFrames(start, end) ==
  FramesBetween("all", start * DayLength, (end + 1) * DayLength - 1)

\* filter_events.
ExportedEvents(start, end) == {d \in EventDates : start <= d /\ d <= end}

-----------------------------------------------------------------------------
(* Properties. *)

\* The freshness block of a frames request is never behind its frames: whatever is
\* stored between the two reads, the run it names is at least as new as every
\* listed frame's, and there is one.  A client never shows a cycle as older, or
\* as absent, than the frames it draws.
BlockNotBehindFrames ==
  \A r \in Reader : kind[r] = "frames" /\ phase[r] = "answered" =>
    \A p \in Provider, c \in Time, h \in Hours :
      page[r][p][c][h] > 0 => \E x \in found[r] : x.run.time >= c

\* Does the answer to r clear pipeline p?
Clears(r, p) ==
  IF kind[r] = "health" THEN p \notin Breach(r)
                        ELSE scope[r] = p /\ BlockStatus(r) = "fresh"

\* A failure surfaces: an answer clears a pipeline after a failed run only if a run
\* was stored since the failure or a cycle later than it is, and a health check
\* clears it only if a stored cycle was within the threshold when it was asked.
\* (Whether a run stored since does clear it is another matter: it does not before
\* a later cycle, see RerunIsMasked of ForecastIngestionProofs.)
FailureSurfaces ==
  \A r \in Reader, p \in Provider : phase[r] = "answered" /\ Clears(r, p) =>
    /\ \A f \in known[r][p] : \E c \in Time : c > f.time /\ Stored(p, c)
    /\ kind[r] = "health" => \E c \in Time : Stored(p, c) /\ now[r] < c + MaxAge[p]

\* Exports of consecutive dates tile the data: a range of dates exports exactly the
\* frames valid, and the events, on one of its dates, so that a client that needs
\* more than the maximum span asks range by range and gets each frame once.
ExportsTile ==
  \A start, end \in 0 .. Horizon \div DayLength : Accepted(start, end) =>
    /\ \A p \in Provider, c \in Time, h \in Hours :
         ExportedFrames(start, end)[p][c][h] =
           IF (c + h) \div DayLength \in start .. end THEN frames[p][c][h] ELSE 0
    /\ ExportedEvents(start, end) = EventDates \cap (start .. end)
=============================================================================
