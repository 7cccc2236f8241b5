----------------------------- MODULE CurrentRisk -----------------------------
(***************************************************************************)
(* GET /api/risk/current (app/api/risk.py) over the forecast store that    *)
(* the scheduled job fills and the station readings get_water_levels       *)
(* serves, and beside it the level the job itself computes for its alerts  *)
(* (forecast_cli._evaluate_and_dispatch_alert).                            *)
(*                                                                         *)
(* One request is modelled: requests write nothing another one reads here. *)
(* It awaits the run document and the frames of each provider in turn, the *)
(* stations and then their thresholds, and the store and the clock move in *)
(* between.  The store is a ForecastStore.                                 *)
(***************************************************************************)
EXTENDS RiskRules, ForecastStore, Sequences

CONSTANTS
  Providers,  \* ENSEMBLE_PROVIDERS, in display order
  Heights,    \* water levels of a reading
  ServedAge,  \* thaiwater_max_age_hours
  RidLevels,  \* the documents data/station_thresholds.json may hold of a station
  NoThreshold, \* no threshold document of a station
  NoAnswer,   \* no request answered yet
  MaxWrites   \* bound on the writes of the job

Station == DOMAIN Gauge

ASSUME ProvidersAssumption ==
  /\ Providers \in Seq(Provider)
  /\ Provider = {Providers[i] : i \in DOMAIN Providers}
  /\ \A i, j \in DOMAIN Providers : Providers[i] = Providers[j] => i = j
ASSUME ContentsAssumption ==
  \A content \in Contents : IsFiniteSet(content) /\ \A c \in content :
    /\ c = [lead |-> c.lead, window |-> c.window, rain |-> c.rain]
    /\ c.lead \in Nat /\ c.window \in Window
    /\ c.rain \in [DOMAIN c.rain -> Nat] /\ IsFiniteSet(DOMAIN c.rain)
ASSUME BoundsAssumption ==
  Heights \subseteq Nat /\ ServedAge \in Nat /\ MaxWrites \in Nat
ASSUME RidAssumption ==
  RidLevels \subseteq [watch : Nat, warning : Nat, danger : Nat]
ASSUME NoThresholdAssumption == NoThreshold \notin RidLevels

VARIABLES
  writes,       \* writes of the job so far
  thresholds,   \* station_thresholds: the document of each station, or NoThreshold
  step,         \* 0, or the position of the provider to read, then two steps more
  generatedAt,  \* generated_at of the request
  latest_run,   \* the run document the request has just found, or NoRun
  read,         \* frames_by_provider of the request
  served,       \* the readings of the request, while their thresholds are awaited
  answer        \* the answer of the last request, with the inputs it was computed from

store == <<frames, latest, writes>>
request == <<step, generatedAt, latest_run, read, served, answer>>
vars == <<clock, store, thresholds, request>>

Frames ==
  UNION {{Frame(p, run, c) : c \in UNION Contents} : p \in Provider, run \in Time}

------------------------------------------------------------------------------
(* The store. *)

\* Any step of an ingestion.
Store(p, run, content) ==
  /\ writes < MaxWrites
  /\ StoreRun(p, run, content)
  /\ writes' = writes + 1
  /\ UNCHANGED <<thresholds, request>>

Fail(p, began) ==
  /\ writes < MaxWrites
  /\ FailRun(p, began)
  /\ writes' = writes + 1
  /\ UNCHANGED <<thresholds, request>>

Tick ==
  /\ Advance
  /\ UNCHANGED <<writes, thresholds, request>>

\* seed_station_thresholds, one document of it: at the start of an API process, and
\* with other levels when the fixture has changed.
Seed(s, levels) ==
  /\ thresholds' = [thresholds EXCEPT ![s] = levels]
  /\ UNCHANGED <<clock, store, request>>

\* The stored frames of a run document; a failed run has none.
FramesOf(p, run) ==
  IF run = NoRun \/ run.failed
  THEN {}
  ELSE {f \in frames : f.provider = p /\ f.run = run.time}

\* What get_latest_frames_per_provider returns for one provider when nothing moves.
LatestFrames(p) == FramesOf(p, latest[p])

------------------------------------------------------------------------------
(* The request. *)

Begin ==
  /\ step = 0
  /\ step' = 1
  /\ generatedAt' = clock
  /\ answer' = NoAnswer
  /\ UNCHANGED <<clock, store, thresholds, latest_run, read, served>>

\* find_one: without a run the provider has no frames and the next one is read.
FindRun ==
  /\ step \in DOMAIN Providers
  /\ latest_run = NoRun
  /\ latest_run' = latest[Providers[step]]
  /\ step' = IF latest_run' = NoRun THEN step + 1 ELSE step
  /\ UNCHANGED <<clock, store, thresholds, generatedAt, read, served, answer>>

\* find: the frames now stored of the run found before.
ReadFrames ==
  /\ step \in DOMAIN Providers
  /\ latest_run # NoRun
  /\ read' = [read EXCEPT ![Providers[step]] = FramesOf(Providers[step], latest_run)]
  /\ latest_run' = NoRun
  /\ step' = step + 1
  /\ UNCHANGED <<clock, store, thresholds, generatedAt, served, answer>>

\* What get_water_levels may serve: at most one reading of each station, no older
\* than its limit at the moment it looks, which is past generated_at.  ThaiWater may
\* date a reading in the future.
Served ==
  LET Fresh == {at \in Time : generatedAt - at <= ServedAge}
      Levels == UNION {[S -> [height : Heights, at : Fresh]] : S \in SUBSET Station}
  IN  {{[station |-> s, height |-> r[s].height, at |-> r[s].at] : s \in DOMAIN r} :
         r \in Levels}

ReadStations(stations) ==
  /\ step = Len(Providers) + 1
  /\ stations \in Served
  /\ served' = stations
  /\ step' = step + 1
  /\ UNCHANGED <<clock, store, thresholds, generatedAt, latest_run, read, answer>>

\* The next request starts with nothing read.
Done ==
  /\ step' = 0
  /\ latest_run' = NoRun
  /\ read' = [p \in Provider |-> {}]
  /\ served' = {}
  /\ UNCHANGED <<clock, store, thresholds, generatedAt>>

\* classify_threshold: the highest level reached, read from the top.
ClassifyThreshold(height, levels) ==
  IF height >= levels.danger THEN "danger"
  ELSE IF height >= levels.warning THEN "warning"
  ELSE IF height >= levels.watch THEN "watch"
  ELSE "none"

\* _THRESHOLD_RISK
ThresholdRisk == [danger |-> Red, warning |-> Orange, watch |-> Yellow, none |-> Green]

\* build_water_level_contributions, for one reading: without a document of its
\* station it is shown green, whatever its height.
Contribution(s, levels) ==
  LET applied == IF levels = NoThreshold THEN "none" ELSE ClassifyThreshold(s.height, levels)
  IN  [station |-> s.station, height |-> s.height, threshold |-> levels,
       level |-> ThresholdRisk[applied]]

\* The thresholds are read of the stations found, and the response is complete.
Answer ==
  /\ step = Len(Providers) + 2
  /\ answer' = [read |-> read, stations |-> served, at |-> generatedAt,
                result |-> CombineEnsembleRisk(read, served, generatedAt),
                contributions |-> {Contribution(s, thresholds[s.station]) : s \in served},
                degraded |-> served = {}]
  /\ Done

\* Nothing catches a database error of the handler, and its process may end: the
\* client gets no answer, not even when only the thresholds were missing.
RequestFails ==
  /\ step # 0
  /\ Done
  /\ UNCHANGED answer

MutAlertRisk ==
  CalculateCurrentRisk(
    RainfallInputs({f \in frames : \A g \in frames : g.run <= f.run}), {}, clock)

\* What the alert phase of the job would compute now: every stored frame, the
\* latest run or not, and no station.
AlertRisk == CalculateCurrentRisk(RainfallInputs(frames), {}, clock)

------------------------------------------------------------------------------
Init ==
  /\ StoreInit
  /\ writes = 0
  /\ thresholds = [s \in Station |-> NoThreshold]
  /\ step = 0
  /\ generatedAt = 0
  /\ latest_run = NoRun
  /\ read = [p \in Provider |-> {}]
  /\ served = {}
  /\ answer = NoAnswer

Next ==
  \/ \E p \in Provider, run \in Cycle, content \in Contents : Store(p, run, content)
  \/ \E p \in Provider, began \in Time : Fail(p, began)
  \/ \E s \in Station, levels \in RidLevels : Seed(s, levels)
  \/ Tick
  \/ Begin
  \/ FindRun
  \/ ReadFrames
  \/ \E stations \in Served : ReadStations(stations)
  \/ Answer
  \/ RequestFails

Spec == Init /\ [][Next]_vars

------------------------------------------------------------------------------
(* Properties. *)

Reading == [station : Station, height : Heights, at : Time]

Answers ==
  [read : [Provider -> SUBSET Frames],
   stations : SUBSET Reading,
   at : Time,
   contributions : SUBSET [station : Station, height : Heights,
                           threshold : RidLevels \cup {NoThreshold}, level : Level],
   degraded : BOOLEAN,
   result : [risk : [level : Level, computed : Level \cup {NotComputed},
                     availability : {"available", "degraded", "unavailable"},
                     freshness : FreshnessStatus,
                     uncertainty : {"low", "medium", "high"}],
             providers : [Provider -> [level : Level, freshness : FreshnessStatus]],
             singleProvider : BOOLEAN]]

\* Every variable keeps its type; in particular the engine always produces a
\* complete response.
TypeOK ==
  /\ clock \in Time
  /\ frames \subseteq Frames
  /\ latest \in [Provider -> RunDocument \cup {NoRun}]
  /\ writes \in 0 .. MaxWrites
  /\ thresholds \in [Station -> RidLevels \cup {NoThreshold}]
  /\ step \in 0 .. Len(Providers) + 2
  /\ generatedAt \in Time
  /\ latest_run \in RunDocument \cup {NoRun}
  /\ read \in [Provider -> SUBSET Frames]
  /\ served \subseteq Reading
  /\ answer # NoAnswer => answer \in Answers

\* The rain at c in frame f is evidence: of the basin, with thresholds, and from a
\* run that was not stale when the request began.
Evidence(a, f, c) ==
  /\ f \in UNION {a.read[p] : p \in Provider}
  /\ a.at - f.run <= AgingAge
  /\ f.window \in DOMAIN Thresholds
  /\ c \in DOMAIN f.rain \cap Basin

AllRead(a) == UNION {a.read[p] : p \in Provider}

StationEvidence(a) == {s \in a.stations : a.at - s.at <= StationAge}

\* No false all-clear: a green answer has rain evidence, none of it reaches a
\* threshold, and no station with a fresh reading is at its watch level.
GreenIsEarned ==
  answer # NoAnswer /\ answer.result.risk.level = Green =>
    /\ \E f \in AllRead(answer) : \E c \in DOMAIN f.rain : Evidence(answer, f, c)
    /\ \A f \in AllRead(answer) : \A c \in DOMAIN f.rain :
         Evidence(answer, f, c) =>
           /\ f.rain[c] < Thresholds[f.window].yellow
           /\ f.rain[c] < Thresholds[f.window].orange
           /\ f.rain[c] < Thresholds[f.window].red
    /\ \A s \in StationEvidence(answer) :
         100 * s.height < WatchRatio * Gauge[s.station].warning

\* No false alarm: an orange or red answer rests on rain in the basin from a run
\* that is not stale, or on a fresh reading, that reaches its threshold; and an
\* orange or red entry of a station on a reading the engine was given and on a
\* stored threshold it reaches.
WarningIsEarned ==
  answer # NoAnswer =>
    /\ answer.result.risk.level >= Orange =>
         \/ \E f \in AllRead(answer) : \E c \in DOMAIN f.rain :
              /\ Evidence(answer, f, c)
              /\ \/ f.rain[c] >= Thresholds[f.window].red
                 \/ /\ f.rain[c] >= Thresholds[f.window].orange
                    /\ answer.result.risk.level = Orange
         \/ \E s \in StationEvidence(answer) :
              \/ s.height >= Gauge[s.station].critical
              \/ /\ s.height >= Gauge[s.station].warning
                 /\ answer.result.risk.level = Orange
    /\ \A e \in answer.contributions : e.level >= Orange =>
         /\ \E s \in answer.stations : s.station = e.station /\ s.height = e.height
         /\ e.threshold # NoThreshold
         /\ \/ e.height >= e.threshold.danger
            \/ e.height >= e.threshold.warning /\ e.level = Orange

\* No danger is averaged away: rain evidence at the red threshold makes the answer
\* red, whatever the other provider says, and so does a fresh reading at the
\* critical level as long as some recent run covers the basin.  Every reading has
\* its entry, and one at the danger level of its station's threshold is red there.
DangerIsShown ==
  answer # NoAnswer =>
    /\ \A f \in AllRead(answer) : \A c \in DOMAIN f.rain :
         Evidence(answer, f, c) /\ f.rain[c] >= Thresholds[f.window].red
           => answer.result.risk.level = Red
    /\ \A s \in StationEvidence(answer) :
         /\ s.height >= Gauge[s.station].critical
         /\ \E f \in AllRead(answer) :
              answer.at - f.run <= AgingAge /\ DOMAIN f.rain \cap Basin # {}
         => answer.result.risk.level = Red
    /\ \A s \in answer.stations : \E e \in answer.contributions :
         /\ e.station = s.station /\ e.height = s.height
         /\ e.threshold # NoThreshold /\ e.height >= e.threshold.danger => e.level = Red

\* What read_current_risk documents of two providers: the level is the maximum of
\* those that are fresh, one alone sets the warning, none is unavailable.
EnsembleIsMaximum ==
  answer # NoAnswer =>
    LET result == answer.result
        fresh == {p \in Provider : result.providers[p].freshness \in {"fresh", "aging"}}
    IN  /\ result.singleProvider <=> (\E p \in Provider : fresh = {p})
        /\ IF fresh = {}
           THEN result.risk = Unavailable
           ELSE /\ \A p \in fresh : result.providers[p].level <= result.risk.computed
                /\ \E p \in fresh : result.providers[p].level = result.risk.computed

\* Low uncertainty means what it says: enough windows and leads of the basin covered
\* by runs that are not stale, and a station that may raise the level.  The engine
\* and the handler judge their inputs apart; their verdicts must not contradict.
LowUncertaintyIsEarned ==
  answer # NoAnswer /\ answer.result.risk.uncertainty = "low" =>
    /\ StationEvidence(answer) # {} /\ ~ answer.degraded
    /\ Cardinality({<<f.provider, f.window, f.lead>> : f \in {g \in AllRead(answer) :
         answer.at - g.run <= AgingAge /\ DOMAIN g.rain \cap Basin # {}}})
         >= ExpectedCells

\* No missed alert: when the forecasts alone make the public level orange or red,
\* the alert phase computes at least that level.
NoMissedAlert ==
  LET public == CombineEnsembleRisk([p \in Provider |-> LatestFrames(p)], {}, clock)
  IN  public.risk.level >= Orange => AlertRisk.level >= public.risk.level

\* "Risk is derived from the freshly persisted forecast frames only": when every
\* latest run has frames, an alerting level has its rain in one of those runs.
AlertOnFreshFrames ==
  /\ AlertRisk.level >= Orange
  /\ \A p \in Provider : latest[p] # NoRun => LatestFrames(p) # {}
  => \E p \in Provider : \E i \in Scored(RainfallInputs(LatestFrames(p))) :
       ScoreRainfall(i.mm, Thresholds[i.window]) >= AlertRisk.level
==============================================================================
