------------------------------ MODULE RiskRules ------------------------------
(***************************************************************************)
(* The rule engine of app/services/risk_rules.py: rainfall frames and      *)
(* station levels to the public flood risk, for one provider and for the   *)
(* ensemble.  The module has no state; CurrentRisk applies it.             *)
(*                                                                         *)
(* A frame carries its rainfall as a function from the centres of its grid *)
(* cells to millimetres.  Ages and heights are integers in units chosen by *)
(* the instance, ratios are percentages.  Real inputs are never mocks (the *)
(* callers pass is_mock = False), so the mock rules are left out, and so   *)
(* are wording, confidence and the order of the signals.                   *)
(***************************************************************************)
EXTENDS Integers, FiniteSets

CONSTANTS
  Window,        \* the accumulation windows of the stored frames
  Thresholds,    \* rainfall_thresholds: window -> [yellow, orange, red]
  Basin,         \* the cell centres inside the basin polygon
  FreshAge,      \* fresh_run_max_age_hours
  AgingAge,      \* aging_run_max_age_hours
  ExpectedCells, \* expected_forecast_cells
  MinCoverage,   \* minimum_coverage_ratio
  WatchRatio,    \* water_watch_ratio
  StationAge,    \* water_station_max_age_hours
  Gauge          \* per station, warning_level_m and critical_level_m

ASSUME ThresholdsAssumption ==
  /\ DOMAIN Thresholds \subseteq Window
  /\ Thresholds \in [DOMAIN Thresholds -> [yellow : Nat, orange : Nat, red : Nat]]
\* The defaults are 12, 18 and 3 hours; the order of the first two is not enforced.
ASSUME AgeAssumption ==
  /\ FreshAge \in Nat /\ AgingAge \in Nat /\ StationAge \in Nat
  /\ FreshAge <= AgingAge
ASSUME CoverageAssumption ==
  ExpectedCells \in Nat /\ MinCoverage \in 0 .. 100 /\ WatchRatio \in 1 .. 100
ASSUME GaugeAssumption ==
  Gauge \in [DOMAIN Gauge -> [warning : Nat \ {0}, critical : Nat \ {0}]]

\* Levels are their LEVEL_SCORES.
Green == 0
Yellow == 1
Orange == 2
Red == 3
Level == Green .. Red

\* computed_score of a response that could not be computed.
NotComputed == -1

FreshnessStatus == {"fresh", "aging", "stale", "unavailable", "failed"}

Highest(S) == CHOOSE x \in S : \A y \in S : x >= y

------------------------------------------------------------------------------
(* Single signals. *)

MutScoreRainfallExclusive(mm, t) ==
  CASE mm > t.red -> Red
    [] mm <= t.red /\ mm > t.orange -> Orange
    [] mm <= t.red /\ mm <= t.orange /\ mm > t.yellow -> Yellow
    [] OTHER -> Green

\* score_rainfall: the ladder is read from the top, its bounds are inclusive.
ScoreRainfall(mm, t) ==
  IF mm >= t.red THEN Red
  ELSE IF mm >= t.orange THEN Orange
  ELSE IF mm >= t.yellow THEN Yellow
  ELSE Green

\* score_water_level, for a station reading [station, height, at].
ScoreWaterLevel(s) ==
  LET g == Gauge[s.station]
  IN  IF s.height >= g.critical THEN Red
      ELSE IF s.height >= g.warning THEN Orange
      ELSE IF 100 * s.height >= WatchRatio * g.warning THEN Yellow
      ELSE Green

InBasin(f) == DOMAIN f.rain \cap Basin

MutBasinMaxBox(f) == Highest({f.rain[c] : c \in DOMAIN f.rain})

\* _basin_clipped_max: the wettest cell whose centre lies in the basin.
BasinMax(f) == Highest({f.rain[c] : c \in InBasin(f)})

\* build_rainfall_inputs_from_frames: a frame without cells, or with none in the
\* basin, is skipped.  The area_id of an input does not name its run.
RainfallInputs(frames) ==
  {[area |-> <<f.provider, f.window, f.run + f.lead>>,
    mm |-> BasinMax(f), window |-> f.window, run |-> f.run] :
     f \in {g \in frames : InBasin(g) # {}}}

------------------------------------------------------------------------------
(* calculate_current_risk. *)

\* The inputs of a window without thresholds are not scored.
Scored(inputs) == {i \in inputs : i.window \in DOMAIN Thresholds}

\* The stations that may raise the risk.
Reliable(stations, at) == {s \in stations : at - s.at <= StationAge}

Scores(inputs, stations, at) ==
  {ScoreRainfall(i.mm, Thresholds[i.window]) : i \in Scored(inputs)}
    \cup {ScoreWaterLevel(s) : s \in Reliable(stations, at)}

LatestRun(inputs) == Highest({i.run : i \in inputs})

\* _freshness_status, of the latest run among the inputs.
Freshness(run, at) ==
  IF at - run <= FreshAge THEN "fresh"
  ELSE IF at - run <= AgingAge THEN "aging"
  ELSE "stale"

\* forecast_cells_available of _coverage.
Cells(inputs) == Cardinality({i.area : i \in inputs})

\* basin_coverage_ratio < minimum_coverage_ratio
CoverageLow(inputs) == 100 * Cells(inputs) < MinCoverage * ExpectedCells

Availability(inputs, at) ==
  IF Scored(inputs) = {} THEN "unavailable"
  ELSE IF \/ Freshness(LatestRun(inputs), at) = "stale"
          \/ CoverageLow(inputs)
       THEN "degraded"
       ELSE "available"

MutDisplayLevel(computed, availability) ==
  IF availability = "degraded" THEN Yellow ELSE computed

\* _display_score: a degraded answer is never an all-clear.
DisplayLevel(computed, availability) ==
  IF availability = "available" \/ computed > Yellow THEN computed ELSE Yellow

\* The conditions that add an uncertainty reason.
Doubtful(inputs, stations, at) ==
  \/ Scored(inputs) # inputs
  \/ stations # {} /\ Reliable(stations, at) = {}
  \/ CoverageLow(inputs)

MutUncertainty(inputs, stations, at) ==
  CASE Freshness(LatestRun(inputs), at) = "stale" -> "high"
    [] Cells(inputs) < ExpectedCells \/ Doubtful(inputs, stations, at) -> "medium"
    [] OTHER -> "low"

\* _uncertainty; no station at all is doubt enough.
Uncertainty(inputs, stations, at) ==
  IF Freshness(LatestRun(inputs), at) = "stale" THEN "high"
  ELSE IF \/ Cells(inputs) < ExpectedCells
          \/ stations = {}
          \/ Doubtful(inputs, stations, at)
       THEN "medium"
       ELSE "low"

\* _unavailable_response
Unavailable ==
  [level |-> Yellow, computed |-> NotComputed, availability |-> "unavailable",
   freshness |-> "unavailable", uncertainty |-> "high"]

\* calculate_current_risk: no rainfall input at all, or nothing to score, and the
\* response is the unavailable one, whatever the stations say.
CalculateCurrentRisk(inputs, stations, at) ==
  IF inputs = {} \/ Scores(inputs, stations, at) = {}
  THEN Unavailable
  ELSE LET computed == Highest(Scores(inputs, stations, at))
       IN  [level |-> DisplayLevel(computed, Availability(inputs, at)),
            computed |-> computed,
            availability |-> Availability(inputs, at),
            freshness |-> Freshness(LatestRun(inputs), at),
            uncertainty |-> Uncertainty(inputs, stations, at)]

------------------------------------------------------------------------------
(* The ensemble. *)

MutProviderRisk(frames, stations, at) ==
  IF frames = {}
  THEN [level |-> Green, freshness |-> "failed"]
  ELSE LET risk == CalculateCurrentRisk(RainfallInputs(frames), stations, at)
       IN  [level |-> risk.computed, freshness |-> risk.freshness]

\* compute_provider_risk: no frames, and the provider has failed; no computed
\* level counts as green.
ProviderRisk(frames, stations, at) ==
  IF frames = {}
  THEN [level |-> Green, freshness |-> "failed"]
  ELSE LET risk == CalculateCurrentRisk(RainfallInputs(frames), stations, at)
       IN  [level |-> IF risk.computed = NotComputed THEN Green ELSE risk.computed,
            freshness |-> risk.freshness]

\* USABLE_FRESHNESS
Usable(result) == result.freshness \in {"fresh", "aging"}

UsableProviders(framesBy, stations, at) ==
  {p \in DOMAIN framesBy : Usable(ProviderRisk(framesBy[p], stations, at))}

\* combine_ensemble_risk: the frames of the usable providers, scored together.
CombineEnsembleRisk(framesBy, stations, at) ==
  LET usable == UsableProviders(framesBy, stations, at)
  IN  [risk |-> CalculateCurrentRisk(
                  RainfallInputs(UNION {framesBy[p] : p \in usable}), stations, at),
       providers |-> [p \in DOMAIN framesBy |-> ProviderRisk(framesBy[p], stations, at)],
       singleProvider |-> Cardinality(usable) = 1]
==============================================================================
