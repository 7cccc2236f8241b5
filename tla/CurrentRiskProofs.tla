-------------------------- MODULE CurrentRiskProofs --------------------------
(***************************************************************************)
(* Proofs about CurrentRisk: for any providers, thresholds, basin, gauges, *)
(* ages and forecasts, what an answer and the alert phase's level rest on. *)
(***************************************************************************)
EXTENDS CurrentRisk, OrderFacts, FiniteSetTheorems, TLAPS

(* The highest element of a set. *)

\* A non-empty finite set of integers has a highest element: the one with the
\* fewest elements above it.
LEMMA HighestOfFinite ==
  ASSUME NEW S \in SUBSET Int, IsFiniteSet(S), S # {}
  PROVE  Highest(S) \in S /\ \A y \in S : Highest(S) >= y
<1> DEFINE Above(x) == {y \in S : y > x}
           Counts == {Cardinality(Above(x)) : x \in S}
<1>1. ASSUME NEW x \in S
      PROVE  IsFiniteSet(Above(x)) /\ Cardinality(Above(x)) \in Nat
  BY FS_Subset, FS_CardinalityType
<1>2. Counts \in SUBSET Nat /\ Counts # {}
  BY <1>1
<1>3. PICK m \in Counts : \A n \in Counts : m <= n
  <2> HIDE DEF Counts
  <2> QED
    BY <1>2, LeastNat
<1>4. PICK x \in S : Cardinality(Above(x)) = m
  BY <1>3
<1>5. ASSUME NEW y \in S, ~ (x >= y)
      PROVE  FALSE
  <2>0. x \in Int /\ y \in Int /\ y > x
    BY <1>5
  <2>a. \A z \in S : z > y => z > x
    BY <2>0
  <2>b. ~ (y > y)
    BY <2>0
  <2>1. y \in Above(x) /\ y \notin Above(y) /\ Above(y) \subseteq Above(x)
    BY <2>0, <2>a, <2>b, Zenon
  <2>2. /\ Cardinality(Above(y)) <= Cardinality(Above(x))
        /\ Cardinality(Above(x)) = Cardinality(Above(y)) => Above(x) = Above(y)
    <3> HIDE DEF Above
    <3> QED
      BY <1>1, <2>1, FS_Subset
  <2>3. Cardinality(Above(y)) # Cardinality(Above(x))
    BY <2>1, <2>2
  <2>4. Cardinality(Above(y)) \in Counts
    OBVIOUS
  <2>5. Cardinality(Above(y)) \in Nat /\ Cardinality(Above(x)) \in Nat
    BY <1>1
  <2> HIDE DEF Above, Counts
  <2> QED
    BY <2>2, <2>3, <2>4, <2>5, <1>3, <1>4
<1>6. \E z \in S : \A y \in S : z >= y
  BY <1>5
<1> QED
  BY <1>6 DEF Highest

\* The same for a set of levels.
LEMMA HighestLevel ==
  ASSUME NEW S \in SUBSET Level, S # {}
  PROVE  Highest(S) \in S /\ \A y \in S : Highest(S) >= y
<1>1. S \in SUBSET Nat /\ S \in SUBSET Int /\ \A s \in S : s <= 3
  BY DEF Level, Green, Red
<1>2. IsFiniteSet(S)
  BY <1>1, 3 \in Nat, FS_BoundedSetOfNaturals
<1> QED
  BY <1>1, <1>2, HighestOfFinite

-----------------------------------------------------------------------------
(* The rule engine. *)

\* The fields of a stored frame.
LEMMA FrameFields ==
  ASSUME NEW f \in Frames
  PROVE  /\ f.provider \in Provider /\ f.run \in Time /\ f.window \in Window
         /\ f.rain \in [DOMAIN f.rain -> Nat] /\ IsFiniteSet(DOMAIN f.rain)
<1>1. PICK p \in Provider, run \in Time, c \in UNION Contents : f = Frame(p, run, c)
  BY DEF Frames
<1> QED
  BY <1>1, ContentsAssumption DEF Frame

\* _basin_clipped_max is the rain of some cell of the basin, and of the wettest.
LEMMA BasinMaxIsWettest ==
  ASSUME NEW f \in Frames, InBasin(f) # {}
  PROVE  /\ BasinMax(f) \in Nat
         /\ \E c \in InBasin(f) : f.rain[c] = BasinMax(f)
         /\ \A c \in InBasin(f) : f.rain[c] <= BasinMax(f)
<1> DEFINE D == InBasin(f)
           T == {f.rain[c] : c \in D}
           g == [c \in D |-> f.rain[c]]
<1>1. D \subseteq DOMAIN f.rain /\ \A c \in D : f.rain[c] \in Nat
  BY FrameFields DEF InBasin
<1>2. IsFiniteSet(D)
  <2> HIDE DEF D
  <2> QED
    BY <1>1, FrameFields, FS_Subset
<1>3. g \in Surjection(D, T)
  BY DEF Surjection
<1>4. IsFiniteSet(T)
  <2> HIDE DEF D, T, g
  <2> QED
    BY <1>2, <1>3, FS_Surjection
<1>5. T \in SUBSET Int /\ T # {}
  BY <1>1
<1>6. Highest(T) \in T /\ \A y \in T : Highest(T) >= y
  <2> HIDE DEF T
  <2> QED
    BY <1>4, <1>5, HighestOfFinite
<1>7. BasinMax(f) = Highest(T)
  BY DEF BasinMax
<1> QED
  BY <1>1, <1>6, <1>7

\* Every input comes from a frame with cells in the basin, and every such frame
\* is an input.
LEMMA InputsAreFrames ==
  ASSUME NEW F \in SUBSET Frames
  PROVE  /\ \A i \in RainfallInputs(F) :
              /\ i.mm \in Nat /\ i.run \in Time
              /\ \E f \in F : /\ InBasin(f) # {} /\ i.mm = BasinMax(f)
                              /\ i.window = f.window /\ i.run = f.run
         /\ \A f \in F : InBasin(f) # {} =>
              \E i \in RainfallInputs(F) :
                /\ i.mm = BasinMax(f) /\ i.window = f.window /\ i.run = f.run
<1> DEFINE In(f) == [area |-> <<f.provider, f.window, f.run + f.lead>>,
                     mm |-> BasinMax(f), window |-> f.window, run |-> f.run]
<1>1. \A f : /\ In(f).mm = BasinMax(f)
             /\ In(f).window = f.window /\ In(f).run = f.run
  OBVIOUS
<1>2. RainfallInputs(F) = {In(f) : f \in {h \in F : InBasin(h) # {}}}
  BY DEF RainfallInputs
<1>3. \A i \in RainfallInputs(F) : \E f \in F : InBasin(f) # {} /\ i = In(f)
  BY <1>2
<1>4. \A f \in F : InBasin(f) # {} => In(f) \in RainfallInputs(F)
  BY <1>2
<1> HIDE DEF In
<1>5. \A f \in F : f.run \in Time /\ (InBasin(f) # {} => BasinMax(f) \in Nat)
  BY FrameFields, BasinMaxIsWettest
<1> QED
  BY <1>1, <1>3, <1>4, <1>5

\* Every single score is a level.
LEMMA ScoresAreLevels ==
  ASSUME NEW inputs, NEW stations, NEW at
  PROVE  Scores(inputs, stations, at) \in SUBSET Level
<1>1. \A mm, t : ScoreRainfall(mm, t) \in Level
  BY DEF ScoreRainfall, Level, Green, Yellow, Orange, Red
<1>2. \A s : ScoreWaterLevel(s) \in Level
  BY DEF ScoreWaterLevel, Level, Green, Yellow, Orange, Red
<1> QED
  BY <1>1, <1>2 DEF Scores

\* The run that freshness is judged by is the run of an input, and no input has a
\* later one.
LEMMA LatestRunIsLatest ==
  ASSUME NEW F \in SUBSET Frames, RainfallInputs(F) # {}
  PROVE  /\ \E i \in RainfallInputs(F) : i.run = LatestRun(RainfallInputs(F))
         /\ \A i \in RainfallInputs(F) : i.run <= LatestRun(RainfallInputs(F))
         /\ LatestRun(RainfallInputs(F)) \in Time
<1> DEFINE I == RainfallInputs(F)
           R == {i.run : i \in I}
<1>1. \A i \in I : i.run \in 0 .. MaxClock
  BY InputsAreFrames DEF Time
<1>2. R \in SUBSET Nat /\ R \in SUBSET Int /\ R # {} /\ \A r \in R : r <= MaxClock
  <2> HIDE DEF I
  <2> QED
    BY <1>1, RainfallInputs(F) # {}, ClockAssumption DEF I
<1>3. IsFiniteSet(R)
  <2> HIDE DEF R
  <2> QED
    BY <1>2, ClockAssumption, FS_BoundedSetOfNaturals
<1>4. Highest(R) \in R /\ \A y \in R : Highest(R) >= y
  <2> HIDE DEF R
  <2> QED
    BY <1>2, <1>3, HighestOfFinite
<1>5. LatestRun(I) = Highest(R)
  BY DEF LatestRun
<1> QED
  BY <1>1, <1>2, <1>4, <1>5 DEF Time

\* What calculate_current_risk answers.
LEMMA RiskOfInputs ==
  ASSUME NEW F \in SUBSET Frames, NEW stations \in SUBSET Reading, NEW at \in Time,
         NEW inputs, inputs = RainfallInputs(F),
         NEW risk, risk = CalculateCurrentRisk(inputs, stations, at)
  PROVE  /\ inputs = {} \/ Scores(inputs, stations, at) = {} => risk = Unavailable
         /\ inputs # {} /\ Scores(inputs, stations, at) # {} =>
              /\ risk.computed \in Scores(inputs, stations, at)
              /\ \A score \in Scores(inputs, stations, at) : risk.computed >= score
              /\ risk.level \in Level /\ risk.level >= risk.computed
              /\ risk.level >= Orange => risk.level = risk.computed
              /\ risk.level = Green => Scored(inputs) # {} /\ risk.freshness # "stale"
              /\ risk.freshness = Freshness(LatestRun(inputs), at)
              /\ risk.computed \in Level
              /\ risk = [level |-> risk.level, computed |-> risk.computed,
                         availability |-> risk.availability,
                         freshness |-> risk.freshness,
                         uncertainty |-> risk.uncertainty]
              /\ risk.availability \in {"available", "degraded", "unavailable"}
              /\ risk.uncertainty \in {"low", "medium", "high"}
<1> DEFINE S == Scores(inputs, stations, at)
           computed == Highest(S)
<1>1. CASE inputs = {} \/ S = {}
  BY <1>1 DEF CalculateCurrentRisk
<1>2. CASE inputs # {} /\ S # {}
  <2>1. computed \in S /\ (\A y \in S : computed >= y) /\ computed \in Level
    BY <1>2, ScoresAreLevels, HighestLevel
  <2>2. risk = [level |-> DisplayLevel(computed, Availability(inputs, at)),
                computed |-> computed,
                availability |-> Availability(inputs, at),
                freshness |-> Freshness(LatestRun(inputs), at),
                uncertainty |-> Uncertainty(inputs, stations, at)]
    BY <1>2 DEF CalculateCurrentRisk
  <2>3. /\ Availability(inputs, at) \in {"available", "degraded", "unavailable"}
        /\ Uncertainty(inputs, stations, at) \in {"low", "medium", "high"}
        /\ Availability(inputs, at) = "available" =>
             Scored(inputs) # {} /\ Freshness(LatestRun(inputs), at) # "stale"
    BY DEF Availability, Uncertainty
  <2> HIDE DEF S, computed
  <2>4. /\ DisplayLevel(computed, Availability(inputs, at)) \in Level
        /\ DisplayLevel(computed, Availability(inputs, at)) >= computed
        /\ DisplayLevel(computed, Availability(inputs, at)) >= Orange =>
             DisplayLevel(computed, Availability(inputs, at)) = computed
        /\ DisplayLevel(computed, Availability(inputs, at)) = Green =>
             Availability(inputs, at) = "available"
    BY <2>1 DEF DisplayLevel, Level, Green, Yellow, Orange, Red
  <2>5. S = Scores(inputs, stations, at)
    BY DEF S
  <2> QED
    BY <1>2, <2>1, <2>2, <2>3, <2>4, <2>5
<1> QED
  BY <1>1, <1>2

\* A frame of the basin in a scored window contributes its score.
LEMMA ScoreOfFrame ==
  ASSUME NEW F \in SUBSET Frames, NEW f \in F, InBasin(f) # {},
         NEW stations, NEW at
  PROVE  /\ RainfallInputs(F) # {}
         /\ f.window \in DOMAIN Thresholds =>
              /\ ScoreRainfall(BasinMax(f), Thresholds[f.window])
                   \in Scores(RainfallInputs(F), stations, at)
              /\ Scored(RainfallInputs(F)) # {}
<1>1. PICK i \in RainfallInputs(F) : i.mm = BasinMax(f) /\ i.window = f.window
  BY InputsAreFrames
<1> QED
  BY <1>1 DEF Scores, Scored

\* A station with a fresh reading contributes its score.
LEMMA ScoreOfStation ==
  ASSUME NEW inputs, NEW stations, NEW at, NEW s \in Reliable(stations, at)
  PROVE  ScoreWaterLevel(s) \in Scores(inputs, stations, at)
BY DEF Scores

\* Every score comes from such a frame or such a station.
LEMMA OriginOfScore ==
  ASSUME NEW F \in SUBSET Frames, NEW stations, NEW at,
         NEW x \in Scores(RainfallInputs(F), stations, at)
  PROVE  \/ \E f \in F : /\ InBasin(f) # {} /\ f.window \in DOMAIN Thresholds
                         /\ x = ScoreRainfall(BasinMax(f), Thresholds[f.window])
         \/ \E s \in Reliable(stations, at) : x = ScoreWaterLevel(s)
<1>1. \/ \E i \in Scored(RainfallInputs(F)) : x = ScoreRainfall(i.mm, Thresholds[i.window])
      \/ \E s \in Reliable(stations, at) : x = ScoreWaterLevel(s)
  BY DEF Scores
<1>2. CASE \E i \in Scored(RainfallInputs(F)) : x = ScoreRainfall(i.mm, Thresholds[i.window])
  <2>1. PICK i \in Scored(RainfallInputs(F)) : x = ScoreRainfall(i.mm, Thresholds[i.window])
    BY <1>2
  <2>2. i \in RainfallInputs(F) /\ i.window \in DOMAIN Thresholds
    BY DEF Scored
  <2> QED
    BY <2>1, <2>2, InputsAreFrames
<1> QED
  BY <1>1, <1>2

-----------------------------------------------------------------------------
(* The ensemble. *)

SingleRun(F) == \A f, g \in F : f.run = g.run

\* A provider whose frames are of one run is usable exactly when that run is not
\* stale and something of it can be scored; its level is then its highest score.
LEMMA ProviderUsable ==
  ASSUME NEW F \in SUBSET Frames, SingleRun(F),
         NEW stations \in SUBSET Reading, NEW at \in Time,
         NEW r, r = ProviderRisk(F, stations, at)
  PROVE  /\ r \in [level : Level, freshness : FreshnessStatus]
         /\ Usable(r) =>
              /\ \A f \in F : at - f.run <= AgingAge
              /\ r.level \in Scores(RainfallInputs(F), stations, at)
              /\ \A x \in Scores(RainfallInputs(F), stations, at) : r.level >= x
              /\ RainfallInputs(F) # {}
         /\ \A f \in F :
              /\ InBasin(f) # {} /\ at - f.run <= AgingAge
              /\ Scores(RainfallInputs(F), stations, at) # {}
              => Usable(r)
<1> DEFINE I == RainfallInputs(F)
           S == Scores(I, stations, at)
           risk == CalculateCurrentRisk(I, stations, at)
<1>1. CASE F = {}
  BY <1>1 DEF ProviderRisk, Usable, Level, Green, Red, FreshnessStatus
<1>2. CASE F # {}
  <2>1. r = [level |-> IF risk.computed = NotComputed THEN Green ELSE risk.computed,
             freshness |-> risk.freshness]
    BY <1>2 DEF ProviderRisk
  <2>2. CASE I = {} \/ S = {}
    <3>1. risk = Unavailable
      BY <2>2, RiskOfInputs
    <3>2. r = [level |-> Green, freshness |-> "unavailable"]
      BY <2>1, <3>1 DEF Unavailable
    <3>3. \A f \in F : InBasin(f) # {} => I # {}
      BY ScoreOfFrame
    <3> QED
      BY <2>2, <3>2, <3>3 DEF Usable, Level, Green, Red, FreshnessStatus
  <2>3. CASE I # {} /\ S # {}
    <3>1. /\ risk.computed \in S /\ risk.computed \in Level
          /\ \A x \in S : risk.computed >= x
          /\ risk.freshness = Freshness(LatestRun(I), at)
      BY <2>3, RiskOfInputs
    <3>2. r = [level |-> risk.computed, freshness |-> Freshness(LatestRun(I), at)]
      BY <2>1, <3>1 DEF NotComputed, Level, Green, Red
    <3>3. \A f \in F : f.run = LatestRun(I)
      BY <2>3, LatestRunIsLatest, InputsAreFrames DEF SingleRun
    <3>4. LatestRun(I) \in Int /\ at \in Int /\ AgingAge \in Nat /\ FreshAge \in Nat
      BY <2>3, LatestRunIsLatest, AgeAssumption, ClockAssumption DEF Time
    <3> HIDE DEF I, S, risk
    <3>5. /\ Freshness(LatestRun(I), at) \in FreshnessStatus
          /\ Usable(r) <=> at - LatestRun(I) <= AgingAge
      BY <3>2, <3>4, AgeAssumption DEF Freshness, FreshnessStatus, Usable
    <3>6. CASE at - LatestRun(I) <= AgingAge
      BY <2>3, <3>1, <3>2, <3>3, <3>5, <3>6 DEF I, S
    <3>7. CASE ~ (at - LatestRun(I) <= AgingAge)
      BY <2>3, <3>1, <3>2, <3>3, <3>5, <3>7 DEF I, S
    <3> QED
      BY <3>6, <3>7
  <2> QED
    BY <2>2, <2>3
<1> QED
  BY <1>1, <1>2

\* The rain at c in f counts: it is one of the cells of f in the basin.
LEMMA RainCounts ==
  ASSUME NEW f \in Frames, NEW c \in DOMAIN f.rain \cap Basin
  PROVE  InBasin(f) # {} /\ f.rain[c] \in Nat /\ f.rain[c] <= BasinMax(f)
<1>1. c \in InBasin(f)
  BY DEF InBasin
<1> QED
  BY <1>1, BasinMaxIsWettest, FrameFields

\* Where the ladder of the rainfall score stands.
LEMMA RainfallLadder ==
  ASSUME NEW w \in DOMAIN Thresholds, NEW mm \in Nat
  PROVE  LET score == ScoreRainfall(mm, Thresholds[w])
         IN  /\ score \in Level
             /\ score = Red <=> mm >= Thresholds[w].red
             /\ score = Orange => mm >= Thresholds[w].orange
             /\ score = Green <=> /\ mm < Thresholds[w].yellow
                                  /\ mm < Thresholds[w].orange
                                  /\ mm < Thresholds[w].red
<1>1. /\ Thresholds[w].yellow \in Nat /\ Thresholds[w].orange \in Nat
      /\ Thresholds[w].red \in Nat
  BY ThresholdsAssumption
<1> QED
  BY <1>1 DEF ScoreRainfall, Level, Green, Yellow, Orange, Red

\* The ladder of a station.
LEMMA WaterLadder ==
  ASSUME NEW s \in Reading
  PROVE  LET score == ScoreWaterLevel(s)
         IN  /\ score \in Level
             /\ score = Red <=> s.height >= Gauge[s.station].critical
             /\ score = Orange => s.height >= Gauge[s.station].warning
             /\ score = Green => 100 * s.height < WatchRatio * Gauge[s.station].warning
<1>1. /\ s.height \in Nat /\ Gauge[s.station].warning \in Nat
      /\ Gauge[s.station].critical \in Nat /\ WatchRatio \in Int
  BY GaugeAssumption, BoundsAssumption, CoverageAssumption DEF Reading, Station
<1> DEFINE limit == WatchRatio * Gauge[s.station].warning
<1>2. limit \in Int /\ 100 * s.height \in Int
  BY <1>1
<1>3. ScoreWaterLevel(s) = IF s.height >= Gauge[s.station].critical THEN Red
      ELSE IF s.height >= Gauge[s.station].warning THEN Orange
      ELSE IF 100 * s.height >= limit THEN Yellow
      ELSE Green
  BY DEF ScoreWaterLevel
<1>4. Red = 3 /\ Orange = 2 /\ Yellow = 1 /\ Green = 0 /\ Level = 0 .. 3
  BY DEF Level, Green, Yellow, Orange, Red
<1> HIDE DEF limit
<1>5. /\ ScoreWaterLevel(s) \in Level
      /\ ScoreWaterLevel(s) = Red <=> s.height >= Gauge[s.station].critical
      /\ ScoreWaterLevel(s) = Orange => s.height >= Gauge[s.station].warning
      /\ ScoreWaterLevel(s) = Green => 100 * s.height < limit
  BY <1>1, <1>2, <1>3, <1>4
<1> QED
  BY <1>5 DEF limit

\* The frames of the usable providers.
UsableFrames(r, stations, at) ==
  UNION {r[p] : p \in UsableProviders(r, stations, at)}

\* They are the frames read of runs that are not stale, at least as far as there
\* is anything to score.
LEMMA UsableFramesAreRecent ==
  ASSUME NEW r \in [Provider -> SUBSET Frames], \A p \in Provider : SingleRun(r[p]),
         NEW stations \in SUBSET Reading, NEW at \in Time
  PROVE  /\ UsableFrames(r, stations, at) \in SUBSET Frames
         /\ UsableFrames(r, stations, at) \subseteq UNION {r[p] : p \in Provider}
         /\ \A f \in UsableFrames(r, stations, at) : at - f.run <= AgingAge
         /\ \A f \in UNION {r[p] : p \in Provider} :
              /\ InBasin(f) # {} /\ at - f.run <= AgingAge
              /\ f.window \in DOMAIN Thresholds \/ Reliable(stations, at) # {}
              => f \in UsableFrames(r, stations, at)
<1>1. DOMAIN r = Provider /\ \A p \in Provider : r[p] \in SUBSET Frames
  OBVIOUS
<1>2. \A p \in UsableProviders(r, stations, at) :
        p \in Provider /\ Usable(ProviderRisk(r[p], stations, at))
  BY DEF UsableProviders
<1>3. ASSUME NEW f \in UNION {r[p] : p \in Provider},
             InBasin(f) # {}, at - f.run <= AgingAge,
             f.window \in DOMAIN Thresholds \/ Reliable(stations, at) # {}
      PROVE  f \in UsableFrames(r, stations, at)
  <2>1. PICK p \in Provider : f \in r[p]
    OBVIOUS
  <2>2. Scores(RainfallInputs(r[p]), stations, at) # {}
    BY <1>1, <1>3, <2>1, ScoreOfFrame, ScoreOfStation
  <2>3. Usable(ProviderRisk(r[p], stations, at))
    <3>1. r[p] \in SUBSET Frames /\ SingleRun(r[p])
      BY <1>1
    <3>2. PICK F : F = r[p]
      OBVIOUS
    <3>3. F \in SUBSET Frames /\ SingleRun(F)
      BY <3>1, <3>2
    <3>4. \A g \in F :
            /\ InBasin(g) # {} /\ at - g.run <= AgingAge
            /\ Scores(RainfallInputs(F), stations, at) # {}
            => Usable(ProviderRisk(F, stations, at))
      BY <3>3, ProviderUsable
    <3> QED
      BY <1>3, <2>1, <2>2, <3>2, <3>4
  <2> QED
    BY <2>1, <2>3 DEF UsableFrames, UsableProviders
<1>4. \A p \in UsableProviders(r, stations, at) : \A f \in r[p] : at - f.run <= AgingAge
  BY <1>1, <1>2, ProviderUsable
<1> QED
  BY <1>1, <1>2, <1>3, <1>4 DEF UsableFrames

-----------------------------------------------------------------------------
(* What an answer rests on.  Computed(a) is all the invariant says of one.   *)

Computed(a) ==
  /\ a \in Answers
  /\ \A p \in Provider : SingleRun(a.read[p])
  /\ a.result = CombineEnsembleRisk(a.read, a.stations, a.at)
  /\ \E levels \in [Station -> RidLevels \cup {NoThreshold}] :
       a.contributions = {Contribution(s, levels[s.station]) : s \in a.stations}
  /\ a.degraded <=> a.stations = {}

\* The fields of an answer.
LEMMA AnswerFields ==
  ASSUME NEW a, Computed(a)
  PROVE  /\ a.read \in [Provider -> SUBSET Frames]
         /\ a.stations \in SUBSET Reading /\ a.at \in Time
         /\ a.result.risk = CalculateCurrentRisk(
              RainfallInputs(UsableFrames(a.read, a.stations, a.at)), a.stations, a.at)
         /\ AllRead(a) \in SUBSET Frames
         /\ StationEvidence(a) = Reliable(a.stations, a.at)
<1>1. a.read \in [Provider -> SUBSET Frames] /\ a.stations \in SUBSET Reading /\ a.at \in Time
  BY DEF Computed, Answers, Reading
<1>2. a.result.risk = CalculateCurrentRisk(
        RainfallInputs(UsableFrames(a.read, a.stations, a.at)), a.stations, a.at)
  BY DEF Computed, CombineEnsembleRisk, UsableFrames
<1> QED
  BY <1>1, <1>2 DEF AllRead, StationEvidence, Reliable

\* The fields of an entry, and what its level says of the reading.
LEMMA EntryOfReading ==
  ASSUME NEW s \in Reading, NEW levels \in RidLevels \cup {NoThreshold}
  PROVE  LET e == Contribution(s, levels)
         IN  /\ e \in [station : Station, height : Heights,
                       threshold : RidLevels \cup {NoThreshold}, level : Level]
             /\ e.station = s.station /\ e.height = s.height /\ e.threshold = levels
             /\ e.level >= Orange =>
                  /\ levels # NoThreshold
                  /\ \/ s.height >= levels.danger
                     \/ s.height >= levels.warning /\ e.level = Orange
             /\ levels # NoThreshold /\ s.height >= levels.danger => e.level = Red
<1>1. s.station \in Station /\ s.height \in Heights
  BY DEF Reading
<1>2. CASE levels = NoThreshold
  <2>1. Contribution(s, levels) = [station |-> s.station, height |-> s.height,
                                   threshold |-> levels, level |-> Green]
    BY <1>2 DEF Contribution, ThresholdRisk
  <2> QED
    BY <1>1, <1>2, <2>1 DEF Level, Green, Orange, Red
<1>3. CASE levels # NoThreshold
  <2> DEFINE applied == ClassifyThreshold(s.height, levels)
  <2>1. Contribution(s, levels) = [station |-> s.station, height |-> s.height,
                                   threshold |-> levels, level |-> ThresholdRisk[applied]]
    BY <1>3 DEF Contribution
  <2>2. CASE s.height >= levels.danger
    <3>1. ThresholdRisk[applied] = Red
      BY <2>2 DEF ClassifyThreshold, ThresholdRisk
    <3> QED
      BY <1>1, <1>3, <2>1, <2>2, <3>1 DEF Level, Green, Orange, Red
  <2>3. CASE ~ (s.height >= levels.danger) /\ s.height >= levels.warning
    <3>1. ThresholdRisk[applied] = Orange
      BY <2>3 DEF ClassifyThreshold, ThresholdRisk
    <3> QED
      BY <1>1, <1>3, <2>1, <2>3, <3>1 DEF Level, Green, Orange, Red
  <2>4. CASE ~ (s.height >= levels.danger) /\ ~ (s.height >= levels.warning)
    <3>1. ThresholdRisk[applied] \in {Yellow, Green}
      BY <2>4 DEF ClassifyThreshold, ThresholdRisk
    <3> QED
      BY <1>1, <1>3, <2>1, <2>4, <3>1 DEF Level, Green, Yellow, Orange, Red
  <2> QED
    BY <2>2, <2>3, <2>4
<1> QED
  BY <1>2, <1>3

\* Rain evidence of an answer is scored, and the level is no lower.
LEMMA EvidenceIsScored ==
  ASSUME NEW a, Computed(a), NEW f \in AllRead(a), NEW c \in DOMAIN f.rain,
         Evidence(a, f, c)
  PROVE  LET score == ScoreRainfall(BasinMax(f), Thresholds[f.window])
         IN  /\ a.result.risk.level \in Level
             /\ a.result.risk.level >= score
             /\ a.result.risk.level >= Orange => a.result.risk.level = a.result.risk.computed
             /\ a.result.risk.computed >= score /\ a.result.risk.computed \in Level
<1> DEFINE U == UsableFrames(a.read, a.stations, a.at)
           I == RainfallInputs(U)
           S == Scores(I, a.stations, a.at)
<1>1. /\ f \in Frames /\ InBasin(f) # {} /\ f.window \in DOMAIN Thresholds
      /\ a.at - f.run <= AgingAge
  BY AnswerFields, RainCounts DEF Evidence
<1>2. f \in U /\ U \in SUBSET Frames
  BY <1>1, AnswerFields, UsableFramesAreRecent DEF AllRead, Computed
<1>3. I # {} /\ ScoreRainfall(BasinMax(f), Thresholds[f.window]) \in S
  <2> HIDE DEF U
  <2> QED
    BY <1>1, <1>2, ScoreOfFrame
<1>4. ScoreRainfall(BasinMax(f), Thresholds[f.window]) \in Level
  BY <1>3, ScoresAreLevels
<1>5. /\ a.result.risk.level \in Level /\ a.result.risk.computed \in Level
      /\ a.result.risk.level >= a.result.risk.computed
      /\ a.result.risk.level >= Orange => a.result.risk.level = a.result.risk.computed
      /\ \A x \in S : a.result.risk.computed >= x
  <2> HIDE DEF U
  <2>1. a.stations \in SUBSET Reading /\ a.at \in Time
        /\ a.result.risk = CalculateCurrentRisk(I, a.stations, a.at)
    BY AnswerFields DEF U
  <2> QED
    BY <1>2, <1>3, <2>1, RiskOfInputs
<1> QED
  BY <1>3, <1>4, <1>5 DEF Level, Green, Red

\* So is a fresh reading, once a recent run covers the basin.
LEMMA ReadingIsScored ==
  ASSUME NEW a, Computed(a), NEW s \in StationEvidence(a),
         RainfallInputs(UsableFrames(a.read, a.stations, a.at)) # {}
  PROVE  /\ a.result.risk.level \in Level
         /\ a.result.risk.level >= ScoreWaterLevel(s)
<1> DEFINE U == UsableFrames(a.read, a.stations, a.at)
           I == RainfallInputs(U)
           S == Scores(I, a.stations, a.at)
<1>1. s \in Reliable(a.stations, a.at) /\ U \in SUBSET Frames
  BY AnswerFields, UsableFramesAreRecent DEF Computed
<1>2. I # {} /\ ScoreWaterLevel(s) \in S
  BY <1>1, ScoreOfStation
<1>3. ScoreWaterLevel(s) \in Level
  BY <1>2, ScoresAreLevels
<1>5. /\ a.result.risk.level \in Level /\ a.result.risk.computed \in Level
      /\ a.result.risk.level >= a.result.risk.computed
      /\ \A x \in S : a.result.risk.computed >= x
  <2> HIDE DEF U
  <2>1. a.stations \in SUBSET Reading /\ a.at \in Time
        /\ a.result.risk = CalculateCurrentRisk(I, a.stations, a.at)
    BY AnswerFields DEF U
  <2> QED
    BY <1>1, <1>2, <2>1, RiskOfInputs
<1> QED
  BY <1>2, <1>3, <1>5 DEF Level, Green, Red

\* An orange or red level, and any other computed one, has its frame or reading.
LEMMA LevelHasOrigin ==
  ASSUME NEW a, Computed(a), a.result.risk # Unavailable
  PROVE  LET risk == a.result.risk
             U == UsableFrames(a.read, a.stations, a.at)
         IN  /\ \/ \E f \in U : /\ InBasin(f) # {} /\ f.window \in DOMAIN Thresholds
                               /\ risk.computed = ScoreRainfall(BasinMax(f), Thresholds[f.window])
                \/ \E s \in StationEvidence(a) : risk.computed = ScoreWaterLevel(s)
             /\ risk.computed \in Level /\ risk.level \in Level /\ risk.level >= risk.computed
             /\ risk.level >= Orange => risk.level = risk.computed
             /\ risk.level = Green => \E f \in U : InBasin(f) # {} /\ f.window \in DOMAIN Thresholds
             /\ RainfallInputs(U) # {}
             /\ U \in SUBSET Frames
<1> DEFINE U == UsableFrames(a.read, a.stations, a.at)
           I == RainfallInputs(U)
           S == Scores(I, a.stations, a.at)
           risk == a.result.risk
<1>1. /\ U \in SUBSET Frames
      /\ a.stations \in SUBSET Reading /\ a.at \in Time
      /\ risk = CalculateCurrentRisk(I, a.stations, a.at)
      /\ StationEvidence(a) = Reliable(a.stations, a.at)
  BY AnswerFields, UsableFramesAreRecent DEF Computed
<1>2. risk # Unavailable
  OBVIOUS
<1> HIDE DEF U, risk
<1>3. /\ I # {}
      /\ risk.computed \in S /\ risk.computed \in Level /\ risk.level \in Level
      /\ risk.level >= risk.computed
      /\ risk.level >= Orange => risk.level = risk.computed
      /\ risk.level = Green => Scored(I) # {}
  BY <1>1, <1>2, RiskOfInputs
<1>4. Scored(I) # {} => \E f \in U : InBasin(f) # {} /\ f.window \in DOMAIN Thresholds
  BY <1>1, InputsAreFrames DEF Scored
<1>5. \/ \E f \in U : /\ InBasin(f) # {} /\ f.window \in DOMAIN Thresholds
                     /\ risk.computed = ScoreRainfall(BasinMax(f), Thresholds[f.window])
      \/ \E s \in StationEvidence(a) : risk.computed = ScoreWaterLevel(s)
  BY <1>1, <1>3, OriginOfScore
<1> QED
  BY <1>1, <1>3, <1>4, <1>5 DEF U, risk

\* The invariant: what was read for a provider is of one run, and an answer is the
\* engine's result of what was read.
IInv ==
  /\ TypeOK
  /\ \A p \in Provider : SingleRun(read[p])
  /\ answer # NoAnswer => Computed(answer)

\* GreenIsEarned, of an answer.
LEMMA GreenOfInvariant ==
  ASSUME IInv
  PROVE  GreenIsEarned
<1> SUFFICES ASSUME answer # NoAnswer, answer.result.risk.level = Green
             PROVE  /\ \E f \in AllRead(answer) : \E c \in DOMAIN f.rain : Evidence(answer, f, c)
                    /\ \A f \in AllRead(answer) : \A c \in DOMAIN f.rain :
                         Evidence(answer, f, c) =>
                           /\ f.rain[c] < Thresholds[f.window].yellow
                           /\ f.rain[c] < Thresholds[f.window].orange
                           /\ f.rain[c] < Thresholds[f.window].red
                    /\ \A s \in StationEvidence(answer) :
                         100 * s.height < WatchRatio * Gauge[s.station].warning
  BY DEF GreenIsEarned
<1> DEFINE U == UsableFrames(answer.read, answer.stations, answer.at)
<1>1. Computed(answer)
  BY DEF IInv
<1>2. answer.result.risk # Unavailable
  BY DEF Unavailable, Green, Yellow
<1>3. /\ \E f \in U : InBasin(f) # {} /\ f.window \in DOMAIN Thresholds
      /\ RainfallInputs(U) # {}
  BY <1>1, <1>2, LevelHasOrigin
<1>4. \E f \in AllRead(answer) : \E c \in DOMAIN f.rain : Evidence(answer, f, c)
  <2>1. PICK f \in U : InBasin(f) # {} /\ f.window \in DOMAIN Thresholds
    BY <1>3
  <2>2. f \in AllRead(answer) /\ answer.at - f.run <= AgingAge
    BY <1>1, AnswerFields, UsableFramesAreRecent DEF AllRead, Computed
  <2> QED
    BY <2>1, <2>2 DEF InBasin, Evidence, AllRead
<1>5. ASSUME NEW f \in AllRead(answer), NEW c \in DOMAIN f.rain, Evidence(answer, f, c)
      PROVE  /\ f.rain[c] < Thresholds[f.window].yellow
             /\ f.rain[c] < Thresholds[f.window].orange
             /\ f.rain[c] < Thresholds[f.window].red
  <2>1. /\ f \in Frames /\ f.window \in DOMAIN Thresholds
        /\ f.rain[c] \in Nat /\ f.rain[c] <= BasinMax(f) /\ BasinMax(f) \in Nat
    BY <1>1, <1>5, AnswerFields, RainCounts, BasinMaxIsWettest DEF Evidence
  <2>2. Green >= ScoreRainfall(BasinMax(f), Thresholds[f.window])
    BY <1>1, <1>5, EvidenceIsScored
  <2>3. ScoreRainfall(BasinMax(f), Thresholds[f.window]) = Green
    BY <2>1, <2>2, RainfallLadder DEF Level, Green, Red
  <2>4. /\ BasinMax(f) < Thresholds[f.window].yellow
        /\ BasinMax(f) < Thresholds[f.window].orange
        /\ BasinMax(f) < Thresholds[f.window].red
    BY <2>1, <2>3, RainfallLadder
  <2>5. /\ Thresholds[f.window].yellow \in Nat /\ Thresholds[f.window].orange \in Nat
        /\ Thresholds[f.window].red \in Nat
    BY <2>1, ThresholdsAssumption
  <2> QED
    BY <2>1, <2>4, <2>5
<1>6. ASSUME NEW s \in StationEvidence(answer)
      PROVE  100 * s.height < WatchRatio * Gauge[s.station].warning
  <2>1. s \in Reading
    BY <1>1, AnswerFields DEF StationEvidence
  <2>2. Green >= ScoreWaterLevel(s)
    BY <1>1, <1>3, ReadingIsScored
  <2>3. ScoreWaterLevel(s) = Green
    BY <2>1, <2>2, WaterLadder DEF Level, Green, Red
  <2> QED
    BY <2>1, <2>3, WaterLadder
<1> QED
  BY <1>4, <1>5, <1>6

\* The evidence behind an orange or red level.
LEMMA LevelOfInvariant ==
  ASSUME IInv, answer # NoAnswer, answer.result.risk.level >= Orange
  PROVE  \/ \E f \in AllRead(answer) : \E c \in DOMAIN f.rain :
              /\ Evidence(answer, f, c)
              /\ \/ f.rain[c] >= Thresholds[f.window].red
                 \/ /\ f.rain[c] >= Thresholds[f.window].orange
                    /\ answer.result.risk.level = Orange
         \/ \E s \in StationEvidence(answer) :
              \/ s.height >= Gauge[s.station].critical
              \/ /\ s.height >= Gauge[s.station].warning
                 /\ answer.result.risk.level = Orange
<1> DEFINE U == UsableFrames(answer.read, answer.stations, answer.at)
           level == answer.result.risk.level
<1>1. Computed(answer)
  BY DEF IInv
<1>2. answer.result.risk # Unavailable
  BY DEF Unavailable, Orange, Yellow
<1>3. /\ \/ \E f \in U : /\ InBasin(f) # {} /\ f.window \in DOMAIN Thresholds
                        /\ level = ScoreRainfall(BasinMax(f), Thresholds[f.window])
         \/ \E s \in StationEvidence(answer) : level = ScoreWaterLevel(s)
      /\ level = Orange \/ level = Red
  BY <1>1, <1>2, LevelHasOrigin DEF Level, Green, Orange, Red
<1>4. CASE \E f \in U : /\ InBasin(f) # {} /\ f.window \in DOMAIN Thresholds
                      /\ level = ScoreRainfall(BasinMax(f), Thresholds[f.window])
  <2>1. PICK f \in U : /\ InBasin(f) # {} /\ f.window \in DOMAIN Thresholds
                       /\ level = ScoreRainfall(BasinMax(f), Thresholds[f.window])
    BY <1>4
  <2>2. f \in AllRead(answer) /\ answer.at - f.run <= AgingAge /\ f \in Frames
    BY <1>1, AnswerFields, UsableFramesAreRecent DEF AllRead, Computed
  <2>3. PICK c \in InBasin(f) : f.rain[c] = BasinMax(f)
    BY <2>1, <2>2, BasinMaxIsWettest
  <2>4. c \in DOMAIN f.rain /\ Evidence(answer, f, c)
    BY <2>1, <2>2, <2>3 DEF InBasin, Evidence, AllRead
  <2>5. BasinMax(f) \in Nat
    BY <2>1, <2>2, BasinMaxIsWettest
  <2>6. \/ f.rain[c] >= Thresholds[f.window].red
        \/ f.rain[c] >= Thresholds[f.window].orange /\ level = Orange
    BY <1>3, <2>1, <2>3, <2>5, RainfallLadder
  <2> QED
    BY <2>2, <2>4, <2>6
<1>5. CASE \E s \in StationEvidence(answer) : level = ScoreWaterLevel(s)
  <2>1. PICK s \in StationEvidence(answer) : level = ScoreWaterLevel(s)
    BY <1>5
  <2>2. s \in Reading
    BY <1>1, AnswerFields DEF StationEvidence
  <2> QED
    BY <1>3, <2>1, <2>2, WaterLadder
<1> QED
  BY <1>3, <1>4, <1>5

\* WarningIsEarned, of an answer.
LEMMA WarningOfInvariant ==
  ASSUME IInv
  PROVE  WarningIsEarned
<1> SUFFICES ASSUME answer # NoAnswer,
                    NEW e \in answer.contributions, e.level >= Orange
             PROVE  /\ \E s \in answer.stations : s.station = e.station /\ s.height = e.height
                    /\ e.threshold # NoThreshold
                    /\ \/ e.height >= e.threshold.danger
                       \/ e.height >= e.threshold.warning /\ e.level = Orange
  BY LevelOfInvariant DEF WarningIsEarned
<1>1. Computed(answer)
  BY DEF IInv
<1>2. PICK levels \in [Station -> RidLevels \cup {NoThreshold}] :
        answer.contributions = {Contribution(s, levels[s.station]) : s \in answer.stations}
  BY <1>1 DEF Computed
<1>3. PICK s \in answer.stations : e = Contribution(s, levels[s.station])
  BY <1>2
<1>4. s \in Reading /\ levels[s.station] \in RidLevels \cup {NoThreshold}
  BY <1>1, <1>3, AnswerFields DEF Reading
<1> QED
  BY <1>3, <1>4, EntryOfReading

\* DangerIsShown, of an answer.
LEMMA DangerOfInvariant ==
  ASSUME IInv
  PROVE  DangerIsShown
<1> SUFFICES ASSUME answer # NoAnswer
             PROVE  /\ \A f \in AllRead(answer) : \A c \in DOMAIN f.rain :
                         Evidence(answer, f, c) /\ f.rain[c] >= Thresholds[f.window].red
                           => answer.result.risk.level = Red
                    /\ \A s \in StationEvidence(answer) :
                         /\ s.height >= Gauge[s.station].critical
                         /\ \E f \in AllRead(answer) :
                              answer.at - f.run <= AgingAge /\ DOMAIN f.rain \cap Basin # {}
                         => answer.result.risk.level = Red
                    /\ \A s \in answer.stations : \E e \in answer.contributions :
                         /\ e.station = s.station /\ e.height = s.height
                         /\ e.threshold # NoThreshold /\ e.height >= e.threshold.danger
                              => e.level = Red
  BY DEF DangerIsShown
<1>1. Computed(answer)
  BY DEF IInv
<1>2. ASSUME NEW f \in AllRead(answer), NEW c \in DOMAIN f.rain, Evidence(answer, f, c),
             f.rain[c] >= Thresholds[f.window].red
      PROVE  answer.result.risk.level = Red
  <2>1. /\ f \in Frames /\ f.window \in DOMAIN Thresholds
        /\ f.rain[c] \in Nat /\ f.rain[c] <= BasinMax(f) /\ BasinMax(f) \in Nat
    BY <1>1, <1>2, AnswerFields, RainCounts, BasinMaxIsWettest DEF Evidence
  <2>2. Thresholds[f.window].red \in Nat
    BY <2>1, ThresholdsAssumption
  <2>3. BasinMax(f) >= Thresholds[f.window].red
    BY <1>2, <2>1, <2>2
  <2>4. ScoreRainfall(BasinMax(f), Thresholds[f.window]) = Red
    BY <2>1, <2>3, RainfallLadder
  <2>5. answer.result.risk.level \in Level /\ answer.result.risk.level >= Red
    BY <1>1, <1>2, <2>4, EvidenceIsScored
  <2> QED
    BY <2>5 DEF Level, Green, Red
<1>3. ASSUME NEW s \in StationEvidence(answer), s.height >= Gauge[s.station].critical,
             NEW f \in AllRead(answer), answer.at - f.run <= AgingAge,
             DOMAIN f.rain \cap Basin # {}
      PROVE  answer.result.risk.level = Red
  <2> DEFINE U == UsableFrames(answer.read, answer.stations, answer.at)
  <2>1. s \in Reading /\ s \in Reliable(answer.stations, answer.at)
    BY <1>1, AnswerFields DEF Reliable
  <2>2. f \in U /\ U \in SUBSET Frames /\ InBasin(f) # {}
    BY <1>1, <1>3, <2>1, AnswerFields, UsableFramesAreRecent DEF AllRead, Computed, InBasin
  <2>3. RainfallInputs(U) # {}
    BY <2>2, ScoreOfFrame
  <2>4. ScoreWaterLevel(s) = Red
    BY <1>3, <2>1, WaterLadder
  <2>5. answer.result.risk.level \in Level /\ answer.result.risk.level >= Red
    BY <1>1, <1>3, <2>3, <2>4, ReadingIsScored
  <2> QED
    BY <2>5 DEF Level, Green, Red
<1>4. ASSUME NEW s \in answer.stations
      PROVE  \E e \in answer.contributions :
               /\ e.station = s.station /\ e.height = s.height
               /\ e.threshold # NoThreshold /\ e.height >= e.threshold.danger => e.level = Red
  <2>1. PICK levels \in [Station -> RidLevels \cup {NoThreshold}] :
          answer.contributions = {Contribution(r, levels[r.station]) : r \in answer.stations}
    BY <1>1 DEF Computed
  <2>2. s \in Reading /\ levels[s.station] \in RidLevels \cup {NoThreshold}
    BY <1>1, AnswerFields DEF Reading
  <2>3. Contribution(s, levels[s.station]) \in answer.contributions
    BY <2>1
  <2> QED
    BY <2>2, <2>3, EntryOfReading
<1> QED
  BY <1>2, <1>3, <1>4

\* There are finitely many providers.
LEMMA ProviderFinite == IsFiniteSet(Provider)
<1>1. PICK n \in Nat : Providers \in [1 .. n -> Provider] /\ DOMAIN Providers = 1 .. n
  BY ProvidersAssumption
<1> DEFINE D == 1 .. n
<1>2. IsFiniteSet(D)
  <2>1. D \in SUBSET Nat /\ \A d \in D : d <= n
    OBVIOUS
  <2> HIDE DEF D
  <2> QED
    BY <2>1, FS_BoundedSetOfNaturals
<1>3. Providers \in Surjection(D, Provider)
  BY <1>1, ProvidersAssumption DEF Surjection
<1> QED
  BY <1>2, <1>3, FS_Surjection

\* A usable provider's level is a score of the ensemble, and every score of the
\* ensemble is a score of one of them.
LEMMA ScoresOfProviders ==
  ASSUME NEW a, Computed(a), NEW U, U = UsableFrames(a.read, a.stations, a.at),
         NEW P, P = UsableProviders(a.read, a.stations, a.at)
  PROVE  /\ U \in SUBSET Frames
         /\ P \in SUBSET Provider
         /\ \A p \in P : \A x \in Scores(RainfallInputs(a.read[p]), a.stations, a.at) :
              x \in Scores(RainfallInputs(U), a.stations, a.at)
         /\ \A x \in Scores(RainfallInputs(U), a.stations, a.at) :
              P # {} => \E p \in P : x \in Scores(RainfallInputs(a.read[p]), a.stations, a.at)
         /\ P # {} => RainfallInputs(U) # {}
<1>1. /\ U \in SUBSET Frames /\ a.read \in [Provider -> SUBSET Frames]
      /\ a.stations \in SUBSET Reading /\ a.at \in Time
      /\ \A p \in Provider : SingleRun(a.read[p])
  BY AnswerFields, UsableFramesAreRecent DEF Computed
<1>2. /\ P \in SUBSET Provider
      /\ \A p \in P : /\ a.read[p] \in SUBSET Frames /\ a.read[p] \subseteq U
                      /\ Usable(ProviderRisk(a.read[p], a.stations, a.at))
      /\ U = UNION {a.read[p] : p \in P}
  BY <1>1 DEF UsableProviders, UsableFrames
<1>3. ASSUME NEW p \in P, NEW x \in Scores(RainfallInputs(a.read[p]), a.stations, a.at)
      PROVE  x \in Scores(RainfallInputs(U), a.stations, a.at)
  <2>1. PICK F \in SUBSET Frames : F = a.read[p] /\ F \subseteq U
    BY <1>2
  <2>2. \/ \E f \in F : /\ InBasin(f) # {} /\ f.window \in DOMAIN Thresholds
                       /\ x = ScoreRainfall(BasinMax(f), Thresholds[f.window])
        \/ \E s \in Reliable(a.stations, a.at) : x = ScoreWaterLevel(s)
    BY <1>3, <2>1, OriginOfScore
  <2> QED
    BY <1>1, <2>1, <2>2, ScoreOfFrame, ScoreOfStation
<1>4. ASSUME NEW x \in Scores(RainfallInputs(U), a.stations, a.at), P # {}
      PROVE  \E p \in P : x \in Scores(RainfallInputs(a.read[p]), a.stations, a.at)
  <2>1. \/ \E f \in U : /\ InBasin(f) # {} /\ f.window \in DOMAIN Thresholds
                       /\ x = ScoreRainfall(BasinMax(f), Thresholds[f.window])
        \/ \E s \in Reliable(a.stations, a.at) : x = ScoreWaterLevel(s)
    BY <1>1, OriginOfScore
  <2>2. CASE \E f \in U : /\ InBasin(f) # {} /\ f.window \in DOMAIN Thresholds
                       /\ x = ScoreRainfall(BasinMax(f), Thresholds[f.window])
    <3>1. PICK f \in U : /\ InBasin(f) # {} /\ f.window \in DOMAIN Thresholds
                         /\ x = ScoreRainfall(BasinMax(f), Thresholds[f.window])
      BY <2>2
    <3>2. PICK p \in P : f \in a.read[p]
      BY <1>2
    <3> QED
      BY <1>2, <3>1, <3>2, ScoreOfFrame
  <2>3. CASE \E s \in Reliable(a.stations, a.at) : x = ScoreWaterLevel(s)
    BY <1>4, <2>3, ScoreOfStation
  <2> QED
    BY <2>1, <2>2, <2>3
<1>5. ASSUME NEW p \in P
      PROVE  RainfallInputs(U) # {}
  <2>1. PICK F \in SUBSET Frames : F = a.read[p] /\ F \subseteq U /\ SingleRun(F)
    BY <1>1, <1>2
  <2>2. RainfallInputs(F) # {}
    <3>1. PICK stations \in SUBSET Reading, at \in Time :
            stations = a.stations /\ at = a.at
      BY <1>1
    <3>2. PICK r : r = ProviderRisk(F, stations, at)
      OBVIOUS
    <3>3. Usable(r)
      BY <1>2, <2>1, <3>1, <3>2
    <3> QED
      BY <2>1, <3>2, <3>3, ProviderUsable
  <2>3. \E f \in F : InBasin(f) # {}
    BY <2>2, InputsAreFrames
  <2> QED
    BY <1>1, <2>1, <2>3, ScoreOfFrame
<1> QED
  BY <1>1, <1>2, <1>3, <1>4, <1>5

\* EnsembleIsMaximum, of an answer.
LEMMA EnsembleOfInvariant ==
  ASSUME IInv
  PROVE  EnsembleIsMaximum
<1> DEFINE result == answer.result
           P == UsableProviders(answer.read, answer.stations, answer.at)
           U == UsableFrames(answer.read, answer.stations, answer.at)
           fresh == {p \in Provider : result.providers[p].freshness \in {"fresh", "aging"}}
<1> SUFFICES ASSUME answer # NoAnswer
             PROVE  /\ result.singleProvider <=> (\E p \in Provider : fresh = {p})
                    /\ IF fresh = {}
                       THEN result.risk = Unavailable
                       ELSE /\ \A p \in fresh : result.providers[p].level <= result.risk.computed
                            /\ \E p \in fresh : result.providers[p].level = result.risk.computed
  BY DEF EnsembleIsMaximum
<1>1. /\ Computed(answer)
      /\ answer.read \in [Provider -> SUBSET Frames] /\ DOMAIN answer.read = Provider
      /\ \A p \in Provider : SingleRun(answer.read[p])
      /\ answer.stations \in SUBSET Reading /\ answer.at \in Time
  BY AnswerFields DEF IInv, Computed
<1>2. /\ result.providers = [p \in DOMAIN answer.read |->
                               ProviderRisk(answer.read[p], answer.stations, answer.at)]
      /\ result.singleProvider = (Cardinality(P) = 1)
  BY DEF IInv, Computed, CombineEnsembleRisk
<1>3. fresh = P
  BY <1>1, <1>2 DEF UsableProviders, Usable
<1>4. result.singleProvider <=> (\E p \in Provider : fresh = {p})
  <2>1. P \subseteq Provider /\ IsFiniteSet(P)
    BY <1>3, ProviderFinite, FS_Subset
  <2>2. Cardinality(P) = 1 <=> \E p : P = {p}
    <3> HIDE DEF P
    <3> QED
      BY <2>1, FS_Singleton
  <2> QED
    BY <1>2, <1>3, <2>1, <2>2
<1>5. CASE fresh = {}
  <2>1. U = {}
    BY <1>3, <1>5 DEF UsableFrames
  <2>2. RainfallInputs(U) = {}
    BY <2>1 DEF RainfallInputs
  <2>3. result.risk = CalculateCurrentRisk(RainfallInputs(U), answer.stations, answer.at)
    BY <1>1, AnswerFields
  <2>4. result.risk = Unavailable
    BY <2>2, <2>3 DEF CalculateCurrentRisk
  <2> QED
    BY <1>4, <1>5, <2>4
<1>6. CASE fresh # {}
  <2> DEFINE S == Scores(RainfallInputs(U), answer.stations, answer.at)
             Of(p) == Scores(RainfallInputs(answer.read[p]), answer.stations, answer.at)
             level(p) == result.providers[p].level
  <2>1. \A p \in P : /\ level(p) \in Of(p)
                    /\ \A x \in Of(p) : level(p) >= x
    <3>1. ASSUME NEW p \in P
          PROVE  level(p) \in Of(p) /\ \A x \in Of(p) : level(p) >= x
      <4>1. PICK F \in SUBSET Frames : F = answer.read[p] /\ SingleRun(F)
        BY <1>1, <1>3
      <4>2. PICK r : r = ProviderRisk(F, answer.stations, answer.at)
        OBVIOUS
      <4>3. Usable(r) /\ r = result.providers[p]
        BY <1>1, <1>2, <4>1, <4>2 DEF UsableProviders
      <4>4. /\ r.level \in Scores(RainfallInputs(F), answer.stations, answer.at)
            /\ \A x \in Scores(RainfallInputs(F), answer.stations, answer.at) : r.level >= x
        BY <1>1, <4>1, <4>2, <4>3, ProviderUsable
      <4> QED
        BY <4>1, <4>3, <4>4
    <3> QED
      BY <3>1
  <2>2. /\ \A p \in P : \A x \in Of(p) : x \in S
        /\ \A x \in S : \E p \in P : x \in Of(p)
        /\ RainfallInputs(U) # {} /\ U \in SUBSET Frames
    <3>1. /\ P # {}
          /\ P = UsableProviders(answer.read, answer.stations, answer.at)
          /\ U = UsableFrames(answer.read, answer.stations, answer.at)
      BY <1>3, <1>6
    <3> HIDE DEF P, U
    <3> QED
      BY <1>1, <3>1, ScoresOfProviders
  <2>3. S # {}
    BY <1>3, <1>6, <2>1, <2>2
  <2>4. result.risk.computed \in S /\ \A x \in S : result.risk.computed >= x
    <3>1. result.risk = CalculateCurrentRisk(RainfallInputs(U), answer.stations, answer.at)
      BY <1>1, AnswerFields
    <3> HIDE DEF U
    <3> QED
      BY <1>1, <2>2, <2>3, <3>1, RiskOfInputs
  <2>5. S \in SUBSET Level /\ \A p \in P : level(p) \in Level
    BY <2>1, <2>2, ScoresAreLevels
  <2> HIDE DEF S, Of, level
  <2>6. \A p \in P : level(p) <= result.risk.computed
    BY <2>1, <2>2, <2>4, <2>5 DEF Level, Green, Red
  <2>7. PICK p \in P : result.risk.computed \in Of(p)
    BY <2>2, <2>4
  <2>8. level(p) >= result.risk.computed
    BY <2>1, <2>7
  <2>9. level(p) = result.risk.computed
    <3>1. /\ level(p) \in Level /\ result.risk.computed \in Level
          /\ level(p) <= result.risk.computed
      BY <2>4, <2>5, <2>6
    <3> QED
      BY <2>8, <3>1 DEF Level, Green, Red
  <2>10. /\ \A q \in fresh : level(q) <= result.risk.computed
         /\ \E q \in fresh : level(q) = result.risk.computed
    BY <1>3, <2>6, <2>9
  <2> QED
    BY <1>4, <1>6, <2>10 DEF level
<1> QED
  BY <1>5, <1>6

-----------------------------------------------------------------------------
(* The alert phase. *)

\* NoMissedAlert, of any store: the frames behind the public level are among the
\* frames the alert phase scores.
LEMMA NoMissedAlertOfType ==
  ASSUME TypeOK
  PROVE  NoMissedAlert
<1> DEFINE r == [p \in Provider |-> LatestFrames(p)]
           U == UsableFrames(r, {}, clock)
           public == CalculateCurrentRisk(RainfallInputs(U), {}, clock)
<1>1. CombineEnsembleRisk(r, {}, clock).risk = public
  BY DEF CombineEnsembleRisk, UsableFrames
<1>2. U \subseteq frames /\ frames \in SUBSET Frames /\ clock \in Time
  BY DEF TypeOK, UsableFrames, UsableProviders, LatestFrames, FramesOf
<1>3. {} \in SUBSET Reading /\ Reliable({}, clock) = {}
  BY DEF Reliable
<1>4. AlertRisk = CalculateCurrentRisk(RainfallInputs(frames), {}, clock)
  BY DEF AlertRisk
<1> SUFFICES ASSUME public.level >= Orange
             PROVE  AlertRisk.level >= public.level
  BY <1>1 DEF NoMissedAlert
<1> HIDE DEF U
<1>5. public # Unavailable
  BY DEF Unavailable, Orange, Yellow
<1>6. /\ public.computed \in Scores(RainfallInputs(U), {}, clock)
      /\ public.level = public.computed
  <2>1. U \in SUBSET Frames
    BY <1>2
  <2> QED
    BY <1>2, <1>3, <1>5, <2>1, RiskOfInputs
<1>7. PICK f \in U : /\ InBasin(f) # {} /\ f.window \in DOMAIN Thresholds
                     /\ public.computed = ScoreRainfall(BasinMax(f), Thresholds[f.window])
  BY <1>2, <1>3, <1>6, OriginOfScore
<1>8. /\ public.computed \in Scores(RainfallInputs(frames), {}, clock)
      /\ RainfallInputs(frames) # {}
  BY <1>2, <1>7, ScoreOfFrame
<1>9. /\ AlertRisk.computed >= public.computed
      /\ AlertRisk.computed \in Level /\ AlertRisk.level \in Level
      /\ AlertRisk.level >= AlertRisk.computed
  <2> HIDE DEF public
  <2> QED
    BY <1>2, <1>3, <1>4, <1>8, RiskOfInputs
<1>10. public.computed \in Level
  BY <1>8, ScoresAreLevels
<1> QED
  BY <1>6, <1>9, <1>10 DEF Level, Green, Red

-----------------------------------------------------------------------------
(* The invariant is inductive. *)

\* The engine's result is complete.
LEMMA ResultTyped ==
  ASSUME NEW r \in [Provider -> SUBSET Frames], \A p \in Provider : SingleRun(r[p]),
         NEW stations \in SUBSET Reading, NEW at \in Time,
         NEW result, result = CombineEnsembleRisk(r, stations, at),
         NEW levels \in [Station -> RidLevels \cup {NoThreshold}]
  PROVE  [read |-> r, stations |-> stations, at |-> at, result |-> result,
          contributions |-> {Contribution(s, levels[s.station]) : s \in stations},
          degraded |-> stations = {}] \in Answers
<1> DEFINE U == UsableFrames(r, stations, at)
           I == RainfallInputs(U)
           risk == CalculateCurrentRisk(I, stations, at)
           Risks == [level : Level, computed : Level \cup {NotComputed},
                     availability : {"available", "degraded", "unavailable"},
                     freshness : FreshnessStatus,
                     uncertainty : {"low", "medium", "high"}]
<1>1. result = [risk |-> risk,
                providers |-> [p \in DOMAIN r |-> ProviderRisk(r[p], stations, at)],
                singleProvider |-> Cardinality(UsableProviders(r, stations, at)) = 1]
  BY DEF CombineEnsembleRisk, UsableFrames
<1>2. [p \in DOMAIN r |-> ProviderRisk(r[p], stations, at)]
        \in [Provider -> [level : Level, freshness : FreshnessStatus]]
  <2>1. ASSUME NEW p \in Provider
        PROVE  ProviderRisk(r[p], stations, at) \in [level : Level, freshness : FreshnessStatus]
    <3>1. PICK F \in SUBSET Frames : F = r[p] /\ SingleRun(F)
      OBVIOUS
    <3>2. PICK q : q = ProviderRisk(F, stations, at)
      OBVIOUS
    <3> QED
      BY <3>1, <3>2, ProviderUsable
  <2> QED
    BY <2>1
<1>3. U \in SUBSET Frames
  BY UsableFramesAreRecent
<1>4. risk \in Risks
  <2> HIDE DEF U
  <2>1. CASE I = {} \/ Scores(I, stations, at) = {}
    <3>1. risk = Unavailable
      BY <1>3, <2>1, RiskOfInputs
    <3> HIDE DEF risk
    <3> QED
      BY <3>1 DEF Unavailable, Level, Green, Yellow, Red, FreshnessStatus
  <2>2. CASE I # {} /\ Scores(I, stations, at) # {}
    <3>1. /\ risk.level \in Level /\ risk.computed \in Level
          /\ risk.freshness = Freshness(LatestRun(I), at)
          /\ risk = [level |-> risk.level, computed |-> risk.computed,
                     availability |-> risk.availability, freshness |-> risk.freshness,
                     uncertainty |-> risk.uncertainty]
          /\ risk.availability \in {"available", "degraded", "unavailable"}
          /\ risk.uncertainty \in {"low", "medium", "high"}
      BY <1>3, <2>2, RiskOfInputs
    <3>2. risk.freshness \in FreshnessStatus
      BY <3>1 DEF Freshness, FreshnessStatus
    <3> HIDE DEF risk
    <3> QED
      BY <3>1, <3>2
  <2> QED
    BY <2>1, <2>2
<1>5. (Cardinality(UsableProviders(r, stations, at)) = 1) \in BOOLEAN
  OBVIOUS
<1>6. result \in [risk : Risks,
                  providers : [Provider -> [level : Level, freshness : FreshnessStatus]],
                  singleProvider : BOOLEAN]
  <2> HIDE DEF risk, Risks
  <2> QED
    BY <1>1, <1>2, <1>4, <1>5
<1>7. {Contribution(s, levels[s.station]) : s \in stations}
        \in SUBSET [station : Station, height : Heights,
                    threshold : RidLevels \cup {NoThreshold}, level : Level]
  <2>1. \A s \in stations : s \in Reading /\ levels[s.station] \in RidLevels \cup {NoThreshold}
    BY DEF Reading
  <2> QED
    BY <2>1, EntryOfReading
<1> HIDE DEF risk, Risks
<1> QED
  BY <1>6, <1>7 DEF Answers, Reading, Risks

\* The stored frames stay frames.
LEMMA StoreTyped ==
  ASSUME TypeOK, NEW p \in Provider, NEW run \in Cycle, NEW content \in Contents,
         Store(p, run, content)
  PROVE  /\ frames' \subseteq Frames /\ writes' \in 0 .. MaxWrites
         /\ latest' \in [Provider -> RunDocument \cup {NoRun}]
<1>1. run \in Time
  BY ClockAssumption DEF Store, StoreRun, TypeOK, Time
<1>2. \A c \in content : Frame(p, run, c) \in Frames
  <2> DEFINE Of(q, t) == {Frame(q, t, d) : d \in UNION Contents}
  <2> TAKE c \in content
  <2>1. c \in UNION Contents
    OBVIOUS
  <2>2. Frame(p, run, c) \in Of(p, run)
    BY <2>1, Zenon
  <2>3. Frames = UNION {Of(q, t) : q \in Provider, t \in Time}
    BY DEF Frames
  <2> HIDE DEF Of
  <2>4. Of(p, run) \in {Of(q, t) : q \in Provider, t \in Time}
    BY <1>1
  <2> QED
    BY <2>2, <2>3, <2>4
<1>3. frames' \subseteq Frames
  BY <1>2 DEF Store, StoreRun, TypeOK
<1>4. writes' \in 0 .. MaxWrites
  BY BoundsAssumption DEF Store, TypeOK
<1>5. latest' \in [Provider -> RunDocument \cup {NoRun}]
  <2>1. [time |-> run, failed |-> FALSE] \in RunDocument
    BY <1>1 DEF RunDocument
  <2> QED
    BY <2>1 DEF Store, StoreRun, Put, TypeOK
<1> QED
  BY <1>3, <1>4, <1>5

\* Every step preserves the invariant.
LEMMA IInvPreserved ==
  ASSUME IInv, [Next]_vars
  PROVE  IInv'
<1>0. Len(Providers) \in Nat /\ DOMAIN Providers = 1 .. Len(Providers)
      /\ Providers \in [DOMAIN Providers -> Provider]
  BY ProvidersAssumption
<1>1. TypeOK /\ \A p \in Provider : SingleRun(read[p])
  BY DEF IInv
<1>2. ASSUME NEW p \in Provider, NEW run \in Cycle, NEW content \in Contents,
             Store(p, run, content)
      PROVE  IInv'
  <2>1. TypeOK'
    BY <1>1, <1>2, StoreTyped DEF TypeOK, Store, StoreRun, request
  <2> QED
    BY <2>1, <1>2 DEF IInv, Store, StoreRun, request
<1>3. ASSUME NEW p \in Provider, NEW began \in Time, Fail(p, began)
      PROVE  IInv'
  <2>1. [time |-> began, failed |-> TRUE] \in RunDocument
    BY DEF RunDocument
  <2>2. latest' \in [Provider -> RunDocument \cup {NoRun}]
    BY <1>1, <1>3, <2>1 DEF TypeOK, Fail, FailRun, Put
  <2>3. writes' \in 0 .. MaxWrites
    BY <1>1, <1>3, BoundsAssumption DEF TypeOK, Fail, FailRun
  <2>4. TypeOK'
    BY <1>1, <1>3, <2>2, <2>3 DEF TypeOK, Fail, FailRun, request
  <2> QED
    BY <2>4, <1>3 DEF IInv, Fail, FailRun, request
<1>4. ASSUME Tick
      PROVE  IInv'
  <2>1. clock' \in Time
    BY <1>1, <1>4, ClockAssumption DEF TypeOK, Tick, Advance, Time
  <2>2. TypeOK'
    BY <1>1, <1>4, <2>1 DEF TypeOK, Tick, Advance, request
  <2> QED
    BY <2>2, <1>4 DEF IInv, Tick, Advance, request
<1>5. ASSUME Begin
      PROVE  IInv'
  <2>1. TypeOK'
    BY <1>0, <1>1, <1>5 DEF TypeOK, Begin, store
  <2> QED
    BY <2>1, <1>5 DEF IInv, Begin
<1>6. ASSUME FindRun
      PROVE  IInv'
  <2>1. Providers[step] \in Provider /\ step + 1 \in 0 .. Len(Providers) + 2
    BY <1>0, <1>6 DEF FindRun
  <2>2. latest_run' \in RunDocument \cup {NoRun} /\ step' \in 0 .. Len(Providers) + 2
    BY <1>1, <1>6, <2>1 DEF TypeOK, FindRun
  <2>3. TypeOK'
    BY <1>1, <1>6, <2>2 DEF TypeOK, FindRun, store
  <2> QED
    BY <2>3, <1>6 DEF IInv, FindRun
<1>7. ASSUME ReadFrames
      PROVE  IInv'
  <2> DEFINE F == FramesOf(Providers[step], latest_run)
  <2>1. F \in SUBSET Frames
    BY <1>1 DEF TypeOK, FramesOf
  <2>2. SingleRun(F)
    BY DEF SingleRun, FramesOf
  <2>3. Providers[step] \in Provider /\ step + 1 \in 0 .. Len(Providers) + 2
    BY <1>0, <1>7 DEF ReadFrames
  <2>4. read' \in [Provider -> SUBSET Frames] /\ \A p \in Provider : SingleRun(read'[p])
    BY <1>1, <1>7, <2>1, <2>2, <2>3 DEF TypeOK, ReadFrames
  <2>5. TypeOK'
    BY <1>1, <1>7, <2>3, <2>4 DEF TypeOK, ReadFrames, store
  <2> QED
    BY <2>4, <2>5, <1>7 DEF IInv, ReadFrames
<1>8. ASSUME NEW stations \in Served, ReadStations(stations)
      PROVE  IInv'
  <2>1. stations \in SUBSET Reading
    <3>0. PICK Fresh \in SUBSET Time, S \in SUBSET Station :
            \E r \in [S -> [height : Heights, at : Fresh]] :
              stations = {[station |-> s, height |-> r[s].height, at |-> r[s].at] :
                            s \in DOMAIN r}
      BY DEF Served
    <3>1. PICK r \in [S -> [height : Heights, at : Fresh]] :
            stations = {[station |-> s, height |-> r[s].height, at |-> r[s].at] :
                          s \in DOMAIN r}
      BY <3>0
    <3>2. \A s \in S : [station |-> s, height |-> r[s].height, at |-> r[s].at] \in Reading
      BY <3>1 DEF Reading
    <3>3. stations \in SUBSET Reading
      BY <3>1, <3>2
    <3> QED
      BY <3>3
  <2>2. served' \subseteq Reading /\ step' \in 0 .. Len(Providers) + 2
    BY <1>0, <1>8, <2>1 DEF ReadStations, Reading
  <2>3. TypeOK'
    BY <1>1, <1>8, <2>2 DEF TypeOK, ReadStations, store
  <2> QED
    BY <2>3, <1>8 DEF IInv, ReadStations
<1>9. ASSUME Done, Computed(answer') \/ answer' = answer
      PROVE  IInv'
  <2>1. read' \in [Provider -> SUBSET Frames] /\ \A p \in Provider : SingleRun(read'[p])
    BY <1>9 DEF Done, SingleRun
  <2>2. answer' # NoAnswer => answer' \in Answers
    BY <1>1, <1>9 DEF TypeOK, Computed
  <2>3. TypeOK'
    BY <1>0, <1>1, <1>9, <2>1, <2>2 DEF TypeOK, Done, store
  <2>4. answer' # NoAnswer => Computed(answer')
    BY <1>9 DEF IInv
  <2> QED
    BY <2>1, <2>3, <2>4 DEF IInv, Computed
<1>10. ASSUME Answer
       PROVE  IInv'
  <2>1. /\ served \in SUBSET Reading /\ generatedAt \in Time
        /\ read \in [Provider -> SUBSET Frames]
        /\ thresholds \in [Station -> RidLevels \cup {NoThreshold}]
    BY <1>1 DEF TypeOK, Reading
  <2>2. answer' = [read |-> read, stations |-> served, at |-> generatedAt,
                   result |-> CombineEnsembleRisk(read, served, generatedAt),
                   contributions |-> {Contribution(s, thresholds[s.station]) : s \in served},
                   degraded |-> served = {}]
    BY <1>10 DEF Answer
  <2>3. answer' \in Answers
    BY <1>1, <2>1, <2>2, ResultTyped
  <2>4. Computed(answer')
    BY <1>1, <2>1, <2>2, <2>3 DEF Computed
  <2> QED
    BY <1>9, <1>10, <2>4 DEF Answer
<1>11. ASSUME RequestFails
       PROVE  IInv'
  BY <1>9, <1>11 DEF RequestFails
<1>12. ASSUME NEW s \in Station, NEW levels \in RidLevels, Seed(s, levels)
       PROVE  IInv'
  <2>1. thresholds' \in [Station -> RidLevels \cup {NoThreshold}]
    BY <1>1, <1>12 DEF TypeOK, Seed
  <2>2. TypeOK'
    BY <1>1, <1>12, <2>1 DEF TypeOK, Seed, store, request
  <2> QED
    BY <2>2, <1>12 DEF IInv, Seed, request
<1>13. CASE UNCHANGED vars
  <2>1. TypeOK'
    BY <1>1, <1>13 DEF TypeOK, vars, store, request
  <2> QED
    BY <2>1, <1>13 DEF IInv, vars, request
<1> QED
  BY <1>2, <1>3, <1>4, <1>5, <1>6, <1>7, <1>8, <1>10, <1>11, <1>12, <1>13 DEF Next

-----------------------------------------------------------------------------
(* The theorems. *)

\* The invariant holds in every behaviour.
LEMMA IInvHolds == Spec => []IInv
<1>1. Init => IInv
  <2>1. ASSUME Init
        PROVE  IInv
    <3>1. Len(Providers) \in Nat
      BY ProvidersAssumption
    <3>2. TypeOK
      BY <2>1, <3>1, ClockAssumption, BoundsAssumption DEF Init, StoreInit, TypeOK, Time
    <3> QED
      BY <2>1, <3>2 DEF Init, IInv, SingleRun
  <2> QED
    BY <2>1
<1> QED
  BY <1>1, IInvPreserved, PTL DEF Spec

\* The store, the request and the answer are well typed; the engine always yields
\* a complete response.
THEOREM TypeCorrect == Spec => []TypeOK
<1>1. IInv => TypeOK
  BY DEF IInv
<1> QED
  BY <1>1, IInvHolds, PTL

\* read_current_risk never gives a false all-clear.
THEOREM GreenIsEarnedAlways == Spec => []GreenIsEarned
BY GreenOfInvariant, IInvHolds, PTL

\* read_current_risk never gives a false alarm.
THEOREM WarningIsEarnedAlways == Spec => []WarningIsEarned
BY WarningOfInvariant, IInvHolds, PTL

\* Neither the ensemble nor the quality rules ever hide a danger.
THEOREM DangerIsShownAlways == Spec => []DangerIsShown
BY DangerOfInvariant, IInvHolds, PTL

\* The ensemble is the maximum over the fresh providers, however many there are.
THEOREM EnsembleIsMaximumAlways == Spec => []EnsembleIsMaximum
BY EnsembleOfInvariant, IInvHolds, PTL

\* The alert phase never computes less than the public level of the forecasts.
THEOREM NoMissedAlertAlways == Spec => []NoMissedAlert
BY NoMissedAlertOfType, TypeCorrect, PTL

-----------------------------------------------------------------------------
(* Low uncertainty.                                                           *)

\* The frames of each provider are its own, and no more than were stored.
ReadInv(r) ==
  \A p \in Provider : IsFiniteSet(r[p]) /\ \A f \in r[p] : f.provider = p

SourceInv ==
  /\ IsFiniteSet(frames)
  /\ ReadInv(read)
  /\ answer # NoAnswer => ReadInv(answer.read)

LEMMA SourceInvHolds == Spec => []SourceInv
<1>1. Init => SourceInv
  BY FS_EmptySet DEF Init, StoreInit, SourceInv, ReadInv
<1>2. TypeOK /\ SourceInv /\ [Next]_vars => SourceInv'
  <2> SUFFICES ASSUME TypeOK, SourceInv, [Next]_vars
               PROVE  SourceInv'
    OBVIOUS
  <2>1. CASE UNCHANGED <<frames, read>> /\ answer' \in {answer, NoAnswer}
    BY <2>1 DEF SourceInv, ReadInv
  <2>2. ASSUME NEW p \in Provider, NEW run \in Cycle, NEW content \in Contents,
               Store(p, run, content)
        PROVE  SourceInv'
    <3> DEFINE Kept == {f \in frames : f.provider # p \/ f.run # run}
               New == {Frame(p, run, c) : c \in content}
    <3>1. IsFiniteSet(Kept)
      BY FS_Subset DEF SourceInv
    <3>2. IsFiniteSet(New)
      <4> DEFINE m == [c \in content |-> Frame(p, run, c)]
      <4>1. m \in Surjection(content, New)
        BY DEF Surjection
      <4>2. IsFiniteSet(content)
        BY ContentsAssumption
      <4> HIDE DEF m
      <4> QED
        BY <4>1, <4>2, FS_Surjection
    <3>3. IsFiniteSet(Kept \cup New)
      BY <3>1, <3>2, FS_Union
    <3> QED
      BY <2>2, <3>3 DEF Store, StoreRun, request, SourceInv, ReadInv
  <2>3. CASE ReadFrames
    <3> DEFINE F == FramesOf(Providers[step], latest_run)
    <3>1. IsFiniteSet(F) /\ \A f \in F : f.provider = Providers[step]
      <4>1. F \in SUBSET frames
        BY DEF FramesOf
      <4> QED
        BY <4>1, FS_Subset DEF SourceInv, FramesOf
    <3>2. \A p \in Provider : read'[p] = IF p = Providers[step] THEN F ELSE read[p]
      BY <2>3 DEF ReadFrames, TypeOK
    <3> HIDE DEF F
    <3>3. ReadInv(read')
      BY <3>1, <3>2 DEF SourceInv, ReadInv
    <3> QED
      BY <2>3, <3>3 DEF ReadFrames, store, SourceInv, ReadInv
  <2>4. CASE Answer \/ RequestFails
    BY <2>4, FS_EmptySet DEF Answer, RequestFails, Done, store, SourceInv, ReadInv
  <2> QED
    BY <2>1, <2>2, <2>3, <2>4 DEF Next, vars, request, store, Fail, FailRun, Seed, Tick,
                                     Advance, Begin, FindRun, ReadStations
<1> QED
  BY <1>1, <1>2, TypeCorrect, PTL DEF Spec

\* Each area of the rainfall inputs is that of a window and a lead.
LEMMA AreasAreCovered ==
  ASSUME NEW U \in SUBSET Frames, IsFiniteSet(U),
         \A f, g \in U : f.provider = g.provider => f.run = g.run
  PROVE  LET B == {f \in U : InBasin(f) # {}}
         IN  /\ Cells(RainfallInputs(U)) \in Nat
             /\ Cells(RainfallInputs(U)) <= Cardinality({<<f.provider, f.window, f.lead>> : f \in B})
             /\ IsFiniteSet({<<f.provider, f.window, f.lead>> : f \in B})
<1> DEFINE B == {f \in U : InBasin(f) # {}}
           Slots == {<<f.provider, f.window, f.lead>> : f \in B}
           Areas == {<<f.provider, f.window, f.run + f.lead>> : f \in B}
           slot == [f \in B |-> <<f.provider, f.window, f.lead>>]
           RunOf(p) == (CHOOSE f \in B : f.provider = p).run
           area == [x \in Slots |-> <<x[1], x[2], RunOf(x[1]) + x[3]>>]
<1>1. IsFiniteSet(B)
  BY FS_Subset
<1>2. IsFiniteSet(Slots)
  <2>1. slot \in Surjection(B, Slots)
    BY DEF Surjection
  <2> HIDE DEF slot
  <2> QED
    BY <1>1, <2>1, FS_Surjection
<1>3. area \in Surjection(Slots, Areas)
  <2>1. ASSUME NEW f \in B
        PROVE  area[<<f.provider, f.window, f.lead>>] = <<f.provider, f.window, f.run + f.lead>>
    <3>1. RunOf(f.provider) = f.run
      BY DEF RunOf
    <3> QED
      BY <3>1
  <2> HIDE DEF area
  <2>2. DOMAIN area = Slots /\ area \in [Slots -> Areas]
    <3>1. area = [x \in Slots |-> area[x]]
      BY DEF area
    <3> QED
      BY <2>1, <3>1
  <2>3. \A y \in Areas : \E x \in Slots : area[x] = y
    BY <2>1
  <2> QED
    BY <2>2, <2>3 DEF Surjection
<1>4. {i.area : i \in RainfallInputs(U)} = Areas
  <2> DEFINE input(f) == [area |-> <<f.provider, f.window, f.run + f.lead>>,
                          mm |-> BasinMax(f), window |-> f.window, run |-> f.run]
             area_of(f) == <<f.provider, f.window, f.run + f.lead>>
  <2>1. \A f : input(f).area = area_of(f)
    OBVIOUS
  <2>2. RainfallInputs(U) = {input(f) : f \in B}
    BY DEF RainfallInputs
  <2>3. Areas = {area_of(f) : f \in B}
    OBVIOUS
  <2> HIDE DEF input, area_of, B, Areas
  <2> QED
    BY <2>1, <2>2, <2>3
<1> HIDE DEF area
<1>5. IsFiniteSet(Areas) /\ Cardinality(Areas) <= Cardinality(Slots)
  BY <1>2, <1>3, FS_Surjection
<1> QED
  BY <1>2, <1>4, <1>5, FS_CardinalityType DEF Cells

\* Low uncertainty is never claimed without the coverage and the station.
LEMMA LowOfInvariant ==
  ASSUME IInv, SourceInv
  PROVE  LowUncertaintyIsEarned
<1> DEFINE U == UsableFrames(answer.read, answer.stations, answer.at)
           inputs == RainfallInputs(U)
           Covered == {g \in AllRead(answer) :
                         answer.at - g.run <= AgingAge /\ DOMAIN g.rain \cap Basin # {}}
           B == {f \in U : InBasin(f) # {}}
           Slots(F) == {<<f.provider, f.window, f.lead>> : f \in F}
<1> SUFFICES ASSUME answer # NoAnswer, answer.result.risk.uncertainty = "low"
             PROVE  /\ StationEvidence(answer) # {} /\ ~ answer.degraded
                    /\ Cardinality(Slots(Covered)) >= ExpectedCells
  BY DEF LowUncertaintyIsEarned
<1>1. Computed(answer) /\ ReadInv(answer.read)
  BY DEF IInv, SourceInv
<1>2. /\ answer.read \in [Provider -> SUBSET Frames]
      /\ answer.stations \in SUBSET Reading /\ answer.at \in Time
      /\ answer.result.risk = CalculateCurrentRisk(inputs, answer.stations, answer.at)
      /\ AllRead(answer) \in SUBSET Frames
      /\ StationEvidence(answer) = Reliable(answer.stations, answer.at)
  BY <1>1, AnswerFields
<1>3. Uncertainty(inputs, answer.stations, answer.at) = "low"
  BY <1>2 DEF CalculateCurrentRisk, Unavailable
<1>4. /\ ~ (Cells(inputs) < ExpectedCells)
      /\ answer.stations # {} /\ Reliable(answer.stations, answer.at) # {}
  BY <1>3 DEF Uncertainty, Doubtful
<1>5. /\ U \in SUBSET Frames /\ U \subseteq AllRead(answer)
      /\ \A f \in U : answer.at - f.run <= AgingAge
  BY <1>1, <1>2, UsableFramesAreRecent DEF Computed, AllRead
<1>6. IsFiniteSet(AllRead(answer))
  <2> DEFINE Parts == {answer.read[p] : p \in Provider}
             part == [p \in Provider |-> answer.read[p]]
  <2>1. part \in Surjection(Provider, Parts)
    BY DEF Surjection
  <2> HIDE DEF part
  <2>2. IsFiniteSet(Parts)
    BY <2>1, ProviderFinite, FS_Surjection
  <2>3. \A P \in Parts : IsFiniteSet(P)
    BY <1>1 DEF ReadInv
  <2> QED
    BY <2>2, <2>3, FS_UNION DEF AllRead
<1>7. \A f, g \in U : f.provider = g.provider => f.run = g.run
  <2> SUFFICES ASSUME NEW f \in U, NEW g \in U, f.provider = g.provider
               PROVE  f.run = g.run
    OBVIOUS
  <2>1. PICK p \in Provider, q \in Provider : f \in answer.read[p] /\ g \in answer.read[q]
    BY <1>5 DEF AllRead
  <2>2. p = q
    BY <1>1, <2>1 DEF ReadInv
  <2> QED
    BY <1>1, <2>1, <2>2 DEF Computed, SingleRun
<1>8. IsFiniteSet(U)
  BY <1>5, <1>6, FS_Subset
<1>9. /\ Cells(inputs) \in Nat /\ Cells(inputs) <= Cardinality(Slots(B))
      /\ IsFiniteSet(Slots(B))
  <2> HIDE DEF U
  <2> QED
    BY <1>5, <1>7, <1>8, AreasAreCovered
<1>10. B \subseteq Covered
  BY <1>5 DEF InBasin
<1>11. IsFiniteSet(Slots(Covered))
  <2> DEFINE slot == [f \in Covered |-> <<f.provider, f.window, f.lead>>]
  <2>1. IsFiniteSet(Covered)
    BY <1>6, FS_Subset
  <2>2. slot \in Surjection(Covered, Slots(Covered))
    BY DEF Surjection
  <2> HIDE DEF slot, Covered
  <2> QED
    BY <2>1, <2>2, FS_Surjection
<1>12. Slots(B) \in SUBSET Slots(Covered)
  <2> HIDE DEF B, Covered
  <2> QED
    BY <1>10
<1>13. Cardinality(Slots(B)) <= Cardinality(Slots(Covered))
       /\ Cardinality(Slots(B)) \in Nat /\ Cardinality(Slots(Covered)) \in Nat
  <2> HIDE DEF Slots
  <2> QED
    BY <1>9, <1>11, <1>12, FS_Subset, FS_CardinalityType
<1>14. ~ answer.degraded
  BY <1>1, <1>4 DEF Computed
<1> QED
  <2> HIDE DEF Slots, B, Covered, inputs
  <2> QED
    BY <1>2, <1>4, <1>9, <1>13, <1>14, CoverageAssumption

\* An answer of low uncertainty rests on enough of the basin and on a station.
THEOREM LowUncertaintyIsEarnedAlways == Spec => []LowUncertaintyIsEarned
BY LowOfInvariant, IInvHolds, SourceInvHolds, PTL

-----------------------------------------------------------------------------
(* More water never lowers the level. *)

\* The frames of G are those of F with as much rain or more in every cell.
Wetter(F, G) ==
  LET Same(f, g) == /\ f.provider = g.provider /\ f.run = g.run /\ f.lead = g.lead
                    /\ f.window = g.window /\ DOMAIN f.rain = DOMAIN g.rain
                    /\ \A c \in DOMAIN f.rain : f.rain[c] <= g.rain[c]
  IN  /\ \A f \in F : \E g \in G : Same(f, g)
      /\ \A g \in G : \E f \in F : Same(f, g)

\* The readings of T are those of S with the water as high or higher.
Higher(S, T) ==
  LET Same(s, t) == s.station = t.station /\ s.at = t.at /\ s.height <= t.height
  IN  /\ \A s \in S : \E t \in T : Same(s, t)
      /\ \A t \in T : \E s \in S : Same(s, t)

\* The inputs of J are those of I with as much rain or more.
WetterInputs(I, J) ==
  LET Same(i, j) == i.area = j.area /\ i.window = j.window /\ i.run = j.run /\ i.mm <= j.mm
  IN  /\ \A i \in I : \E j \in J : Same(i, j)
      /\ \A j \in J : \E i \in I : Same(i, j)

\* The wettest cell of the basin is the wettest whatever the others are.
LEMMA BasinMaxMonotone ==
  ASSUME NEW f \in Frames, NEW g \in Frames, InBasin(f) # {}, DOMAIN f.rain = DOMAIN g.rain,
         \A c \in DOMAIN f.rain : f.rain[c] <= g.rain[c]
  PROVE  InBasin(g) = InBasin(f) /\ BasinMax(f) <= BasinMax(g)
<1>1. InBasin(g) = InBasin(f)
  BY DEF InBasin
<1>2. PICK c \in InBasin(f) : f.rain[c] = BasinMax(f)
  BY BasinMaxIsWettest
<1>3. c \in DOMAIN f.rain /\ g.rain[c] <= BasinMax(g) /\ f.rain[c] <= g.rain[c]
  BY <1>1, <1>2, BasinMaxIsWettest DEF InBasin
<1>4. f.rain[c] \in Nat /\ g.rain[c] \in Nat /\ BasinMax(g) \in Nat
  BY <1>1, <1>3, FrameFields, BasinMaxIsWettest
<1> QED
  BY <1>1, <1>2, <1>3, <1>4

LEMMA InputsMonotone ==
  ASSUME NEW F \in SUBSET Frames, NEW G \in SUBSET Frames, Wetter(F, G)
  PROVE  WetterInputs(RainfallInputs(F), RainfallInputs(G))
<1> DEFINE In(f) == [area |-> <<f.provider, f.window, f.run + f.lead>>,
                     mm |-> BasinMax(f), window |-> f.window, run |-> f.run]
<1>1. /\ RainfallInputs(F) = {In(f) : f \in {g \in F : InBasin(g) # {}}}
      /\ RainfallInputs(G) = {In(f) : f \in {g \in G : InBasin(g) # {}}}
  BY DEF RainfallInputs
<1>2. ASSUME NEW i \in RainfallInputs(F)
      PROVE  \E j \in RainfallInputs(G) : /\ i.area = j.area /\ i.window = j.window
                                          /\ i.run = j.run /\ i.mm <= j.mm
  <2>1. PICK f \in F : InBasin(f) # {} /\ i = In(f)
    BY <1>1
  <2>2. PICK g \in G : /\ f.provider = g.provider /\ f.run = g.run /\ f.lead = g.lead
                       /\ f.window = g.window /\ DOMAIN f.rain = DOMAIN g.rain
                       /\ \A c \in DOMAIN f.rain : f.rain[c] <= g.rain[c]
    BY DEF Wetter
  <2>3. InBasin(g) = InBasin(f) /\ BasinMax(f) <= BasinMax(g)
    BY <2>1, <2>2, BasinMaxMonotone
  <2>4. In(g) \in RainfallInputs(G)
    BY <1>1, <2>1, <2>3
  <2> QED
    BY <2>1, <2>2, <2>3, <2>4
<1>3. ASSUME NEW j \in RainfallInputs(G)
      PROVE  \E i \in RainfallInputs(F) : /\ i.area = j.area /\ i.window = j.window
                                          /\ i.run = j.run /\ i.mm <= j.mm
  <2>1. PICK g \in G : InBasin(g) # {} /\ j = In(g)
    BY <1>1
  <2>2. PICK f \in F : /\ f.provider = g.provider /\ f.run = g.run /\ f.lead = g.lead
                       /\ f.window = g.window /\ DOMAIN f.rain = DOMAIN g.rain
                       /\ \A c \in DOMAIN f.rain : f.rain[c] <= g.rain[c]
    BY DEF Wetter
  <2>3. InBasin(f) # {}
    BY <2>1, <2>2 DEF InBasin
  <2>4. BasinMax(f) <= BasinMax(g)
    BY <2>2, <2>3, BasinMaxMonotone
  <2>5. In(f) \in RainfallInputs(F)
    BY <1>1, <2>3
  <2> QED
    BY <2>1, <2>2, <2>4, <2>5
<1> QED
  BY <1>2, <1>3 DEF WetterInputs

\* The ladders are monotone, in whatever order their thresholds are configured.
LEMMA LaddersMonotone ==
  /\ \A w \in DOMAIN Thresholds : \A x, y \in Nat :
       x <= y => ScoreRainfall(x, Thresholds[w]) <= ScoreRainfall(y, Thresholds[w])
  /\ \A s, t \in Reading :
       s.station = t.station /\ s.height <= t.height => ScoreWaterLevel(s) <= ScoreWaterLevel(t)
<1>1. ASSUME NEW w \in DOMAIN Thresholds, NEW x \in Nat, NEW y \in Nat, x <= y
      PROVE  ScoreRainfall(x, Thresholds[w]) <= ScoreRainfall(y, Thresholds[w])
  <2>1. /\ Thresholds[w].yellow \in Nat /\ Thresholds[w].orange \in Nat
        /\ Thresholds[w].red \in Nat
    BY ThresholdsAssumption
  <2> QED
    BY <1>1, <2>1 DEF ScoreRainfall, Green, Yellow, Orange, Red
<1>2. ASSUME NEW s \in Reading, NEW t \in Reading, s.station = t.station, s.height <= t.height
      PROVE  ScoreWaterLevel(s) <= ScoreWaterLevel(t)
  <2>1. /\ s.height \in Nat /\ t.height \in Nat /\ s.station \in Station
        /\ Gauge[s.station].warning \in Nat /\ Gauge[s.station].critical \in Nat
        /\ WatchRatio \in Nat
    BY GaugeAssumption, BoundsAssumption, CoverageAssumption DEF Reading, Station
  <2> DEFINE watch == WatchRatio * Gauge[s.station].warning
  <2>2. watch \in Int
    BY <2>1
  <2>3. ScoreWaterLevel(s) = IF s.height >= Gauge[s.station].critical THEN Red
                             ELSE IF s.height >= Gauge[s.station].warning THEN Orange
                             ELSE IF 100 * s.height >= watch THEN Yellow ELSE Green
    BY DEF ScoreWaterLevel
  <2>4. ScoreWaterLevel(t) = IF t.height >= Gauge[s.station].critical THEN Red
                             ELSE IF t.height >= Gauge[s.station].warning THEN Orange
                             ELSE IF 100 * t.height >= watch THEN Yellow ELSE Green
    BY <1>2 DEF ScoreWaterLevel
  <2> HIDE DEF watch
  <2> QED
    BY <1>2, <2>1, <2>2, <2>3, <2>4 DEF Green, Yellow, Orange, Red
<1> QED
  BY <1>1, <1>2

\* Every score has one that is as high or higher, and the other way round there is
\* a score whenever there is one.
LEMMA ScoresMonotone ==
  ASSUME NEW I, NEW J, WetterInputs(I, J),
         \A i \in I : i.mm \in Nat, \A j \in J : j.mm \in Nat,
         NEW S \in SUBSET Reading, NEW T \in SUBSET Reading, Higher(S, T), NEW at
  PROVE  /\ \A x \in Scores(I, S, at) : \E y \in Scores(J, T, at) : x <= y
         /\ Scores(I, S, at) = {} => Scores(J, T, at) = {}
<1>1. ASSUME NEW x \in Scores(I, S, at)
      PROVE  \E y \in Scores(J, T, at) : x <= y
  <2>1. CASE \E i \in Scored(I) : x = ScoreRainfall(i.mm, Thresholds[i.window])
    <3>1. PICK i \in Scored(I) : x = ScoreRainfall(i.mm, Thresholds[i.window])
      BY <2>1
    <3>2. PICK j \in J : i.window = j.window /\ i.mm <= j.mm
      BY <3>1 DEF WetterInputs, Scored
    <3>3. j \in Scored(J) /\ i.mm \in Nat /\ j.mm \in Nat /\ i.window \in DOMAIN Thresholds
      BY <3>1, <3>2 DEF Scored
    <3>4. ScoreRainfall(j.mm, Thresholds[j.window]) \in Scores(J, T, at)
      BY <3>3 DEF Scores
    <3> QED
      BY <3>1, <3>2, <3>3, <3>4, LaddersMonotone
  <2>2. CASE \E s \in Reliable(S, at) : x = ScoreWaterLevel(s)
    <3>1. PICK s \in Reliable(S, at) : x = ScoreWaterLevel(s)
      BY <2>2
    <3>2. PICK t \in T : s.station = t.station /\ s.at = t.at /\ s.height <= t.height
      BY <3>1 DEF Higher, Reliable
    <3>3. t \in Reliable(T, at) /\ s \in Reading /\ t \in Reading
      BY <3>1, <3>2 DEF Reliable
    <3>4. ScoreWaterLevel(t) \in Scores(J, T, at)
      BY <3>3 DEF Scores
    <3> QED
      BY <3>1, <3>2, <3>3, <3>4, LaddersMonotone
  <2> QED
    BY <2>1, <2>2 DEF Scores
<1>2. ASSUME NEW y \in Scores(J, T, at)
      PROVE  Scores(I, S, at) # {}
  <2>1. CASE \E j \in Scored(J) : TRUE
    <3>1. PICK j \in Scored(J) : TRUE
      BY <2>1
    <3>2. PICK i \in I : i.window = j.window
      BY <3>1 DEF WetterInputs, Scored
    <3> QED
      BY <3>1, <3>2 DEF Scored, Scores
  <2>2. CASE \E t \in Reliable(T, at) : TRUE
    <3>1. PICK t \in Reliable(T, at) : TRUE
      BY <2>2
    <3>2. PICK s \in S : s.at = t.at
      BY <3>1 DEF Higher, Reliable
    <3> QED
      BY <3>1, <3>2 DEF Reliable, Scores
  <2> QED
    BY <2>1, <2>2 DEF Scores
<1> QED
  BY <1>1, <1>2

\* Freshness, coverage and availability do not depend on the rain.
LEMMA SameAvailability ==
  ASSUME NEW I, NEW J, WetterInputs(I, J), NEW at
  PROVE  /\ I = {} <=> J = {}
         /\ LatestRun(I) = LatestRun(J)
         /\ Availability(I, at) = Availability(J, at)
<1>1. {i.run : i \in I} = {j.run : j \in J}
  BY DEF WetterInputs
<1>2. {i.area : i \in I} = {j.area : j \in J}
  BY DEF WetterInputs
<1>3. Scored(I) = {} <=> Scored(J) = {}
  BY DEF WetterInputs, Scored
<1>4. LatestRun(I) = LatestRun(J) /\ (CoverageLow(I) <=> CoverageLow(J))
  BY <1>1, <1>2 DEF LatestRun, CoverageLow, Cells
<1> QED
  BY <1>3, <1>4 DEF Availability, WetterInputs

\* calculate_current_risk: as high or higher, and as fresh.
LEMMA RiskMonotone ==
  ASSUME NEW F \in SUBSET Frames, NEW G \in SUBSET Frames, Wetter(F, G),
         NEW S \in SUBSET Reading, NEW T \in SUBSET Reading, Higher(S, T), NEW at \in Time
  PROVE  LET r == CalculateCurrentRisk(RainfallInputs(F), S, at)
             q == CalculateCurrentRisk(RainfallInputs(G), T, at)
         IN  r.freshness = q.freshness /\ r.level <= q.level
<1> DEFINE I == RainfallInputs(F)
           J == RainfallInputs(G)
           X == Scores(I, S, at)
           Y == Scores(J, T, at)
<1>1. WetterInputs(I, J) /\ (\A i \in I : i.mm \in Nat) /\ (\A j \in J : j.mm \in Nat)
  BY InputsMonotone, InputsAreFrames
<1>2. /\ I = {} <=> J = {}
      /\ LatestRun(I) = LatestRun(J)
      /\ Availability(I, at) = Availability(J, at)
  <2> HIDE DEF I, J
  <2> QED
    BY <1>1, SameAvailability
<1>3. /\ \A x \in X : \E y \in Y : x <= y
      /\ X = {} => Y = {}
  <2> HIDE DEF I, J
  <2> QED
    BY <1>1, ScoresMonotone
<1>4. X \in SUBSET Level /\ Y \in SUBSET Level
  BY ScoresAreLevels
<1>5. CASE I = {} \/ X = {}
  <2>1. J = {} \/ Y = {}
    BY <1>2, <1>3, <1>5
  <2>2. CalculateCurrentRisk(I, S, at) = Unavailable /\ CalculateCurrentRisk(J, T, at) = Unavailable
    BY <1>5, <2>1 DEF CalculateCurrentRisk
  <2> QED
    BY <2>2 DEF Unavailable, Yellow
<1>6. CASE I # {} /\ X # {}
  <2> HIDE DEF I, J, X, Y
  <2>1. J # {} /\ Y # {}
    BY <1>2, <1>3, <1>6
  <2>2. Highest(X) \in X /\ Highest(Y) \in Y /\ \A y \in Y : Highest(Y) >= y
    BY <1>4, <1>6, <2>1, HighestLevel
  <2>3. Highest(X) \in 0 .. 3 /\ Highest(Y) \in 0 .. 3 /\ Highest(X) <= Highest(Y)
    <3>1. PICK y \in Y : Highest(X) <= y
      BY <1>3, <2>2
    <3>2. Highest(X) \in 0 .. 3 /\ Highest(Y) \in 0 .. 3 /\ y \in 0 .. 3
      BY <1>4, <2>2, <3>1 DEF Level, Green, Red
    <3> QED
      BY <2>2, <3>1, <3>2
  <2>4. DisplayLevel(Highest(X), Availability(I, at)) <= DisplayLevel(Highest(Y), Availability(J, at))
    BY <1>2, <2>3 DEF DisplayLevel, Yellow
  <2>5. /\ CalculateCurrentRisk(I, S, at).level = DisplayLevel(Highest(X), Availability(I, at))
        /\ CalculateCurrentRisk(I, S, at).freshness = Freshness(LatestRun(I), at)
    BY <1>6 DEF CalculateCurrentRisk, X
  <2>6. /\ CalculateCurrentRisk(J, T, at).level = DisplayLevel(Highest(Y), Availability(J, at))
        /\ CalculateCurrentRisk(J, T, at).freshness = Freshness(LatestRun(J), at)
    BY <2>1 DEF CalculateCurrentRisk, Y
  <2>7. /\ CalculateCurrentRisk(I, S, at).freshness = CalculateCurrentRisk(J, T, at).freshness
        /\ CalculateCurrentRisk(I, S, at).level <= CalculateCurrentRisk(J, T, at).level
    BY <1>2, <2>4, <2>5, <2>6
  <2> QED
    BY <2>7 DEF I, J
<1> QED
  BY <1>5, <1>6

\* More water never lowers the public level: with as much rain or more in every
\* cell of every frame, and every river as high or higher, combine_ensemble_risk
\* answers the same level or a higher one, for any number of providers.
THEOREM MoreWaterNeverLowers ==
  ASSUME NEW r \in [Provider -> SUBSET Frames], NEW q \in [Provider -> SUBSET Frames],
         \A p \in Provider : Wetter(r[p], q[p]),
         NEW S \in SUBSET Reading, NEW T \in SUBSET Reading, Higher(S, T), NEW at \in Time
  PROVE  CombineEnsembleRisk(r, S, at).risk.level <= CombineEnsembleRisk(q, T, at).risk.level
<1>1. ASSUME NEW p \in Provider
      PROVE  ProviderRisk(r[p], S, at).freshness = ProviderRisk(q[p], T, at).freshness
  <2>1. r[p] \in SUBSET Frames /\ q[p] \in SUBSET Frames /\ Wetter(r[p], q[p])
    OBVIOUS
  <2>2. r[p] = {} <=> q[p] = {}
    BY <2>1 DEF Wetter
  <2>3. CalculateCurrentRisk(RainfallInputs(r[p]), S, at).freshness
          = CalculateCurrentRisk(RainfallInputs(q[p]), T, at).freshness
    BY <2>1, RiskMonotone
  <2> QED
    BY <2>2, <2>3 DEF ProviderRisk
<1> DEFINE P == UsableProviders(r, S, at)
           F == UNION {r[p] : p \in P}
           G == UNION {q[p] : p \in P}
<1>2. P = UsableProviders(q, T, at) /\ P \subseteq Provider
  <2>1. DOMAIN r = Provider /\ DOMAIN q = Provider
    OBVIOUS
  <2> QED
    BY <1>1, <2>1 DEF UsableProviders, Usable
<1>3. /\ CombineEnsembleRisk(r, S, at).risk = CalculateCurrentRisk(RainfallInputs(F), S, at)
      /\ CombineEnsembleRisk(q, T, at).risk = CalculateCurrentRisk(RainfallInputs(G), T, at)
  BY <1>2 DEF CombineEnsembleRisk
<1> HIDE DEF P
<1>4. F \in SUBSET Frames /\ G \in SUBSET Frames
  BY <1>2
<1>5. Wetter(F, G)
  <2>1. \A p \in P : Wetter(r[p], q[p])
    BY <1>2
  <2>2. ASSUME NEW f \in F
        PROVE  \E g \in G : /\ f.provider = g.provider /\ f.run = g.run /\ f.lead = g.lead
                            /\ f.window = g.window /\ DOMAIN f.rain = DOMAIN g.rain
                            /\ \A c \in DOMAIN f.rain : f.rain[c] <= g.rain[c]
    <3>1. PICK p \in P : f \in r[p]
      OBVIOUS
    <3>2. PICK g \in q[p] : /\ f.provider = g.provider /\ f.run = g.run /\ f.lead = g.lead
                            /\ f.window = g.window /\ DOMAIN f.rain = DOMAIN g.rain
                            /\ \A c \in DOMAIN f.rain : f.rain[c] <= g.rain[c]
      BY <2>1, <3>1 DEF Wetter
    <3>3. g \in G
      OBVIOUS
    <3> QED
      BY <3>2, <3>3
  <2>3. ASSUME NEW g \in G
        PROVE  \E f \in F : /\ f.provider = g.provider /\ f.run = g.run /\ f.lead = g.lead
                            /\ f.window = g.window /\ DOMAIN f.rain = DOMAIN g.rain
                            /\ \A c \in DOMAIN f.rain : f.rain[c] <= g.rain[c]
    <3>1. PICK p \in P : g \in q[p]
      OBVIOUS
    <3>2. PICK f \in r[p] : /\ f.provider = g.provider /\ f.run = g.run /\ f.lead = g.lead
                            /\ f.window = g.window /\ DOMAIN f.rain = DOMAIN g.rain
                            /\ \A c \in DOMAIN f.rain : f.rain[c] <= g.rain[c]
      BY <2>1, <3>1 DEF Wetter
    <3>3. f \in F
      OBVIOUS
    <3> QED
      BY <3>2, <3>3
  <2> HIDE DEF F, G
  <2> QED
    BY <2>2, <2>3 DEF Wetter
<1> HIDE DEF F, G
<1> QED
  BY <1>3, <1>4, <1>5, RiskMonotone

-----------------------------------------------------------------------------
(* Nothing that is missing raises the level.                               *)

\* A warning stands when more is read: with the frames read of each provider among
\* those of q, the run of a provider still the same, and the readings of S among those
\* of T, an orange or red level of the smaller reading is a level that
\* combine_ensemble_risk reaches or exceeds for the larger one.  Read while its run is
\* half stored, or without ThaiWater, a level may be too low but is never a warning
\* that the whole of it would take back; below orange it may, as a degraded all-clear
\* is yellow.
THEOREM MoreSourcesNeverHideAWarning ==
  ASSUME NEW r \in [Provider -> SUBSET Frames], NEW q \in [Provider -> SUBSET Frames],
         \A p \in Provider : r[p] \subseteq q[p] /\ SingleRun(q[p]),
         NEW S \in SUBSET Reading, NEW T \in SUBSET Reading, S \subseteq T, NEW at \in Time,
         CombineEnsembleRisk(r, S, at).risk.level >= Orange
  PROVE  CombineEnsembleRisk(q, T, at).risk.level >= CombineEnsembleRisk(r, S, at).risk.level
<1> DEFINE U == UsableFrames(r, S, at)
           V == UsableFrames(q, T, at)
           low == CalculateCurrentRisk(RainfallInputs(U), S, at)
           high == CalculateCurrentRisk(RainfallInputs(V), T, at)
<1>1. CombineEnsembleRisk(r, S, at).risk = low /\ CombineEnsembleRisk(q, T, at).risk = high
  BY DEF CombineEnsembleRisk, UsableFrames
<1>2. \A p \in Provider : SingleRun(r[p]) /\ SingleRun(q[p])
  BY DEF SingleRun
<1>3. Reliable(S, at) \subseteq Reliable(T, at)
  BY DEF Reliable
<1>4. /\ U \in SUBSET Frames /\ U \subseteq UNION {r[p] : p \in Provider}
      /\ \A f \in U : at - f.run <= AgingAge
  BY <1>2, UsableFramesAreRecent
<1>5. V \in SUBSET Frames
  BY <1>2, UsableFramesAreRecent
<1>6. \A f \in UNION {q[p] : p \in Provider} :
        /\ InBasin(f) # {} /\ at - f.run <= AgingAge
        /\ f.window \in DOMAIN Thresholds \/ Reliable(T, at) # {}
        => f \in V
  BY <1>2, UsableFramesAreRecent
<1>7. UNION {r[p] : p \in Provider} \subseteq UNION {q[p] : p \in Provider}
  OBVIOUS
<1> HIDE DEF U, V
<1>8. low # Unavailable
  BY <1>1 DEF Unavailable, Orange, Yellow
<1>9. /\ RainfallInputs(U) # {}
      /\ low.computed \in Scores(RainfallInputs(U), S, at) /\ low.level = low.computed
  BY <1>1, <1>4, <1>8, RiskOfInputs
<1>10. low.computed \in Scores(RainfallInputs(V), T, at) /\ RainfallInputs(V) # {}
  <2>1. CASE \E f \in U : /\ InBasin(f) # {} /\ f.window \in DOMAIN Thresholds
                          /\ low.computed = ScoreRainfall(BasinMax(f), Thresholds[f.window])
    <3>1. PICK f \in U : /\ InBasin(f) # {} /\ f.window \in DOMAIN Thresholds
                         /\ low.computed = ScoreRainfall(BasinMax(f), Thresholds[f.window])
      BY <2>1
    <3>2. f \in V
      BY <1>4, <1>6, <1>7, <3>1
    <3> QED
      BY <1>5, <3>1, <3>2, ScoreOfFrame
  <2>2. CASE \E s \in Reliable(S, at) : low.computed = ScoreWaterLevel(s)
    <3>1. PICK s \in Reliable(T, at) : low.computed = ScoreWaterLevel(s)
      BY <1>3, <2>2
    <3>2. PICK f \in U : InBasin(f) # {}
      BY <1>4, <1>9, InputsAreFrames
    <3>3. f \in V
      BY <1>4, <1>6, <1>7, <3>1, <3>2
    <3>4. RainfallInputs(V) # {}
      BY <1>5, <3>2, <3>3, ScoreOfFrame
    <3> QED
      BY <3>1, <3>4, ScoreOfStation
  <2> QED
    BY <1>4, <1>9, <2>1, <2>2, OriginOfScore
<1>11. /\ high.computed >= low.computed
       /\ high.computed \in Level /\ high.level \in Level /\ high.level >= high.computed
  <2> HIDE DEF high
  <2> QED
    BY <1>5, <1>10, RiskOfInputs DEF high
<1>12. low.computed \in Level
  BY <1>10, ScoresAreLevels
<1> HIDE DEF low, high
<1> QED
  BY <1>1, <1>9, <1>11, <1>12 DEF Level, Green, Red
==============================================================================
