----------------------------- MODULE WaterLevels -----------------------------
(***************************************************************************)
(* Requests for water levels: get_water_levels, the ThaiWater client behind *)
(* it and the repository it writes through to.                             *)
(*                                                                         *)
(* A request asks ThaiWater; what it gets it stores and serves; when that  *)
(* is nothing it serves what the repository remembers.  The repository is  *)
(* either the dictionary of DryRunStationRepository, whose calls never     *)
(* wait, or the collection of MongoStationRepository, which stores with a  *)
(* deletion and an insertion and whose documents cannot be read back: the  *)
(* times Motor returns have no zone, and StationObservation rejects them.  *)
(*                                                                         *)
(* A reading is its station and its time.  A record without a usable code, *)
(* value (0 counts as none) or time is one the provider does not have.     *)
(***************************************************************************)
EXTENDS Integers, FiniteSets

CONSTANTS
  Station,   \* the seed stations
  Request,   \* requests in progress at the same time
  MaxAge,    \* thaiwater_max_age_hours
  MaxAhead,  \* bound on how far in the future ThaiWater dates a reading
  MaxClock,  \* bound on the clock
  Reading    \* bound on what ThaiWater ever measures

Time == 0 .. MaxClock

ASSUME MaxAgeAssumption == MaxAge \in Nat
ASSUME MaxAheadAssumption == MaxAhead \in Nat
ASSUME MaxClockAssumption == MaxClock \in Nat
ASSUME ReadingAssumption == Reading \subseteq [station : Station, at : Time]

VARIABLES
  clock,     \* wall clock
  measured,  \* the latest readings ThaiWater has
  backend,   \* the repository in use
  store,     \* copies of each reading in the repository
  step,      \* where each request is
  now,       \* resolved_now of each request
  payload,   \* the readings in ThaiWater's response to each request
  failed,    \* did the fetch of the request raise?
  shown,     \* history: time of the latest reading of each station ever returned
  base,      \* history: shown, when the request began
  known,     \* history: what the repository could give when the request began
  answer,    \* what the last step answered, if it did, and what its request knew
  overlap    \* history: did the writes of two requests ever overlap?

request == <<step, now, payload, failed, base, known>>
vars == <<clock, measured, backend, store, request, shown, answer, overlap>>

Source == {"fresh", "stale", "unavailable"}

NoAnswer == [stations |-> {}, source |-> "stale", live |-> FALSE, failed |-> FALSE,
             now |-> 0, base |-> [s \in Station |-> 0], known |-> {}]

Init ==
  /\ clock = 0
  /\ measured = {}
  /\ backend \in {"dry_run", "mongo"}
  /\ store = [x \in Reading |-> 0]
  /\ step = [r \in Request |-> "idle"]
  /\ now = [r \in Request |-> 0]
  /\ payload = [r \in Request |-> {}]
  /\ failed = [r \in Request |-> FALSE]
  /\ answer = NoAnswer
  /\ shown = [s \in Station |-> 0]
  /\ base = [r \in Request |-> shown]
  /\ known = [r \in Request |-> {}]
  /\ overlap = FALSE

------------------------------------------------------------------------------
(* Readings. *)

\* The age of a reading dated in the future is negative.
IsFresh(x, t) == t - x.at <= MaxAge

MutLatestPerStation(readings) == readings

\* Of each station, the reading with the latest time.
LatestPerStation(readings) ==
  {x \in readings : \A y \in readings : y.station = x.station => y.at <= x.at}

\* What fetch_latest_water_levels makes of a response.
Observations(r) == {x \in LatestPerStation(payload[r]) : IsFresh(x, now[r])}

Remembered == {x \in Reading : store[x] > 0}

\* What get_water_levels can recover from the repository for a request of time t.
Cached(t) ==
  IF backend = "dry_run"
  THEN {x \in LatestPerStation(Remembered) : IsFresh(x, t)}
  ELSE {}

------------------------------------------------------------------------------
(* The provider. *)

Tick ==
  /\ clock < MaxClock
  /\ clock' = clock + 1
  /\ answer' = NoAnswer
  /\ UNCHANGED <<measured, backend, store, request, shown, overlap>>

\* A reading arrives, perhaps late or dated in the future, and takes the place of
\* the station's last one.
Measure(x) ==
  /\ x.at <= clock + MaxAhead
  /\ \A y \in measured : y.station = x.station => y.at < x.at
  /\ measured' = {y \in measured : y.station # x.station} \cup {x}
  /\ answer' = NoAnswer
  /\ UNCHANGED <<clock, backend, store, request, shown, overlap>>

------------------------------------------------------------------------------
(* A request. *)

\* What a request keeps is gone when it ends.
Forget(r) ==
  /\ step' = [step EXCEPT ![r] = "idle"]
  /\ now' = [now EXCEPT ![r] = 0]
  /\ payload' = [payload EXCEPT ![r] = {}]
  /\ failed' = [failed EXCEPT ![r] = FALSE]
  /\ base' = [base EXCEPT ![r] = [s \in Station |-> 0]]
  /\ known' = [known EXCEPT ![r] = {}]

Begin(r) ==
  /\ step[r] = "idle"
  /\ step' = [step EXCEPT ![r] = "ask"]
  /\ now' = [now EXCEPT ![r] = clock]
  /\ base' = [base EXCEPT ![r] = shown]
  /\ known' = [known EXCEPT ![r] = Cached(clock)]
  /\ answer' = NoAnswer
  /\ UNCHANGED <<clock, measured, backend, store, payload, failed, shown, overlap>>

\* ThaiWater responds with the readings it has of some stations; the response
\* takes its time to arrive.
Respond(r, S) ==
  /\ step[r] = "ask"
  /\ payload' = [payload EXCEPT ![r] = {x \in measured : x.station \in S}]
  /\ step' = [step EXCEPT ![r] = "deliver"]
  /\ answer' = NoAnswer
  /\ UNCHANGED <<clock, measured, backend, store, now, failed, base, known, shown,
                 overlap>>

LatestShown(readings) ==
  [s \in Station |->
     LET later == {x \in readings : x.station = s /\ x.at > shown[s]}
     IN  IF later = {} THEN shown[s] ELSE (CHOOSE x \in later : TRUE).at]

\* The rest of get_water_levels: fresh readings, or the reason there are none.
Answer(r, readings, live, raised) ==
  /\ answer' = [stations |-> readings,
                source   |-> IF readings # {} THEN "fresh"
                             ELSE IF raised THEN "unavailable" ELSE "stale",
                live     |-> live,
                failed   |-> raised,
                now      |-> now[r],
                base     |-> base[r],
                known    |-> known[r]]
  /\ shown' = LatestShown(readings)
  /\ Forget(r)
  /\ UNCHANGED <<clock, measured, backend, overlap>>

\* An error status, a body that is not JSON, a transport error.
FetchRaisesDryRun(r) ==
  /\ step[r] \in {"ask", "deliver"}
  /\ backend = "dry_run"
  /\ Answer(r, Cached(now[r]), FALSE, TRUE)
  /\ UNCHANGED store

FetchRaisesMongo(r) ==
  /\ step[r] \in {"ask", "deliver"}
  /\ backend = "mongo"
  /\ failed' = [failed EXCEPT ![r] = TRUE]
  /\ payload' = [payload EXCEPT ![r] = {}]
  /\ step' = [step EXCEPT ![r] = "cache"]
  /\ answer' = NoAnswer
  /\ UNCHANGED <<clock, measured, backend, store, now, base, known, shown, overlap>>

MutDeliverDryRun(r) ==
  /\ step[r] = "deliver"
  /\ backend = "dry_run"
  /\ store' = [x \in Reading |->
                IF x \in Observations(r) THEN 1
                ELSE IF \E y \in Observations(r) : y.station = x.station THEN 0
                ELSE store[x]]
  /\ IF Observations(r) # {}
     THEN Answer(r, Observations(r), TRUE, FALSE)
     ELSE Answer(r, Cached(now[r]), FALSE, FALSE)

\* With the dictionary nothing waits once the response is there.
DeliverDryRun(r) ==
  /\ step[r] = "deliver"
  /\ backend = "dry_run"
  /\ store' = [x \in Reading |-> IF x \in Observations(r) THEN 1 ELSE store[x]]
  /\ IF Observations(r) # {}
     THEN Answer(r, Observations(r), TRUE, FALSE)
     ELSE Answer(r, Cached(now[r]), FALSE, FALSE)

MutDeliverMongo(r) ==
  /\ step[r] = "deliver"
  /\ backend = "mongo"
  /\ step' = [step EXCEPT ![r] = IF payload[r] # {} THEN "delete" ELSE "cache"]
  /\ answer' = NoAnswer
  /\ UNCHANGED <<clock, measured, backend, store, now, payload, failed, base,
                 known, shown, overlap>>

DeliverMongo(r) ==
  /\ step[r] = "deliver"
  /\ backend = "mongo"
  /\ step' = [step EXCEPT ![r] = IF Observations(r) # {} THEN "delete" ELSE "cache"]
  /\ answer' = NoAnswer
  /\ UNCHANGED <<clock, measured, backend, store, now, payload, failed, base,
                 known, shown, overlap>>

MutDelete(r) ==
  /\ step[r] = "delete"
  /\ overlap' = (overlap \/ \E q \in Request : step[q] = "insert")
  /\ step' = [step EXCEPT ![r] = "insert"]
  /\ answer' = NoAnswer
  /\ UNCHANGED <<clock, measured, backend, store, now, payload, failed, base,
                 known, shown>>

Deleted(r) == [x \in Reading |-> IF x \in Observations(r) THEN 0 ELSE store[x]]

\* upsert_many, first half.
Delete(r) ==
  /\ step[r] = "delete"
  /\ store' = Deleted(r)
  /\ overlap' = (overlap \/ \E q \in Request : step[q] = "insert")
  /\ step' = [step EXCEPT ![r] = "insert"]
  /\ answer' = NoAnswer
  /\ UNCHANGED <<clock, measured, backend, now, payload, failed, base, known,
                 shown>>

\* Second half; insert_many that meets an error may have stored some of the batch.
Insert(r, stored) ==
  /\ step[r] = "insert"
  /\ stored \subseteq Observations(r)
  /\ store' = [x \in Reading |-> IF x \in stored THEN store[x] + 1 ELSE store[x]]
  /\ Answer(r, Observations(r), TRUE, FALSE)

\* The deletion raised, done or not: persistence is best-effort.
DeleteRaises(r) ==
  /\ step[r] = "delete"
  /\ store' \in {store, Deleted(r)}
  /\ Answer(r, Observations(r), TRUE, FALSE)

\* latest_per_station finds nothing, or raises over the first document; the error
\* is logged.
ReadCache(r) ==
  /\ step[r] = "cache"
  /\ Answer(r, Cached(now[r]), FALSE, failed[r])
  /\ UNCHANGED store

\* The API process restarts: its requests are gone, and so is the dictionary.
Restart ==
  /\ step' = [r \in Request |-> "idle"]
  /\ now' = [r \in Request |-> 0]
  /\ payload' = [r \in Request |-> {}]
  /\ failed' = [r \in Request |-> FALSE]
  /\ base' = [r \in Request |-> [s \in Station |-> 0]]
  /\ known' = [r \in Request |-> {}]
  /\ store' = IF backend = "dry_run" THEN [x \in Reading |-> 0] ELSE store
  /\ answer' = NoAnswer
  /\ UNCHANGED <<clock, measured, backend, shown, overlap>>

Next ==
  \/ Tick
  \/ \E x \in Reading : Measure(x)
  \/ Restart
  \/ \E r \in Request :
       \/ Begin(r)
       \/ \E S \in SUBSET Station : Respond(r, S)
       \/ FetchRaisesDryRun(r)
       \/ FetchRaisesMongo(r)
       \/ DeliverDryRun(r)
       \/ DeliverMongo(r)
       \/ Delete(r)
       \/ \E stored \in SUBSET Observations(r) : Insert(r, stored)
       \/ DeleteRaises(r)
       \/ ReadCache(r)

Spec == Init /\ [][Next]_vars

------------------------------------------------------------------------------
(* Properties. *)

\* Every variable has its type; Mongo is never given an empty batch, whose deletion
\* it would refuse; and a request that ended keeps nothing.
TypeOK ==
  /\ clock \in Time
  /\ measured \in SUBSET Reading
  /\ backend \in {"dry_run", "mongo"}
  /\ store \in [Reading -> Nat]
  /\ step \in [Request -> {"idle", "ask", "deliver", "delete", "insert", "cache"}]
  /\ now \in [Request -> Time]
  /\ payload \in [Request -> SUBSET Reading]
  /\ failed \in [Request -> BOOLEAN]
  /\ answer \in [stations : SUBSET Reading, source : Source, live : BOOLEAN,
                 failed : BOOLEAN, now : Time, base : [Station -> Time],
                 known : SUBSET Reading]
  /\ shown \in [Station -> Time]
  /\ base \in [Request -> [Station -> Time]]
  /\ known \in [Request -> SUBSET Reading]
  /\ overlap \in BOOLEAN
  /\ \A r \in Request : step[r] \in {"delete", "insert"} => Observations(r) # {}
  /\ \A r \in Request : step[r] = "idle" => payload[r] = {} /\ known[r] = {}

\* An answer is what it says: at most one reading of each station, none too old
\* (which is what the risk engine relies on), the plain source exactly when there
\* is one, ":unavailable" only when the fetch raised and ":stale" only when it did
\* not.  A station the repository could have given is only left out when ThaiWater
\* gave fresh readings of other stations.
AnswerJustified ==
  /\ \A x, y \in answer.stations : x.station = y.station => x = y
  /\ \A x \in answer.stations : x.at >= answer.now - MaxAge
  /\ answer.source = "fresh" <=> answer.stations # {}
  /\ answer.source = "unavailable" => answer.failed
  /\ answer.source = "stale" => ~answer.failed
  /\ \A x \in answer.known :
       \/ \E y \in answer.stations : y.station = x.station /\ y.at >= x.at
       \/ answer.live /\ answer.stations # {}

\* The public never sees a station go back in time: no answer holds a reading
\* older than one of that station returned before the request began, whichever
\* responses were slow and whatever was stored in between.
NeverStepsBack == \A x \in answer.stations : x.at >= answer.base[x.station]

\* The documents of station_observations are unique per station and time, as
\* upsert_many intends, unless the writes of two requests overlapped.
PairsUniqueWithoutOverlap == overlap \/ \A x \in Reading : store[x] <= 1
==============================================================================
