-------------------------- MODULE WaterLevelsProofs --------------------------
(***************************************************************************)
(* Proofs about WaterLevels, for any stations, any requests, any set of    *)
(* readings, and any window.                                               *)
(***************************************************************************)
EXTENDS WaterLevels, OrderFacts

LEMMA ReadingFacts ==
  ASSUME NEW x \in Reading
  PROVE  x.station \in Station /\ x.at \in Time /\ x.at \in Int /\ 0 <= x.at
BY ReadingAssumption, MaxClockAssumption DEF Time

LEMMA ReadingEqual ==
  ASSUME NEW x \in Reading, NEW y \in Reading, x.station = y.station, x.at = y.at
  PROVE  x = y
BY ReadingAssumption

-----------------------------------------------------------------------------
(* The latest readings. *)

\* T has a reading of s as late as t.
Reached(T, s, t) == \E y \in T : y.station = s /\ y.at >= t

\* One reading of each station.
LEMMA LatestIsUnique ==
  ASSUME NEW T \in SUBSET Reading,
         NEW x \in LatestPerStation(T), NEW y \in LatestPerStation(T),
         x.station = y.station
  PROVE  x = y
<1>1. x \in Reading /\ y \in Reading /\ x.at <= y.at /\ y.at <= x.at
  BY DEF LatestPerStation
<1>2. x.at \in Int /\ y.at \in Int
  BY <1>1, ReadingFacts
<1>3. x.at = y.at
  BY <1>1, <1>2
<1> QED
  BY <1>1, <1>3, ReadingEqual

\* No station is lost by taking the latest readings, and no time.
LEMMA LatestReaches ==
  ASSUME NEW T \in SUBSET Reading, NEW x \in T
  PROVE  Reached(LatestPerStation(T), x.station, x.at)
<1> DEFINE Here == {y \in T : y.station = x.station}
           Gap == {MaxClock - y.at : y \in Here}
<1>1. \A y \in Here : y.at \in Int /\ MaxClock - y.at \in Nat
  BY ReadingFacts, MaxClockAssumption DEF Time
<1>2. Gap \subseteq Nat /\ Gap # {}
  BY <1>1
<1>3. PICK g \in Gap : \A h \in Gap : g <= h
  BY <1>2, LeastNat
<1>4. PICK z \in Here : g = MaxClock - z.at
  BY <1>3
<1>5. \A y \in Here : MaxClock - z.at <= MaxClock - y.at
  BY <1>3, <1>4
<1>6. \A y \in Here : y.at <= z.at
  BY <1>1, <1>4, <1>5, MaxClockAssumption
<1>7. z \in LatestPerStation(T)
  BY <1>4, <1>6 DEF LatestPerStation
<1> QED
  BY <1>4, <1>6, <1>7 DEF Reached

\* The cached fallback reaches whatever the repository could give.
LEMMA FreshLatestReaches ==
  ASSUME NEW T \in SUBSET Reading, NEW t \in Time, NEW x \in Reading,
         Reached(T, x.station, x.at), IsFresh(x, t)
  PROVE  Reached({y \in LatestPerStation(T) : IsFresh(y, t)}, x.station, x.at)
<1>1. PICK y \in T : y.station = x.station /\ y.at >= x.at
  BY DEF Reached
<1>2. PICK z \in LatestPerStation(T) : z.station = y.station /\ z.at >= y.at
  BY LatestReaches DEF Reached
<1>3. z \in Reading
  BY <1>2 DEF LatestPerStation
<1>4. x.at \in Int /\ y.at \in Int /\ z.at \in Int /\ t \in Int
  BY <1>1, <1>3, ReadingFacts, MaxClockAssumption DEF Time
<1>5. z.at >= x.at /\ IsFresh(z, t)
  BY <1>1, <1>2, <1>4, MaxAgeAssumption DEF IsFresh
<1> QED
  BY <1>1, <1>2, <1>5 DEF Reached

LEMMA RememberedFacts ==
  /\ Remembered \in SUBSET Reading
  /\ \A t : Cached(t) \in SUBSET Remembered
BY DEF Remembered, Cached, LatestPerStation

LEMMA ObservationsFacts ==
  ASSUME TypeOK, NEW r \in Request
  PROVE  /\ Observations(r) \in SUBSET payload[r]
         /\ Observations(r) \in SUBSET Reading
         /\ \A x \in Observations(r) : IsFresh(x, now[r])
         /\ \A x, y \in Observations(r) : x.station = y.station => x = y
<1>1. payload[r] \in SUBSET Reading
  BY DEF TypeOK
<1>2. \A x \in Observations(r) : x \in LatestPerStation(payload[r])
  BY DEF Observations
<1> QED
  BY <1>1, <1>2, LatestIsUnique DEF Observations, LatestPerStation

\* The observations of a request are its own.
LEMMA ObservationsStay ==
  ASSUME NEW r, payload'[r] = payload[r], now'[r] = now[r]
  PROVE  Observations(r)' = Observations(r)
BY DEF Observations, LatestPerStation, IsFresh

-----------------------------------------------------------------------------
(* Types. *)

LEMMA ForgetTypes ==
  ASSUME TypeOK, NEW r \in Request, Forget(r)
  PROVE  /\ step' \in [Request -> {"idle", "ask", "deliver", "delete", "insert", "cache"}]
         /\ now' \in [Request -> Time]
         /\ payload' \in [Request -> SUBSET Reading]
         /\ failed' \in [Request -> BOOLEAN]
         /\ base' \in [Request -> [Station -> Time]]
         /\ known' \in [Request -> SUBSET Reading]
         /\ step'[r] = "idle" /\ payload'[r] = {} /\ known'[r] = {}
         /\ base'[r] = [s \in Station |-> 0]
         /\ \A q \in Request : q # r =>
              /\ step'[q] = step[q] /\ now'[q] = now[q] /\ payload'[q] = payload[q]
              /\ base'[q] = base[q] /\ known'[q] = known[q]
<1>1. 0 \in Time
  BY MaxClockAssumption DEF Time
<1> QED
  BY <1>1 DEF Forget, TypeOK

\* What was returned last only grows, by readings that are returned.
LEMMA LatestShownFacts ==
  ASSUME TypeOK, NEW readings \in SUBSET Reading, NEW s \in Station
  PROVE  /\ LatestShown(readings)[s] \in Time
         /\ LatestShown(readings)[s] >= shown[s]
         /\ \/ LatestShown(readings)[s] = shown[s]
            \/ \E x \in readings : x.station = s /\ x.at = LatestShown(readings)[s]
<1> DEFINE later == {x \in readings : x.station = s /\ x.at > shown[s]}
<1>1. shown[s] \in Time /\ shown[s] \in Int
  BY MaxClockAssumption DEF TypeOK, Time
<1>2. LatestShown(readings)[s] =
        IF later = {} THEN shown[s] ELSE (CHOOSE x \in later : TRUE).at
  BY DEF LatestShown
<1>3. CASE later = {}
  BY <1>1, <1>2, <1>3
<1>4. CASE later # {}
  <2>1. PICK x \in later : LatestShown(readings)[s] = x.at
    <3>1. (CHOOSE x \in later : TRUE) \in later
      BY <1>4
    <3> QED
      BY <1>2, <1>4, <3>1
  <2>2. x.at \in Time /\ x.at \in Int
    BY ReadingFacts
  <2> QED
    BY <1>1, <2>1, <2>2
<1> QED
  BY <1>3, <1>4

LEMMA AnswerTypes ==
  ASSUME TypeOK, NEW r \in Request, NEW readings \in SUBSET Reading,
         NEW live \in BOOLEAN, NEW raised \in BOOLEAN,
         Answer(r, readings, live, raised), store' \in [Reading -> Nat]
  PROVE  TypeOK'
<1>1. shown' \in [Station -> Time]
  <2>1. shown' = LatestShown(readings)
    BY DEF Answer
  <2>2. \A s \in Station : LatestShown(readings)[s] \in Time
    BY LatestShownFacts
  <2> QED
    BY <2>1, <2>2 DEF LatestShown
<1>2. answer' \in [stations : SUBSET Reading, source : Source, live : BOOLEAN,
                   failed : BOOLEAN, now : Time, base : [Station -> Time],
                   known : SUBSET Reading]
  BY DEF Answer, TypeOK, Source
<1>3. /\ step' \in [Request -> {"idle", "ask", "deliver", "delete", "insert", "cache"}]
      /\ now' \in [Request -> Time]
      /\ payload' \in [Request -> SUBSET Reading]
      /\ failed' \in [Request -> BOOLEAN]
      /\ base' \in [Request -> [Station -> Time]]
      /\ known' \in [Request -> SUBSET Reading]
      /\ step'[r] = "idle" /\ payload'[r] = {} /\ known'[r] = {}
      /\ \A q \in Request : q # r =>
           step'[q] = step[q] /\ now'[q] = now[q] /\ payload'[q] = payload[q]
           /\ known'[q] = known[q]
  BY ForgetTypes DEF Answer
<1>4. \A q \in Request : step'[q] \in {"delete", "insert"} => Observations(q)' # {}
  <2> SUFFICES ASSUME NEW q \in Request, step'[q] \in {"delete", "insert"}
               PROVE  Observations(q)' # {}
    OBVIOUS
  <2>1. q # r
    BY <1>3
  <2>2. Observations(q)' = Observations(q)
    BY <1>3, <2>1, ObservationsStay
  <2> QED
    BY <1>3, <2>1, <2>2 DEF TypeOK
<1>5. \A q \in Request : step'[q] = "idle" => payload'[q] = {} /\ known'[q] = {}
  BY <1>3 DEF TypeOK
<1>6. /\ clock' \in Time
      /\ measured' \in SUBSET Reading
      /\ backend' \in {"dry_run", "mongo"}
      /\ overlap' \in BOOLEAN
  BY DEF Answer, TypeOK
<1> QED
  BY <1>1, <1>2, <1>3, <1>4, <1>5, <1>6 DEF TypeOK

LEMMA NoAnswerType ==
  NoAnswer \in [stations : SUBSET Reading, source : Source, live : BOOLEAN,
                failed : BOOLEAN, now : Time, base : [Station -> Time],
                known : SUBSET Reading]
<1>1. 0 \in Time
  BY MaxClockAssumption DEF Time
<1> QED
  BY <1>1 DEF NoAnswer, Source

\* A step that moves one request on and leaves its response alone keeps the types.
LEMMA StepTypes ==
  ASSUME TypeOK, NEW r \in Request,
         NEW next \in {"ask", "deliver", "delete", "insert", "cache"},
         step' = [step EXCEPT ![r] = next],
         payload' = payload, now' = now, known' = known,
         next \in {"delete", "insert"} => Observations(r) # {}
  PROVE  /\ step' \in [Request -> {"idle", "ask", "deliver", "delete", "insert", "cache"}]
         /\ \A q \in Request : step'[q] \in {"delete", "insert"} => Observations(q)' # {}
         /\ \A q \in Request : step'[q] = "idle" => payload'[q] = {} /\ known'[q] = {}
<1>1. step' \in [Request -> {"idle", "ask", "deliver", "delete", "insert", "cache"}]
  BY DEF TypeOK
<1>2. \A q \in Request : Observations(q)' = Observations(q)
  BY ObservationsStay
<1>3. \A q \in Request : step'[q] \in {"delete", "insert"} => Observations(q)' # {}
  BY <1>2 DEF TypeOK
<1> QED
  BY <1>1, <1>3 DEF TypeOK

\* Every variable keeps its type.
THEOREM TypeCorrect == Spec => []TypeOK
<1>1. Init => TypeOK
  <2> SUFFICES ASSUME Init
               PROVE  TypeOK
    OBVIOUS
  <2>1. 0 \in Time
    BY MaxClockAssumption DEF Time
  <2> QED
    BY <2>1, NoAnswerType DEF Init, TypeOK
<1>2. TypeOK /\ [Next]_vars => TypeOK'
  <2> SUFFICES ASSUME TypeOK, [Next]_vars
               PROVE  TypeOK'
    OBVIOUS
  <2>1. CASE UNCHANGED <<clock, measured, backend, store, request, shown, overlap>>
             /\ answer' \in {answer, NoAnswer}
    <3>1. \A q \in Request : Observations(q)' = Observations(q)
      BY <2>1, ObservationsStay DEF request
    <3> QED
      BY <2>1, <3>1, NoAnswerType DEF TypeOK, request
  <2>2. CASE Tick
    <3>1. \A q \in Request : Observations(q)' = Observations(q)
      BY <2>2, ObservationsStay DEF Tick, request
    <3>2. clock' \in Time
      BY <2>2, MaxClockAssumption DEF Tick, Time, TypeOK
    <3> QED
      BY <2>2, <3>1, <3>2, NoAnswerType DEF TypeOK, Tick, request
  <2>3. ASSUME NEW x \in Reading, Measure(x)
        PROVE  TypeOK'
    <3>1. \A q \in Request : Observations(q)' = Observations(q)
      BY <2>3, ObservationsStay DEF Measure, request
    <3> QED
      BY <2>3, <3>1, NoAnswerType DEF TypeOK, Measure, request
  <2>4. CASE Restart
    <3>1. 0 \in Time
      BY MaxClockAssumption DEF Time
    <3> QED
      BY <2>4, <3>1, NoAnswerType DEF TypeOK, Restart
  <2>5. ASSUME NEW r \in Request, Begin(r)
        PROVE  TypeOK'
    <3>1. \A q \in Request : q # r => Observations(q)' = Observations(q)
      BY <2>5, ObservationsStay DEF Begin, TypeOK
    <3>2. Cached(clock) \in SUBSET Reading
      BY RememberedFacts
    <3> QED
      BY <2>5, <3>1, <3>2, NoAnswerType DEF TypeOK, Begin
  <2>6. ASSUME NEW r \in Request, NEW S \in SUBSET Station, Respond(r, S)
        PROVE  TypeOK'
    <3>1. \A q \in Request : q # r => Observations(q)' = Observations(q)
      BY <2>6, ObservationsStay DEF Respond, TypeOK
    <3> QED
      BY <2>6, <3>1, NoAnswerType DEF TypeOK, Respond
  <2>7. ASSUME NEW r \in Request, FetchRaisesDryRun(r)
        PROVE  TypeOK'
    <3>1. Cached(now[r]) \in SUBSET Reading
      BY RememberedFacts
    <3> QED
      BY <2>7, <3>1, AnswerTypes DEF FetchRaisesDryRun, TypeOK
  <2>8. ASSUME NEW r \in Request, FetchRaisesMongo(r)
        PROVE  TypeOK'
    <3>1. \A q \in Request : q # r => Observations(q)' = Observations(q)
      BY <2>8, ObservationsStay DEF FetchRaisesMongo, TypeOK
    <3> QED
      BY <2>8, <3>1, NoAnswerType DEF TypeOK, FetchRaisesMongo
  <2>9. ASSUME NEW r \in Request, DeliverDryRun(r)
        PROVE  TypeOK'
    <3>1. Cached(now[r]) \in SUBSET Reading /\ Observations(r) \in SUBSET Reading
      BY RememberedFacts, ObservationsFacts
    <3>2. store' \in [Reading -> Nat]
      BY <2>9 DEF DeliverDryRun, TypeOK
    <3> QED
      BY <2>9, <3>1, <3>2, AnswerTypes DEF DeliverDryRun
  <2>10. ASSUME NEW r \in Request, DeliverMongo(r)
         PROVE  TypeOK'
    <3>1. PICK next \in {"delete", "cache"} :
            /\ step' = [step EXCEPT ![r] = next]
            /\ next = "delete" => Observations(r) # {}
      BY <2>10 DEF DeliverMongo
    <3> QED
      BY <2>10, <3>1, StepTypes, NoAnswerType DEF DeliverMongo, TypeOK
  <2>11. ASSUME NEW r \in Request, Delete(r)
         PROVE  TypeOK'
    <3>1. Deleted(r) \in [Reading -> Nat]
      BY DEF Deleted, TypeOK
    <3>2. Observations(r) # {}
      BY <2>11 DEF Delete, TypeOK
    <3> QED
      BY <2>11, <3>1, <3>2, StepTypes, NoAnswerType DEF Delete, TypeOK
  <2>12. ASSUME NEW r \in Request, NEW stored \in SUBSET Observations(r),
                Insert(r, stored)
         PROVE  TypeOK'
    <3>1. store' \in [Reading -> Nat]
      BY <2>12 DEF Insert, TypeOK
    <3> QED
      BY <2>12, <3>1, AnswerTypes, ObservationsFacts DEF Insert
  <2>13. ASSUME NEW r \in Request, DeleteRaises(r)
         PROVE  TypeOK'
    <3>1. store' \in [Reading -> Nat]
      BY <2>13 DEF DeleteRaises, Deleted, TypeOK
    <3> QED
      BY <2>13, <3>1, AnswerTypes, ObservationsFacts DEF DeleteRaises
  <2>14. ASSUME NEW r \in Request, ReadCache(r)
         PROVE  TypeOK'
    <3>1. Cached(now[r]) \in SUBSET Reading
      BY RememberedFacts
    <3>2. failed[r] \in BOOLEAN /\ FALSE \in BOOLEAN
      BY DEF TypeOK
    <3>3. store' \in [Reading -> Nat]
      BY <2>14 DEF ReadCache, TypeOK
    <3>4. Answer(r, Cached(now[r]), FALSE, failed[r])
      BY <2>14 DEF ReadCache
    <3> QED
      BY <3>1, <3>2, <3>3, <3>4, AnswerTypes, Zenon
  <2> QED
    BY <2>1, <2>2, <2>3, <2>4, <2>5, <2>6, <2>7, <2>8, <2>9, <2>10, <2>11, <2>12, <2>13,
       <2>14 DEF Next, vars
<1> QED
  BY <1>1, <1>2, PTL DEF Spec

-----------------------------------------------------------------------------
(* What ThaiWater has, what was returned and what is remembered, in order. *)

\* A step that ends request r, as an answer does.
Ends(r, readings) ==
  \E live, raised \in BOOLEAN : Answer(r, readings, live, raised)

\* No station goes back at ThaiWater, and what has been seen of it, remembered or
\* returned is no later than what it has.
MeasuredInv ==
  /\ \A x, y \in measured : x.station = y.station => x = y
  /\ \A s \in Station : shown[s] = 0 \/ Reached(measured, s, shown[s])
  /\ \A r \in Request : \A x \in payload[r] : Reached(measured, x.station, x.at)
  /\ \A x \in Remembered : Reached(measured, x.station, x.at)

\* A request began after what it must not step back behind was returned, and
\* before its response was made.
BaseInv ==
  /\ \A r \in Request : \A s \in Station : base[r][s] <= shown[s]
  /\ \A r \in Request : \A x \in payload[r] : x.at >= base[r][x.station]

\* The dictionary either remembers what was returned of a station last, or was
\* emptied since, and then nothing was returned since the requests in progress
\* began.
DictionaryInv ==
  backend = "dry_run" =>
    /\ \A r \in Request : step[r] \in {"idle", "ask", "deliver"}
    /\ \A s \in Station :
         \/ Reached(Remembered, s, shown[s])
         \/ /\ \A x \in Remembered : x.station # s
            /\ \A r \in Request : step[r] # "idle" => base[r][s] = shown[s]
    /\ \A r \in Request : \A x \in known[r] : Reached(Remembered, x.station, x.at)

\* What the repository could give was fresh; the collection gives nothing.
KnownInv ==
  \A r \in Request :
    /\ \A x \in known[r] : IsFresh(x, now[r])
    /\ backend = "mongo" => known[r] = {}

Invariant == MeasuredInv /\ BaseInv /\ DictionaryInv /\ KnownInv

LEMMA ReachedMonotone ==
  ASSUME NEW T \in SUBSET Reading, NEW U \in SUBSET Reading,
         \A x \in T : Reached(U, x.station, x.at),
         NEW s, NEW t \in Int, Reached(T, s, t)
  PROVE  Reached(U, s, t)
<1>1. PICK y \in T : y.station = s /\ y.at >= t
  BY DEF Reached
<1>2. PICK z \in U : z.station = y.station /\ z.at >= y.at
  BY <1>1 DEF Reached
<1>3. y.at \in Int /\ z.at \in Int
  BY ReadingFacts
<1> QED
  BY <1>1, <1>2, <1>3 DEF Reached

LEMMA ReachedItself ==
  ASSUME NEW T \in SUBSET Reading, NEW x \in T
  PROVE  Reached(T, x.station, x.at)
BY ReadingFacts DEF Reached

\* What a request may answer: readings no later than ThaiWater has, each no older
\* than what was returned of its station before the request began.
LEMMA AnswerKeepsMeasured ==
  ASSUME TypeOK, MeasuredInv, NEW r \in Request, NEW readings \in SUBSET Reading,
         Ends(r, readings),
         \A x \in readings : Reached(measured, x.station, x.at),
         \A x \in Remembered' : Reached(measured, x.station, x.at)
  PROVE  MeasuredInv'
<1>1. PICK live \in BOOLEAN, raised \in BOOLEAN : Answer(r, readings, live, raised)
  BY DEF Ends
<1>2. /\ measured' = measured
      /\ shown' = LatestShown(readings)
      /\ \A q \in Request : payload'[q] \in {payload[q], {}}
  BY <1>1, ForgetTypes DEF Answer
<1>3. \A s \in Station : shown'[s] = 0 \/ Reached(measured, s, shown'[s])
  BY <1>2, LatestShownFacts DEF MeasuredInv
<1>4. \A q \in Request : \A x \in payload'[q] : Reached(measured, x.station, x.at)
  BY <1>2 DEF MeasuredInv
<1> QED
  BY <1>2, <1>3, <1>4 DEF MeasuredInv, Reached

LEMMA AnswerKeepsBase ==
  ASSUME TypeOK, BaseInv, NEW r \in Request, NEW readings \in SUBSET Reading,
         Ends(r, readings)
  PROVE  BaseInv'
<1>1. PICK live \in BOOLEAN, raised \in BOOLEAN : Answer(r, readings, live, raised)
  BY DEF Ends
<1>2. /\ shown' = LatestShown(readings)
      /\ base'[r] = [s \in Station |-> 0]
      /\ payload'[r] = {}
      /\ \A q \in Request : q # r => payload'[q] = payload[q] /\ base'[q] = base[q]
  BY <1>1, ForgetTypes DEF Answer
<1>3. \A s \in Station : shown'[s] >= shown[s] /\ shown'[s] \in Nat /\ shown[s] \in Nat
  BY <1>2, LatestShownFacts, MaxClockAssumption DEF TypeOK, Time
<1>4. \A q \in Request : \A s \in Station : base'[q][s] <= shown'[s]
  <2> SUFFICES ASSUME NEW q \in Request, NEW s \in Station
               PROVE  base'[q][s] <= shown'[s]
    OBVIOUS
  <2>1. CASE q = r
    BY <1>2, <1>3, <2>1
  <2>2. CASE q # r
    <3>1. base[q][s] \in Int
      BY MaxClockAssumption DEF TypeOK, Time
    <3> QED
      BY <1>2, <1>3, <2>2, <3>1 DEF BaseInv
  <2> QED
    BY <2>1, <2>2
<1>5. \A q \in Request : \A x \in payload'[q] : x.at >= base'[q][x.station]
  BY <1>2 DEF BaseInv
<1> QED
  BY <1>4, <1>5 DEF BaseInv

LEMMA AnswerKeepsKnown ==
  ASSUME TypeOK, KnownInv, NEW r \in Request, NEW readings \in SUBSET Reading,
         Ends(r, readings)
  PROVE  KnownInv'
<1>1. PICK live \in BOOLEAN, raised \in BOOLEAN : Answer(r, readings, live, raised)
  BY DEF Ends
<1>2. /\ backend' = backend
      /\ known'[r] = {}
      /\ \A q \in Request : q # r => now'[q] = now[q] /\ known'[q] = known[q]
  BY <1>1, ForgetTypes DEF Answer
<1> QED
  BY <1>2 DEF KnownInv, IsFresh

\* With the dictionary: what is answered is remembered, and nothing is forgotten.
LEMMA AnswerKeepsDictionary ==
  ASSUME TypeOK, BaseInv, DictionaryInv, NEW r \in Request, backend = "dry_run",
         NEW readings \in SUBSET Reading, Ends(r, readings), step[r] # "idle",
         Remembered' = Remembered \cup readings,
         \A x \in readings : x.at >= base[r][x.station]
  PROVE  DictionaryInv'
<1>1. PICK live \in BOOLEAN, raised \in BOOLEAN : Answer(r, readings, live, raised)
  BY DEF Ends
<1>2. /\ backend' = backend
      /\ shown' = LatestShown(readings)
      /\ step'[r] = "idle" /\ known'[r] = {}
      /\ \A q \in Request : q # r =>
           step'[q] = step[q] /\ base'[q] = base[q] /\ known'[q] = known[q]
  BY <1>1, ForgetTypes DEF Answer
<1>3. \A x \in Remembered : Reached(Remembered', x.station, x.at)
  BY ReachedItself, RememberedFacts DEF Reached
<1>4. \A q \in Request : \A x \in known'[q] : Reached(Remembered', x.station, x.at)
  <2> SUFFICES ASSUME NEW q \in Request, NEW x \in known'[q]
               PROVE  Reached(Remembered', x.station, x.at)
    OBVIOUS
  <2>1. x \in known[q]
    BY <1>2
  <2>2. Reached(Remembered, x.station, x.at)
    BY <2>1 DEF DictionaryInv
  <2> QED
    BY <2>2 DEF Reached
<1>5. ASSUME NEW s \in Station
      PROVE  \/ Reached(Remembered', s, shown'[s])
             \/ /\ \A x \in Remembered' : x.station # s
                /\ \A q \in Request : step'[q] # "idle" => base'[q][s] = shown'[s]
  <2>1. shown[s] \in Int /\ shown'[s] \in Int /\ shown'[s] >= shown[s]
    BY <1>2, LatestShownFacts, MaxClockAssumption DEF TypeOK, Time
  <2>2. CASE \E x \in readings : x.station = s /\ x.at = shown'[s]
    BY <2>1, <2>2 DEF Reached
  <2>3. CASE shown'[s] = shown[s] /\ Reached(Remembered, s, shown[s])
    BY <2>3 DEF Reached
  <2>4. CASE /\ shown'[s] = shown[s]
             /\ \A x \in Remembered : x.station # s
             /\ \A q \in Request : step[q] # "idle" => base[q][s] = shown[s]
    <3>1. CASE \E x \in readings : x.station = s
      BY <2>4, <3>1 DEF Reached
    <3>2. CASE \A x \in readings : x.station # s
      BY <1>2, <2>4, <3>2
    <3> QED
      BY <3>1, <3>2
  <2>5. \/ shown'[s] = shown[s]
        \/ \E x \in readings : x.station = s /\ x.at = shown'[s]
    BY <1>2, LatestShownFacts
  <2> QED
    BY <2>2, <2>3, <2>4, <2>5 DEF DictionaryInv
<1>6. \A q \in Request : step'[q] \in {"idle", "ask", "deliver"}
  BY <1>2 DEF DictionaryInv
<1> QED
  BY <1>4, <1>5, <1>6 DEF DictionaryInv

\* The fallback, with the dictionary, gives nothing older than was returned before.
LEMMA CachedReaches ==
  ASSUME TypeOK, BaseInv, DictionaryInv, NEW r \in Request, backend = "dry_run",
         step[r] # "idle", NEW x \in Cached(now[r])
  PROVE  x.at >= base[r][x.station]
<1>1. x \in LatestPerStation(Remembered) /\ x \in Reading
  BY RememberedFacts DEF Cached
<1>2. x \in Remembered /\ \A y \in Remembered : y.station = x.station => y.at <= x.at
  BY <1>1 DEF LatestPerStation
<1>3. x.station \in Station /\ x.at \in Int
  BY <1>1, ReadingFacts
<1>4. base[r][x.station] \in Int /\ shown[x.station] \in Int
      /\ base[r][x.station] <= shown[x.station]
  BY <1>3, MaxClockAssumption DEF TypeOK, Time, BaseInv
<1>5. PICK y \in Remembered : y.station = x.station /\ y.at >= shown[x.station]
  BY <1>2, <1>3 DEF DictionaryInv, Reached
<1>6. y.at \in Int /\ y.at <= x.at
  BY <1>2, <1>5, RememberedFacts, ReadingFacts
<1> QED
  BY <1>3, <1>4, <1>5, <1>6

\* A step that answers nothing and only moves request r on keeps the invariant.
LEMMA MoveKeeps ==
  ASSUME TypeOK, Invariant, NEW r \in Request, backend = "mongo",
         UNCHANGED <<measured, backend, now, base, known, shown>>,
         \A q \in Request : payload'[q] \in {payload[q], {}},
         \A x \in Remembered' : x \in Remembered
  PROVE  Invariant'
<1>1. MeasuredInv'
  <2>1. \A q \in Request : \A x \in payload'[q] : Reached(measured, x.station, x.at)
    BY DEF Invariant, MeasuredInv
  <2> QED
    BY <2>1 DEF Invariant, MeasuredInv, Reached
<1>2. BaseInv'
  BY DEF Invariant, BaseInv
<1>3. DictionaryInv'
  BY DEF DictionaryInv
<1>4. KnownInv'
  BY DEF Invariant, KnownInv, IsFresh
<1> QED
  BY <1>1, <1>2, <1>3, <1>4 DEF Invariant

\* The collection: what is stored was in a response, and is answered.
LEMMA AnswerMongoKeeps ==
  ASSUME TypeOK, Invariant, NEW r \in Request, backend = "mongo",
         NEW readings \in SUBSET payload[r], Ends(r, readings),
         Remembered' \in SUBSET (Remembered \cup readings)
  PROVE  Invariant'
<1>1. readings \in SUBSET Reading
  BY DEF TypeOK
<1>2. \A x \in readings : Reached(measured, x.station, x.at)
  BY DEF Invariant, MeasuredInv
<1>3. \A x \in Remembered' : Reached(measured, x.station, x.at)
  BY <1>2 DEF Invariant, MeasuredInv
<1>4. backend' = "mongo"
  BY DEF Ends, Answer
<1> QED
  BY <1>1, <1>2, <1>3, <1>4, AnswerKeepsMeasured, AnswerKeepsBase, AnswerKeepsKnown
  DEF Invariant, DictionaryInv

LEMMA AnswerDryRunKeeps ==
  ASSUME TypeOK, Invariant, NEW r \in Request, backend = "dry_run",
         step[r] # "idle",
         NEW readings \in SUBSET Reading, Ends(r, readings),
         readings \in SUBSET payload[r] \/ readings \in SUBSET Cached(now[r]),
         Remembered' = Remembered \cup readings
  PROVE  Invariant'
<1>1. \A x \in readings : Reached(measured, x.station, x.at)
  BY RememberedFacts DEF Invariant, MeasuredInv
<1>2. \A x \in Remembered' : Reached(measured, x.station, x.at)
  BY <1>1 DEF Invariant, MeasuredInv
<1>3. \A x \in readings : x.at >= base[r][x.station]
  BY CachedReaches DEF Invariant, BaseInv
<1> QED
  BY <1>1, <1>2, <1>3, AnswerKeepsMeasured, AnswerKeepsBase, AnswerKeepsKnown,
     AnswerKeepsDictionary DEF Invariant

LEMMA MeasureKeeps ==
  ASSUME TypeOK, Invariant, NEW x \in Reading, Measure(x)
  PROVE  Invariant'
<1>1. /\ measured' = {y \in measured : y.station # x.station} \cup {x}
      /\ \A y \in measured : y.station = x.station => y.at < x.at
      /\ UNCHANGED <<backend, store, step, now, payload, base, known, shown>>
  BY DEF Measure, request
<1>2. measured \in SUBSET Reading /\ measured' \in SUBSET Reading
  BY <1>1 DEF TypeOK
<1>3. \A y \in measured : Reached(measured', y.station, y.at)
  <2> SUFFICES ASSUME NEW y \in measured
               PROVE  Reached(measured', y.station, y.at)
    OBVIOUS
  <2>1. y.at \in Int /\ x.at \in Int
    BY <1>2, ReadingFacts
  <2> QED
    BY <1>1, <2>1 DEF Reached
<1>4. \A s \in Station : shown[s] = 0 \/ Reached(measured', s, shown[s])
  <2> SUFFICES ASSUME NEW s \in Station, Reached(measured, s, shown[s])
               PROVE  Reached(measured', s, shown[s])
    BY DEF Invariant, MeasuredInv
  <2>1. shown[s] \in Int
    BY MaxClockAssumption DEF TypeOK, Time
  <2> QED
    BY <1>2, <1>3, <2>1, ReachedMonotone
<1>5. \A y \in Reading : Reached(measured, y.station, y.at) => Reached(measured', y.station, y.at)
  BY <1>2, <1>3, ReachedMonotone, ReadingFacts
<1>6. Remembered' = Remembered
  BY <1>1 DEF Remembered
<1>7. MeasuredInv'
  <2>1. \A r \in Request : \A y \in payload[r] : y \in Reading
    BY DEF TypeOK
  <2>2. \A y, z \in measured' : y.station = z.station => y = z
    BY <1>1 DEF Invariant, MeasuredInv
  <2> QED
    BY <1>1, <1>4, <1>5, <1>6, <2>1, <2>2, RememberedFacts DEF Invariant, MeasuredInv
<1>8. BaseInv' /\ KnownInv' /\ DictionaryInv'
  BY <1>1, <1>6 DEF Invariant, BaseInv, KnownInv, DictionaryInv, IsFresh, Reached
<1> QED
  BY <1>7, <1>8 DEF Invariant

LEMMA BeginKeeps ==
  ASSUME TypeOK, Invariant, NEW r \in Request, Begin(r)
  PROVE  Invariant'
<1>1. /\ UNCHANGED <<measured, backend, store, payload, shown>>
      /\ step[r] = "idle" /\ step'[r] = "ask" /\ now'[r] = clock
      /\ base'[r] = shown /\ known'[r] = Cached(clock) /\ payload[r] = {}
      /\ \A q \in Request : q # r =>
           step'[q] = step[q] /\ now'[q] = now[q] /\ base'[q] = base[q] /\ known'[q] = known[q]
  BY DEF Begin, TypeOK
<1>2. Remembered' = Remembered
  BY <1>1 DEF Remembered
<1>3. MeasuredInv'
  BY <1>1, <1>2 DEF Invariant, MeasuredInv, Reached
<1>4. BaseInv'
  <2>1. \A s \in Station : shown[s] \in Int
    BY MaxClockAssumption DEF TypeOK, Time
  <2> QED
    BY <1>1, <2>1 DEF Invariant, BaseInv
<1>5. \A x \in Cached(clock) : Reached(Remembered, x.station, x.at) /\ IsFresh(x, clock)
  <2>1. \A x \in Cached(clock) : IsFresh(x, clock)
    BY DEF Cached
  <2> QED
    BY <2>1, RememberedFacts, ReachedItself
<1>6. DictionaryInv'
  <2>1. \A s \in Station : shown[s] = shown'[s]
    BY <1>1
  <2> QED
    BY <1>1, <1>2, <1>5, <2>1 DEF Invariant, DictionaryInv, Reached
<1>7. KnownInv'
  <2>1. backend = "mongo" => Cached(clock) = {}
    BY DEF Cached
  <2> QED
    BY <1>1, <1>5, <2>1 DEF Invariant, KnownInv, IsFresh
<1> QED
  BY <1>3, <1>4, <1>6, <1>7 DEF Invariant

LEMMA RespondKeeps ==
  ASSUME TypeOK, Invariant, NEW r \in Request, NEW S \in SUBSET Station, Respond(r, S)
  PROVE  Invariant'
<1>1. /\ UNCHANGED <<measured, backend, store, now, base, known, shown>>
      /\ step[r] = "ask" /\ step'[r] = "deliver"
      /\ payload'[r] = {x \in measured : x.station \in S}
      /\ \A q \in Request : q # r => step'[q] = step[q] /\ payload'[q] = payload[q]
  BY DEF Respond, TypeOK
<1>2. Remembered' = Remembered /\ measured \in SUBSET Reading
  BY <1>1 DEF Remembered, TypeOK
<1>3. MeasuredInv'
  BY <1>1, <1>2, ReachedItself DEF Invariant, MeasuredInv, Reached
<1>4. ASSUME NEW x \in measured
      PROVE  x.at >= base[r][x.station]
  <2>1. x.station \in Station /\ x.at \in Int /\ 0 <= x.at
    BY <1>2, ReadingFacts
  <2>2. base[r][x.station] \in Int /\ shown[x.station] \in Int
        /\ base[r][x.station] <= shown[x.station]
    BY <2>1, MaxClockAssumption DEF TypeOK, Time, Invariant, BaseInv
  <2>3. CASE shown[x.station] = 0
    BY <2>1, <2>2, <2>3
  <2>4. CASE Reached(measured, x.station, shown[x.station])
    BY <2>1, <2>2, <2>4 DEF Reached, Invariant, MeasuredInv
  <2> QED
    BY <2>1, <2>3, <2>4 DEF Invariant, MeasuredInv
<1>5. BaseInv'
  BY <1>1, <1>4 DEF Invariant, BaseInv
<1>6. DictionaryInv' /\ KnownInv'
  BY <1>1, <1>2 DEF Invariant, DictionaryInv, KnownInv, IsFresh, Reached
<1> QED
  BY <1>3, <1>5, <1>6 DEF Invariant

LEMMA RestartKeeps ==
  ASSUME TypeOK, Invariant, Restart
  PROVE  Invariant'
<1>1. /\ UNCHANGED <<measured, backend, shown>>
      /\ \A q \in Request : /\ step'[q] = "idle" /\ payload'[q] = {} /\ known'[q] = {}
                             /\ base'[q] = [s \in Station |-> 0]
      /\ Remembered' \in SUBSET Remembered
      /\ backend = "dry_run" => Remembered' = {}
  BY DEF Restart, Remembered
<1>2. MeasuredInv'
  BY <1>1 DEF Invariant, MeasuredInv, Reached
<1>3. BaseInv'
  <2>1. \A s \in Station : 0 <= shown[s]
    BY MaxClockAssumption DEF TypeOK, Time
  <2> QED
    BY <1>1, <2>1 DEF BaseInv
<1>4. DictionaryInv' /\ KnownInv'
  BY <1>1 DEF DictionaryInv, KnownInv
<1> QED
  BY <1>2, <1>3, <1>4 DEF Invariant

\* The invariant the safety properties follow from.
THEOREM InvariantHolds == Spec => []Invariant
<1>1. Init => Invariant
  <2> SUFFICES ASSUME Init
               PROVE  Invariant
    OBVIOUS
  <2>1. Remembered = {}
    BY DEF Init, Remembered
  <2> QED
    BY <2>1 DEF Init, Invariant, MeasuredInv, BaseInv, DictionaryInv, KnownInv
<1>2. TypeOK /\ Invariant /\ [Next]_vars => Invariant'
  <2> SUFFICES ASSUME TypeOK, Invariant, [Next]_vars
               PROVE  Invariant'
    OBVIOUS
  <2>1. CASE Tick \/ UNCHANGED vars
    BY <2>1 DEF Tick, vars, request, Invariant, MeasuredInv, BaseInv, DictionaryInv, KnownInv,
                IsFresh, Reached, Remembered
  <2>2. CASE Restart
    BY <2>2, RestartKeeps
  <2>3. ASSUME NEW r \in Request, FetchRaisesDryRun(r)
        PROVE  Invariant'
    <3>1. Cached(now[r]) \in SUBSET Remembered /\ Remembered \in SUBSET Reading
      BY RememberedFacts
    <3>2. Ends(r, Cached(now[r])) /\ step[r] # "idle" /\ backend = "dry_run"
      BY <2>3 DEF FetchRaisesDryRun, Ends
    <3>3. Remembered' = Remembered \cup Cached(now[r])
      BY <2>3, <3>1 DEF FetchRaisesDryRun, Remembered
    <3> QED
      BY <3>1, <3>2, <3>3, AnswerDryRunKeeps
  <2>4. ASSUME NEW r \in Request, FetchRaisesMongo(r)
        PROVE  Invariant'
    BY <2>4, MoveKeeps DEF FetchRaisesMongo, TypeOK, Remembered
  <2>5. ASSUME NEW r \in Request, DeliverDryRun(r)
        PROVE  Invariant'
    <3> DEFINE readings == IF Observations(r) # {} THEN Observations(r) ELSE Cached(now[r])
    <3>1. /\ Cached(now[r]) \in SUBSET Remembered /\ Remembered \in SUBSET Reading
          /\ Observations(r) \in SUBSET payload[r] /\ Observations(r) \in SUBSET Reading
      BY RememberedFacts, ObservationsFacts
    <3>2. Ends(r, readings) /\ step[r] # "idle" /\ backend = "dry_run"
      BY <2>5 DEF DeliverDryRun, Ends
    <3>3. Remembered' = Remembered \cup Observations(r)
      BY <2>5, <3>1 DEF DeliverDryRun, Remembered, TypeOK
    <3>4. Remembered' = Remembered \cup readings
      BY <3>1, <3>3
    <3> QED
      BY <3>1, <3>2, <3>4, AnswerDryRunKeeps
  <2>6. ASSUME NEW r \in Request, DeliverMongo(r)
        PROVE  Invariant'
    BY <2>6, MoveKeeps DEF DeliverMongo, Remembered
  <2>7. ASSUME NEW r \in Request, Delete(r)
        PROVE  Invariant'
    <3>1. backend = "mongo"
      BY <2>7 DEF Delete, Invariant, DictionaryInv, TypeOK
    <3> QED
      BY <2>7, <3>1, MoveKeeps DEF Delete, Deleted, Remembered
  <2>8. ASSUME NEW r \in Request, NEW stored \in SUBSET Observations(r), Insert(r, stored)
        PROVE  Invariant'
    <3>1. backend = "mongo"
      BY <2>8 DEF Insert, Invariant, DictionaryInv, TypeOK
    <3>2. Ends(r, Observations(r)) /\ Observations(r) \in SUBSET payload[r]
      BY <2>8, ObservationsFacts DEF Insert, Ends
    <3>3. Remembered' \in SUBSET (Remembered \cup Observations(r))
      BY <2>8 DEF Insert, Remembered
    <3> QED
      BY <3>1, <3>2, <3>3, AnswerMongoKeeps
  <2>9. ASSUME NEW r \in Request, DeleteRaises(r)
        PROVE  Invariant'
    <3>1. backend = "mongo"
      BY <2>9 DEF DeleteRaises, Invariant, DictionaryInv, TypeOK
    <3>2. Ends(r, Observations(r)) /\ Observations(r) \in SUBSET payload[r]
      BY <2>9, ObservationsFacts DEF DeleteRaises, Ends
    <3>3. Remembered' \in SUBSET (Remembered \cup Observations(r))
      BY <2>9 DEF DeleteRaises, Deleted, Remembered
    <3> QED
      BY <3>1, <3>2, <3>3, AnswerMongoKeeps
  <2>10. ASSUME NEW r \in Request, ReadCache(r)
         PROVE  Invariant'
    <3>1. backend = "mongo" /\ Cached(now[r]) = {}
      BY <2>10 DEF ReadCache, Invariant, DictionaryInv, TypeOK, Cached
    <3>2. failed[r] \in BOOLEAN /\ FALSE \in BOOLEAN
      BY DEF TypeOK
    <3>3. Ends(r, Cached(now[r]))
      BY <2>10, <3>2, Zenon DEF ReadCache, Ends
    <3>4. Remembered' \in SUBSET (Remembered \cup Cached(now[r]))
      BY <2>10 DEF ReadCache, Remembered
    <3> QED
      BY <3>1, <3>3, <3>4, AnswerMongoKeeps
  <2> QED
    BY <2>1, <2>2, <2>3, <2>4, <2>5, <2>6, <2>7, <2>8, <2>9, <2>10, MeasureKeeps, BeginKeeps,
       RespondKeeps DEF Next
<1> QED
  BY <1>1, <1>2, TypeCorrect, PTL DEF Spec

-----------------------------------------------------------------------------
(* The answers. *)

\* No answer holds a reading older than one of its station returned before its
\* request began.
THEOREM NeverStepsBackAlways == Spec => []NeverStepsBack
<1>1. Init => NeverStepsBack
  BY DEF Init, NoAnswer, NeverStepsBack
<1>2. ASSUME TypeOK, Invariant, NEW r \in Request, NEW readings, Ends(r, readings),
             \/ readings = Observations(r)
             \/ readings = Cached(now[r]) /\ (backend = "mongo" \/ step[r] # "idle")
      PROVE  NeverStepsBack'
  <2>1. answer'.stations = readings /\ answer'.base = base[r]
    BY <1>2 DEF Ends, Answer
  <2>2. CASE readings = Observations(r)
    BY <1>2, <2>1, <2>2, ObservationsFacts DEF NeverStepsBack, Invariant, BaseInv
  <2>3. CASE readings = Cached(now[r]) /\ backend = "mongo"
    BY <2>1, <2>3 DEF Cached, NeverStepsBack
  <2>4. CASE readings = Cached(now[r]) /\ backend = "dry_run" /\ step[r] # "idle"
    BY <1>2, <2>1, <2>4, CachedReaches DEF NeverStepsBack, Invariant
  <2> QED
    BY <1>2, <2>2, <2>3, <2>4 DEF TypeOK
<1>3. TypeOK /\ Invariant /\ NeverStepsBack /\ [Next]_vars => NeverStepsBack'
  <2> SUFFICES ASSUME TypeOK, Invariant, NeverStepsBack, [Next]_vars
               PROVE  NeverStepsBack'
    OBVIOUS
  <2>1. CASE UNCHANGED answer \/ answer' = NoAnswer
    BY <2>1 DEF NeverStepsBack, NoAnswer
  <2>2. ASSUME NEW r \in Request,
               FetchRaisesDryRun(r) \/ DeliverDryRun(r)
        PROVE  NeverStepsBack'
    BY <1>2, <2>2 DEF FetchRaisesDryRun, DeliverDryRun, Ends
  <2>3. ASSUME NEW r \in Request,
               DeleteRaises(r) \/ \E stored \in SUBSET Observations(r) : Insert(r, stored)
        PROVE  NeverStepsBack'
    BY <1>2, <2>3 DEF DeleteRaises, Insert, Ends
  <2>4. ASSUME NEW r \in Request, ReadCache(r)
        PROVE  NeverStepsBack'
    <3>1. failed[r] \in BOOLEAN /\ FALSE \in BOOLEAN
      BY DEF TypeOK
    <3>2. Ends(r, Cached(now[r])) /\ step[r] # "idle"
      BY <2>4, <3>1, Zenon DEF ReadCache, Ends
    <3> QED
      BY <1>2, <3>2
  <2> QED
    BY <2>1, <2>2, <2>3, <2>4
    DEF Next, vars, Tick, Measure, Restart, Begin, Respond, FetchRaisesMongo, DeliverMongo, Delete
<1> QED
  BY <1>1, <1>3, TypeCorrect, InvariantHolds, PTL DEF Spec

\* An answer is what its source says it is, holds nothing too old, and leaves out no
\* station without a reason.
THEOREM AnswerJustifiedAlways == Spec => []AnswerJustified
<1>1. Init => AnswerJustified
  BY DEF Init, NoAnswer, AnswerJustified
<1>2. ASSUME TypeOK, NEW r \in Request, NEW readings \in SUBSET Reading,
             NEW live \in BOOLEAN, NEW raised \in BOOLEAN,
             Answer(r, readings, live, raised),
             \A x, y \in readings : x.station = y.station => x = y,
             \A x \in readings : IsFresh(x, now[r]),
             \/ live = TRUE /\ readings # {}
             \/ \A x \in known[r] : Reached(readings, x.station, x.at)
      PROVE  AnswerJustified'
  <2>1. /\ answer'.stations = readings /\ answer'.now = now[r] /\ answer'.live = live
        /\ answer'.known = known[r] /\ answer'.failed = raised
        /\ answer'.source = IF readings # {} THEN "fresh"
                            ELSE IF raised THEN "unavailable" ELSE "stale"
    BY <1>2 DEF Answer
  <2>2. \A x \in readings : x.at >= now[r] - MaxAge
    <3> SUFFICES ASSUME NEW x \in readings
                 PROVE  x.at >= now[r] - MaxAge
      OBVIOUS
    <3>1. x.at \in Int /\ now[r] \in Int
      BY <1>2, ReadingFacts, MaxClockAssumption DEF TypeOK, Time
    <3> QED
      BY <1>2, <3>1, MaxAgeAssumption DEF IsFresh
  <2> QED
    BY <1>2, <2>1, <2>2 DEF AnswerJustified, Reached
<1>3. TypeOK /\ Invariant /\ AnswerJustified /\ [Next]_vars => AnswerJustified'
  <2> SUFFICES ASSUME TypeOK, Invariant, AnswerJustified, [Next]_vars
               PROVE  AnswerJustified'
    OBVIOUS
  <2>1. CASE UNCHANGED answer \/ answer' = NoAnswer
    BY <2>1 DEF AnswerJustified, NoAnswer
  <2>booleans. FALSE \in BOOLEAN /\ TRUE \in BOOLEAN
    OBVIOUS
  <2>2. ASSUME NEW r \in Request
        PROVE  /\ Cached(now[r]) \in SUBSET Reading
               /\ \A x, y \in Cached(now[r]) : x.station = y.station => x = y
               /\ \A x \in Cached(now[r]) : IsFresh(x, now[r])
               /\ \A x \in known[r] : Reached(Cached(now[r]), x.station, x.at)
    <3>1. Cached(now[r]) \in SUBSET Reading /\ Remembered \in SUBSET Reading
      BY RememberedFacts
    <3>2. \A x, y \in Cached(now[r]) : x.station = y.station => x = y
      BY <3>1, LatestIsUnique DEF Cached
    <3>3. \A x \in Cached(now[r]) : IsFresh(x, now[r])
      BY DEF Cached
    <3>4. ASSUME NEW x \in known[r]
          PROVE  Reached(Cached(now[r]), x.station, x.at)
      <4>1. x \in Reading /\ now[r] \in Time
        BY DEF TypeOK
      <4>2. backend = "dry_run" /\ IsFresh(x, now[r]) /\ Reached(Remembered, x.station, x.at)
        BY <3>4 DEF TypeOK, Invariant, KnownInv, DictionaryInv
      <4>3. Cached(now[r]) = {y \in LatestPerStation(Remembered) : IsFresh(y, now[r])}
        BY <4>2 DEF Cached
      <4> QED
        BY <3>1, <4>1, <4>2, <4>3, FreshLatestReaches
    <3> QED
      BY <3>1, <3>2, <3>3, <3>4
  <2>3. ASSUME NEW r \in Request, FetchRaisesDryRun(r)
        PROVE  AnswerJustified'
    <3>1. Answer(r, Cached(now[r]), FALSE, TRUE)
      BY <2>3 DEF FetchRaisesDryRun
    <3> QED
      BY <1>2, <2>2, <3>1, <2>booleans, Zenon
  <2>4. ASSUME NEW r \in Request, DeliverDryRun(r)
        PROVE  AnswerJustified'
    <3>1. CASE Observations(r) # {} /\ Answer(r, Observations(r), TRUE, FALSE)
      BY <1>2, <3>1, ObservationsFacts
    <3>2. CASE Answer(r, Cached(now[r]), FALSE, FALSE)
      BY <1>2, <2>2, <3>2, <2>booleans, Zenon
    <3> QED
      BY <2>4, <3>1, <3>2 DEF DeliverDryRun
  <2>5. ASSUME NEW r \in Request,
               DeleteRaises(r) \/ \E stored \in SUBSET Observations(r) : Insert(r, stored)
        PROVE  AnswerJustified'
    <3>1. Answer(r, Observations(r), TRUE, FALSE) /\ Observations(r) # {}
      BY <2>5 DEF DeleteRaises, Insert, TypeOK
    <3> QED
      BY <1>2, <3>1, ObservationsFacts
  <2>6. ASSUME NEW r \in Request, ReadCache(r)
        PROVE  AnswerJustified'
    <3>1. failed[r] \in BOOLEAN /\ FALSE \in BOOLEAN
      BY DEF TypeOK
    <3>2. Answer(r, Cached(now[r]), FALSE, failed[r])
      BY <2>6 DEF ReadCache
    <3> DEFINE readings == Cached(now[r])
    <3>3. /\ readings \in SUBSET Reading
          /\ \A x, y \in readings : x.station = y.station => x = y
          /\ \A x \in readings : IsFresh(x, now[r])
          /\ \A x \in known[r] : Reached(readings, x.station, x.at)
      BY <2>2
    <3> HIDE DEF readings
    <3>4. Answer(r, readings, FALSE, failed[r])
      BY <3>2 DEF readings
    <3> QED
      BY <1>2, <3>1, <3>3, <3>4, Zenon
  <2> QED
    BY <2>1, <2>3, <2>4, <2>5, <2>6
    DEF Next, vars, Tick, Measure, Restart, Begin, Respond, FetchRaisesMongo, DeliverMongo, Delete
<1> QED
  BY <1>1, <1>3, TypeCorrect, InvariantHolds, PTL DEF Spec

-----------------------------------------------------------------------------
(* The documents. *)

\* While no writes overlapped, one request at a time is between its deletion and its
\* insertion, and what it deleted is not there.
WritersInv ==
  ~overlap =>
    /\ \A x \in Reading : store[x] <= 1
    /\ \A r \in Request : step[r] = "insert" => \A x \in Observations(r) : store[x] = 0
    /\ \A r, q \in Request : step[r] = "insert" /\ step[q] = "insert" => r = q

\* Documents are unique per station and time unless the writes of two requests
\* overlapped.
THEOREM PairsUniqueAlways == Spec => []PairsUniqueWithoutOverlap
<1>1. Init => WritersInv
  BY DEF Init, WritersInv
<1>2. TypeOK /\ Invariant /\ WritersInv /\ [Next]_vars => WritersInv'
  <2> SUFFICES ASSUME TypeOK, Invariant, WritersInv, [Next]_vars, ~overlap'
               PROVE  /\ \A x \in Reading : store'[x] <= 1
                      /\ \A r \in Request : step'[r] = "insert" =>
                           \A x \in Observations(r)' : store'[x] = 0
                      /\ \A r, q \in Request :
                           step'[r] = "insert" /\ step'[q] = "insert" => r = q
    BY DEF WritersInv
  <2>1. ~overlap
    BY DEF Next, vars, request, Tick, Measure, Restart, Begin, Respond, FetchRaisesDryRun,
           FetchRaisesMongo, DeliverDryRun, DeliverMongo, Delete, Insert, DeleteRaises,
           ReadCache, Answer, TypeOK
  <2>2. ASSUME \A q \in Request : step'[q] = "insert" =>
                 step[q] = "insert" /\ payload'[q] = payload[q] /\ now'[q] = now[q],
               \A x \in Reading : store'[x] \in {store[x], 0}
        PROVE  WritersInv'
    <3>1. \A q \in Request : step'[q] = "insert" => Observations(q)' = Observations(q)
      BY <2>2, ObservationsStay
    <3>2. \A q \in Request : Observations(q) \in SUBSET Reading
      BY ObservationsFacts
    <3> QED
      BY <2>1, <2>2, <3>1, <3>2 DEF WritersInv
  <2>3. CASE UNCHANGED vars \/ Tick \/ \E x \in Reading : Measure(x)
    BY <2>2, <2>3 DEF vars, request, Tick, Measure, WritersInv
  <2>4. CASE Restart
    BY <2>2, <2>4 DEF Restart, WritersInv
  <2>5. ASSUME NEW r \in Request,
               \/ Begin(r) \/ FetchRaisesMongo(r) \/ DeliverMongo(r)
               \/ \E S \in SUBSET Station : Respond(r, S)
        PROVE  WritersInv'
    <3>1. step'[r] # "insert" /\ store' = store
      BY <2>5 DEF Begin, FetchRaisesMongo, DeliverMongo, Respond, TypeOK
    <3>2. \A q \in Request : q # r =>
            step'[q] = step[q] /\ payload'[q] = payload[q] /\ now'[q] = now[q]
      BY <2>5 DEF Begin, FetchRaisesMongo, DeliverMongo, Respond, TypeOK
    <3> QED
      BY <2>2, <3>1, <3>2
  <2>6. ASSUME NEW r \in Request, FetchRaisesDryRun(r) \/ ReadCache(r) \/ DeleteRaises(r)
        PROVE  WritersInv'
    <3>1. Forget(r) /\ \A x \in Reading : store'[x] \in {store[x], 0}
      BY <2>6 DEF FetchRaisesDryRun, ReadCache, DeleteRaises, Answer, Deleted
    <3>2. \A q \in Request : step'[q] = "insert" =>
            step[q] = "insert" /\ payload'[q] = payload[q] /\ now'[q] = now[q]
      BY <3>1, ForgetTypes
    <3> QED
      BY <2>2, <3>1, <3>2
  <2>7. ASSUME NEW r \in Request, DeliverDryRun(r)
        PROVE  WritersInv'
    <3>1. Forget(r) /\ backend = "dry_run"
      BY <2>7 DEF DeliverDryRun, Answer
    <3>2. \A q \in Request : step'[q] # "insert"
      BY <3>1, ForgetTypes DEF Invariant, DictionaryInv
    <3>3. \A x \in Reading : store'[x] <= 1
      BY <2>1, <2>7 DEF DeliverDryRun, WritersInv
    <3> QED
      BY <3>2, <3>3 DEF WritersInv
  <2>8. ASSUME NEW r \in Request, Delete(r)
        PROVE  WritersInv'
    <3>1. \A q \in Request : step[q] # "insert"
      BY <2>8 DEF Delete
    <3>2. \A q \in Request : step'[q] = "insert" => q = r
      BY <2>8, <3>1 DEF Delete, TypeOK
    <3>3. Observations(r)' = Observations(r) /\ Observations(r) \in SUBSET Reading
      BY <2>8, ObservationsStay, ObservationsFacts DEF Delete
    <3>4. \A x \in Reading : store'[x] = IF x \in Observations(r) THEN 0 ELSE store[x]
      BY <2>8 DEF Delete, Deleted
    <3> QED
      BY <2>1, <3>2, <3>3, <3>4 DEF WritersInv
  <2>9. ASSUME NEW r \in Request, NEW stored \in SUBSET Observations(r), Insert(r, stored)
        PROVE  WritersInv'
    <3>1. Forget(r) /\ step[r] = "insert"
      BY <2>9 DEF Insert, Answer
    <3>2. \A q \in Request : step'[q] # "insert"
      BY <2>1, <3>1, ForgetTypes DEF WritersInv
    <3>3. Observations(r) \in SUBSET Reading
      BY ObservationsFacts
    <3>4. \A x \in Reading : store'[x] <= 1
      BY <2>1, <2>9, <3>1, <3>3 DEF Insert, WritersInv
    <3> QED
      BY <3>2, <3>4 DEF WritersInv
  <2> QED
    BY <2>3, <2>4, <2>5, <2>6, <2>7, <2>8, <2>9 DEF Next, WritersInv
<1>3. WritersInv => PairsUniqueWithoutOverlap
  BY DEF WritersInv, PairsUniqueWithoutOverlap
<1> QED
  BY <1>1, <1>2, <1>3, TypeCorrect, InvariantHolds, PTL DEF Spec
==============================================================================
