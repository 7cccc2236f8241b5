------------------------- MODULE ProviderFetchProofs -------------------------
(***************************************************************************)
(* Proofs about ProviderFetch, for any hours, cycles, windows, retries and *)
(* rainfall.                                                               *)
(***************************************************************************)
EXTENDS ProviderFetch, OrderFacts, FiniteSetTheorems, TLAPS

LEMMA HourTypes ==
  /\ \A h \in Hours : h \in Nat /\ h > 0
  /\ \A s \in Steps : s \in Nat
  /\ \A c \in Time, s \in Steps : Total[c][s] \in Nat
  /\ \A c \in Time : Total[c][0] = 0
BY HoursAssumption, TotalAssumption DEF Steps

\* The record the client picks in a file: which rainfall it is.
LEMMA DecodeFile ==
  ASSUME NEW c \in Time, NEW h \in Hours, client \in Client
  PROVE  LET m == Decode(File(c, h))
         IN  /\ m \in Record
             /\ m.end = h
             /\ m.start = IF client = "gfs" THEN IntervalStart(h) ELSE 0
             /\ m.mm = Total[c][h] - Total[c][m.start]
<1> DEFINE s == IntervalStart(h)
           interval == [start |-> s, end |-> h, mm |-> Total[c][h] - Total[c][s]]
<1>1. s \in Steps /\ s \in Nat /\ 0 \in Steps /\ h \in Steps
  BY IntervalAssumption, HourTypes DEF Steps
<1>2. Total[c][h] \in Nat /\ Total[c][s] \in Nat /\ Total[c][0] = 0
  BY <1>1, HourTypes
<1>3. RunTotal(c, h) \in Record /\ interval \in Record
  BY <1>1, <1>2 DEF RunTotal, Record
<1>4. CASE client = "gfs"
  <2>1. File(c, h) = {RunTotal(c, h), interval}
    BY <1>4 DEF File
  <2> HIDE DEF s
  <2>2. \A n \in File(c, h) : interval.start >= n.start
    BY <2>1, <1>1 DEF RunTotal
  <2>3. \A m \in File(c, h) : (\A n \in File(c, h) : m.start >= n.start) => m = interval
    <3> SUFFICES ASSUME NEW m \in File(c, h), m.start >= interval.start
                 PROVE  m = interval
      BY <2>1
    <3>1. CASE m = interval
      BY <3>1
    <3>2. CASE m = RunTotal(c, h)
      <4>1. s = 0
        BY <3>2, <1>1 DEF RunTotal
      <4> QED
        BY <4>1, <3>2, <1>2 DEF RunTotal
    <3> QED
      BY <3>1, <3>2, <2>1
  <2>4. Decode(File(c, h)) = interval
    <3>1. Decode(File(c, h)) =
            CHOOSE m \in File(c, h) : \A n \in File(c, h) : m.start >= n.start
      BY <1>4 DEF Decode
    <3> HIDE DEF interval
    <3>2. interval \in File(c, h)
      BY <2>1
    <3> QED
      BY <3>1, <3>2, <2>2, <2>3
  <2> QED
    BY <2>4, <1>3, <1>4 DEF s
<1>5. CASE client # "gfs"
  <2>1. File(c, h) = {RunTotal(c, h)}
    BY <1>5 DEF File
  <2>2. RunTotal(c, h).start <= RunTotal(c, h).start
    BY DEF RunTotal
  <2>3. Decode(File(c, h)) = RunTotal(c, h)
    BY <1>5, <2>1, <2>2 DEF Decode
  <2> QED
    BY <2>3, <1>2, <1>3, <1>5 DEF RunTotal
<1> QED
  BY <1>4, <1>5

------------------------------------------------------------------------------
(* The inductive invariant. *)

\* What a stage has not produced yet is not there.
Quiet ==
  /\ stage = "idle" => tried = {}
  /\ stage \in {"idle", "discover", "no_run"} => decoded = {}
  /\ stage # "done" => artifacts = {}

\* Only cycles that are due have files.
Due == \A c \in Time : published[c] # {} => Scheduled(c) /\ c <= clock

\* What the probes of a call say about what was online when it began.
Probed ==
  stage # "idle" =>
    /\ \A c \in Time : at_start[c] # {} => Scheduled(c) /\ c <= now
    /\ \A c \in Time : at_start[c] \subseteq published[c]
    /\ ~glitch => \A c \in tried, h \in Hours : FirstHour(h) => h \notin at_start[c]

Chosen ==
  stage \in {"fetch", "done", "failed"} =>
    run_time \in Discoverable(Period[client], Window[client], now)

\* A record that was kept is the rainfall of its hour.
Kept(m) ==
  /\ m.end \in forecast_hours /\ m.end \in published[run_time]
  /\ m.start = IF client = "gfs" THEN IntervalStart(m.end) ELSE 0
  /\ m.mm = Total[run_time][m.end] - Total[run_time][m.start]
  /\ m.mm >= 0

Fetched ==
  /\ stage \in {"idle", "discover", "fetch"} => \A h \in Hours : refusals[h] <= Retries
  /\ \A m \in decoded : Kept(m)

IInv ==
  /\ TypeOK /\ Quiet /\ Due /\ Probed /\ Chosen /\ Fetched
  /\ DiscoveryOverlooksNothing /\ AllHoursOrNone /\ RainCountedOnce

\* Two records of the same hour are the same.
LEMMA KeptOnce ==
  ASSUME TypeOK, Fetched, NEW m \in decoded, NEW n \in decoded, m.end = n.end
  PROVE  m = n
<1>1. m \in Record /\ n \in Record
  BY DEF TypeOK
<1>2. m.start = n.start /\ m.mm = n.mm
  BY DEF Fetched, Kept
<1> QED
  BY <1>1, <1>2 DEF Record

\* The requested hour before that of a record.
LEMMA PriorRecord ==
  ASSUME TypeOK, Fetched, NEW m \in decoded
  PROVE  /\ Prior(m).end \in Steps /\ Prior(m).end < m.end
         /\ Prior(m).mm \in Int
         /\ client = "ecmwf" => Prior(m).mm = Total[run_time][Prior(m).end]
         /\ \A n \in decoded : n.end < m.end => n.end <= Prior(m).end
<1> DEFINE earlier == {n \in decoded : n.end < m.end}
<1>1. \A n \in decoded : n \in Record /\ n.end \in Hours /\ n.end \in Nat /\ n.end > 0
  BY HourTypes DEF TypeOK, Record
<1>2. CASE earlier = {}
  <2>1. Prior(m) = [start |-> 0, end |-> 0, mm |-> 0]
    BY <1>2 DEF Prior
  <2>2. Total[run_time][0] = 0 /\ 0 \in Steps
    BY HourTypes DEF TypeOK, Steps
  <2> QED
    BY <2>1, <2>2, <1>1, <1>2
<1>3. CASE earlier # {}
  <2>1. \E n \in earlier : \A o \in earlier : o.end <= n.end
    <3> DEFINE gaps == {m.end - n.end : n \in earlier}
    <3>1. gaps \subseteq Nat /\ gaps # {}
      BY <1>1, <1>3
    <3>2. PICK g \in gaps : \A k \in gaps : g <= k
      BY <3>1, LeastNat
    <3>3. PICK n \in earlier : g = m.end - n.end
      BY <3>2
    <3>4. \A o \in earlier : m.end - n.end <= m.end - o.end
      BY <3>2, <3>3
    <3> QED
      BY <3>3, <3>4, <1>1
  <2>2. Prior(m) = CHOOSE n \in earlier : \A o \in earlier : o.end <= n.end
    BY <1>3 DEF Prior
  <2>3. Prior(m) \in earlier /\ \A o \in earlier : o.end <= Prior(m).end
    BY <2>1, <2>2
  <2>4. Kept(Prior(m)) /\ Prior(m) \in Record
    BY <2>3, <1>1 DEF Fetched
  <2>5. run_time \in Time /\ Prior(m).end \in Steps
    BY <2>4 DEF TypeOK, Record, Steps
  <2>6. client = "ecmwf" => Prior(m).mm = Total[run_time][Prior(m).end]
    <3> SUFFICES ASSUME client = "ecmwf"
                 PROVE  Prior(m).mm = Total[run_time][Prior(m).end]
      OBVIOUS
    <3>1. Prior(m).mm = Total[run_time][Prior(m).end] - Total[run_time][0]
      BY <2>4 DEF Kept
    <3> QED
      BY <3>1, <2>5, HourTypes
  <2> QED
    BY <2>3, <2>4, <2>5, <2>6 DEF Record
<1> QED
  BY <1>2, <1>3

\* A cycle inside the window that is due is a candidate.
LEMMA FreshIsCandidate ==
  ASSUME TypeOK, NEW c \in Time, Scheduled(c), c <= now, Fresh(c)
  PROVE  c \in CandidateRunTimes
<1>1. client \in Client /\ now \in Nat /\ c \in Nat
  BY MaxClockAssumption DEF TypeOK, Time
<1>2. Period[client] \in Nat /\ Period[client] > 0 /\ Window[client] \in Nat
  BY <1>1, PeriodAssumption, WindowAssumption
<1>3. Window[client] < Lookback * Period[client]
  BY <1>1, LookbackAssumption
<1>4. now % Period[client] \in Nat
  BY <1>1, <1>2
<1>5. Lookback * Period[client] \in Int
  BY <1>2, LookbackAssumption
<1>6. c + Lookback * Period[client] > now - (now % Period[client])
  BY <1>1, <1>2, <1>3, <1>4, <1>5 DEF Fresh
<1> QED
  BY <1>6 DEF CandidateRunTimes

------------------------------------------------------------------------------
(* Initial states. *)

LEMMA InitInv == Init => IInv
<1> SUFFICES ASSUME Init
             PROVE  IInv
  OBVIOUS
<1>1. 0 \in Time /\ 0 \in 0 .. Retries + 1
  BY MaxClockAssumption, RetriesAssumption DEF Time
<1>2. TypeOK
  BY <1>1 DEF Init, TypeOK, Stage
<1>3. Quiet /\ Due /\ Probed /\ Chosen /\ Fetched
  BY RetriesAssumption DEF Init, Quiet, Due, Probed, Chosen, Fetched
<1>4. DiscoveryOverlooksNothing /\ AllHoursOrNone /\ RainCountedOnce
  BY DEF Init, DiscoveryOverlooksNothing, AllHoursOrNone, RainCountedOnce
<1> QED
  BY <1>2, <1>3, <1>4 DEF IInv

------------------------------------------------------------------------------
(* Steps. *)

LEMMA TypeStep ==
  ASSUME TypeOK, Fetched, [Next]_vars
  PROVE  TypeOK'
<1> USE DEF TypeOK, provider, request
<1>1. CASE UNCHANGED vars
  BY <1>1 DEF vars
<1>2. CASE Tick
  BY <1>2, MaxClockAssumption DEF Tick, Time
<1>3. ASSUME NEW c \in Time, NEW h \in Hours, Publish(c, h)
      PROVE  TypeOK'
  <2>1. published' \in [Time -> SUBSET Hours]
    BY <1>3 DEF Publish
  <2> QED
    BY <1>3, <2>1 DEF Publish
<1>4. CASE Begin
  BY <1>4 DEF Begin, Stage
<1>5. ASSUME NEW c \in Time, NEW h \in Hours, ProbeAnswered(c, h)
      PROVE  TypeOK'
  BY <1>5 DEF ProbeAnswered, Stage
<1>6. ASSUME NEW c \in Time, NEW h \in Hours, ProbeRefused(c, h)
      PROVE  TypeOK'
  <2>1. glitch' \in BOOLEAN
    BY <1>6 DEF ProbeRefused
  <2> QED
    BY <1>6, <2>1 DEF ProbeRefused
<1>7. CASE NoRunAvailable
  BY <1>7 DEF NoRunAvailable, Stage
<1>8. ASSUME NEW h \in Hours, Downloaded(h)
      PROVE  TypeOK'
  <2>1. Decode(File(run_time, h)) \in Record
    BY DecodeFile
  <2> QED
    BY <1>8, <2>1 DEF Downloaded
<1>9. ASSUME NEW h \in Hours, DownloadRefused(h)
      PROVE  TypeOK'
  <2>1. refusals[h] \in Nat /\ refusals[h] <= Retries
    BY <1>9, RetriesAssumption DEF DownloadRefused, NextHour, Fetched
  <2>2. refusals[h] + 1 \in 0 .. Retries + 1
    BY <2>1, RetriesAssumption
  <2>3. stage' \in Stage
    BY <1>9 DEF DownloadRefused, Stage
  <2> QED
    BY <1>9, <2>2, <2>3 DEF DownloadRefused
<1>10. ASSUME NEW h \in Hours, Undecodable(h)
       PROVE  TypeOK'
  BY <1>10 DEF Undecodable, Stage
<1>11. CASE Finish
  <2>1. Windows \subseteq Record
    <3>1. ASSUME NEW m \in decoded
          PROVE  Difference(m) \in Record
      <4>1. m \in Record /\ Prior(m).end \in Steps /\ Prior(m).mm \in Int
        BY PriorRecord
      <4>2. NotNegative(m.mm - Prior(m).mm) \in Int
        BY <4>1 DEF NotNegative, Record
      <4> QED
        BY <4>1, <4>2 DEF Difference, Record
    <3> QED
      BY <3>1 DEF Windows
  <2> QED
    BY <1>11, <2>1 DEF Finish, Stage
<1> QED
  BY <1>1, <1>2, <1>3, <1>4, <1>5, <1>6, <1>7, <1>8, <1>9, <1>10, <1>11 DEF Next

LEMMA QuietStep ==
  ASSUME TypeOK, Quiet, [Next]_vars
  PROVE  Quiet'
<1> USE DEF Quiet, provider, request
<1>1. CASE UNCHANGED vars
  BY <1>1 DEF vars
<1>2. CASE Tick \/ Begin \/ NoRunAvailable \/ Finish
  BY <1>2 DEF Tick, Begin, NoRunAvailable, Finish
<1>3. ASSUME NEW c \in Time, NEW h \in Hours,
             Publish(c, h) \/ ProbeAnswered(c, h) \/ ProbeRefused(c, h)
      PROVE  Quiet'
  BY <1>3 DEF Publish, ProbeAnswered, ProbeRefused, NextCandidate
<1>4. ASSUME NEW h \in Hours, Downloaded(h) \/ DownloadRefused(h) \/ Undecodable(h)
      PROVE  Quiet'
  BY <1>4 DEF Downloaded, DownloadRefused, Undecodable, NextHour
<1> QED
  BY <1>1, <1>2, <1>3, <1>4 DEF Next

LEMMA DueStep ==
  ASSUME TypeOK, Due, [Next]_vars
  PROVE  Due'
<1> USE DEF Due, provider, request, Scheduled
<1>1. CASE UNCHANGED vars
  BY <1>1 DEF vars
<1>2. CASE Tick
  BY <1>2, MaxClockAssumption DEF Tick, TypeOK, Time
<1>3. ASSUME NEW c \in Time, NEW h \in Hours, Publish(c, h)
      PROVE  Due'
  BY <1>3 DEF Publish, TypeOK
<1>4. CASE Begin \/ NoRunAvailable \/ Finish
  BY <1>4 DEF Begin, NoRunAvailable, Finish
<1>5. ASSUME NEW c \in Time, NEW h \in Hours, ProbeAnswered(c, h) \/ ProbeRefused(c, h)
      PROVE  Due'
  BY <1>5 DEF ProbeAnswered, ProbeRefused
<1>6. ASSUME NEW h \in Hours, Downloaded(h) \/ DownloadRefused(h) \/ Undecodable(h)
      PROVE  Due'
  BY <1>6 DEF Downloaded, DownloadRefused, Undecodable
<1> QED
  BY <1>1, <1>2, <1>3, <1>4, <1>5, <1>6 DEF Next

\* Files only ever appear.
LEMMA FilesStay ==
  ASSUME TypeOK, [Next]_vars
  PROVE  \A c \in Time : published[c] \subseteq published'[c]
BY DEF Next, vars, provider, request, Tick, Publish, Begin, ProbeAnswered, ProbeRefused,
       NoRunAvailable, Downloaded, DownloadRefused, Undecodable, Finish, TypeOK

LEMMA ProbedStep ==
  ASSUME TypeOK, Quiet, Due, Probed, [Next]_vars
  PROVE  Probed'
<1>1. CASE Begin
  BY <1>1 DEF Begin, Probed, Quiet, Due, provider, Scheduled
<1>2. ASSUME NEW c \in Time, NEW h \in Hours, ProbeRefused(c, h)
      PROVE  Probed'
  <2>1. stage # "idle" /\ UNCHANGED <<provider, request, stage>>
    BY <1>2 DEF ProbeRefused, NextCandidate
  <2>2. ASSUME ~glitch', NEW d \in tried', NEW k \in Hours, FirstHour(k)'
        PROVE  k \notin at_start[d]
    <3>1. FirstHour(k) /\ ~glitch
      BY <1>2, <2>2, <2>1 DEF FirstHour, request, ProbeRefused
    <3>2. CASE d \in tried
      BY <3>1, <3>2, <2>1 DEF Probed
    <3>3. CASE d = c
      <4>1. h = k
        BY <1>2, <3>1, HourTypes DEF ProbeRefused, FirstHour
      <4>2. h \notin published[c]
        BY <1>2, <2>2 DEF ProbeRefused
      <4> QED
        BY <3>3, <4>1, <4>2, <2>1 DEF Probed
    <3> QED
      BY <1>2, <2>2, <3>2, <3>3 DEF ProbeRefused
  <2> QED
    BY <2>1, <2>2 DEF Probed, provider, request, Scheduled
<1>3. CASE ~Begin /\ ~(\E c \in Time, h \in Hours : ProbeRefused(c, h))
  <2>1. UNCHANGED <<request, tried, glitch>> /\ (stage = "idle" => stage' = "idle")
    BY <1>3 DEF Next, vars, provider, request, Tick, Publish, ProbeAnswered, NoRunAvailable,
       Downloaded, DownloadRefused, Undecodable, Finish, NextCandidate, NextHour
  <2>2. \A c \in Time : published[c] \subseteq published'[c]
    BY FilesStay
  <2> QED
    BY <2>1, <2>2 DEF Probed, request, Scheduled, FirstHour
<1> QED
  BY <1>1, <1>2, <1>3

LEMMA ChosenStep ==
  ASSUME TypeOK, Chosen, [Next]_vars
  PROVE  Chosen'
<1> USE DEF Chosen, provider, request
<1>1. CASE UNCHANGED vars
  BY <1>1 DEF vars
<1>2. CASE Tick \/ Begin \/ NoRunAvailable \/ Finish
  BY <1>2 DEF Tick, Begin, NoRunAvailable, Finish
<1>3. ASSUME NEW c \in Time, NEW h \in Hours,
             Publish(c, h) \/ ProbeAnswered(c, h) \/ ProbeRefused(c, h)
      PROVE  Chosen'
  <2>1. CASE Publish(c, h) \/ ProbeRefused(c, h)
    BY <2>1 DEF Publish, ProbeRefused, NextCandidate
  <2>2. CASE ProbeAnswered(c, h)
    <3>1. /\ c \in CandidateRunTimes /\ Fresh(c)
          /\ run_time' = c /\ UNCHANGED <<client, now>>
      BY <2>2 DEF ProbeAnswered, NextCandidate
    <3>2. c \in Nat /\ now \in Nat
      BY MaxClockAssumption DEF TypeOK, Time
    <3>3. c \in Discoverable(Period[client], Window[client], now)
      BY <3>1, <3>2 DEF CandidateRunTimes, Scheduled, Fresh, Discoverable
    <3> QED
      BY <3>1, <3>3
  <2> QED
    BY <1>3, <2>1, <2>2
<1>4. ASSUME NEW h \in Hours, Downloaded(h) \/ DownloadRefused(h) \/ Undecodable(h)
      PROVE  Chosen'
  BY <1>4 DEF Downloaded, DownloadRefused, Undecodable, NextHour
<1> QED
  BY <1>1, <1>2, <1>3, <1>4 DEF Next

LEMMA FetchedStep ==
  ASSUME TypeOK, Quiet, Fetched, [Next]_vars
  PROVE  Fetched'
<1>1. CASE Begin \/ NoRunAvailable \/ Finish \/ Tick \/ UNCHANGED vars
  BY <1>1 DEF Begin, NoRunAvailable, Finish, Tick, vars, provider, request, Fetched, Kept
<1>2. ASSUME NEW c \in Time, NEW h \in Hours, Publish(c, h)
      PROVE  Fetched'
  BY <1>2 DEF Publish, request, Fetched, Kept, TypeOK
<1>3. ASSUME NEW c \in Time, NEW h \in Hours, ProbeAnswered(c, h)
      PROVE  Fetched'
  <2>1. decoded' = {} /\ refusals' = refusals
    BY <1>3 DEF ProbeAnswered, NextCandidate, Quiet
  <2>2. \A k \in Hours : refusals[k] <= Retries
    BY <1>3 DEF ProbeAnswered, NextCandidate, Fetched
  <2> QED
    BY <2>1, <2>2 DEF Fetched
<1>4. ASSUME NEW c \in Time, NEW h \in Hours, ProbeRefused(c, h)
      PROVE  Fetched'
  BY <1>4 DEF ProbeRefused, NextCandidate, provider, request, Fetched, Kept
<1>5. ASSUME NEW h \in Hours, Downloaded(h)
      PROVE  Fetched'
  <2> DEFINE m == Decode(File(run_time, h))
  <2>1. /\ m \in Record /\ m.end = h
        /\ m.start = IF client = "gfs" THEN IntervalStart(h) ELSE 0
        /\ m.mm = Total[run_time][h] - Total[run_time][m.start]
    BY DecodeFile DEF TypeOK
  <2>2. h \in forecast_hours /\ h \in published[run_time] /\ m.mm >= 0
    BY <1>5 DEF Downloaded, NextHour, Pending
  <2>3. Kept(m)
    BY <2>1, <2>2 DEF Kept
  <2> HIDE DEF m
  <2>4. decoded' = decoded \cup {m}
    BY <1>5 DEF Downloaded, m
  <2>5. UNCHANGED <<provider, request, run_time, refusals, stage>>
    BY <1>5 DEF Downloaded
  <2> QED
    BY <2>3, <2>4, <2>5 DEF provider, request, Fetched, Kept
<1>6. ASSUME NEW h \in Hours, DownloadRefused(h)
      PROVE  Fetched'
  <2>1. stage' # "failed" => refusals[h] # Retries
    BY <1>6 DEF DownloadRefused, NextHour
  <2>2. stage' # "failed" => \A k \in Hours : refusals'[k] <= Retries
    BY <1>6, <2>1, RetriesAssumption DEF DownloadRefused, NextHour, Fetched, TypeOK
  <2> QED
    BY <1>6, <2>2 DEF DownloadRefused, provider, request, Fetched, Kept
<1>7. ASSUME NEW h \in Hours, Undecodable(h)
      PROVE  Fetched'
  BY <1>7 DEF Undecodable, provider, request, Fetched, Kept
<1> QED
  BY <1>1, <1>2, <1>3, <1>4, <1>5, <1>6, <1>7 DEF Next

\* Where discovery ends, every fresh cycle that was online and newer was refused.
LEMMA DiscoveryStep ==
  ASSUME TypeOK, Quiet, Probed, Chosen, DiscoveryOverlooksNothing, [Next]_vars
  PROVE  DiscoveryOverlooksNothing'
<1>1. ASSUME stage = "discover", ~glitch, NEW d \in Time, NEW k \in Hours,
             FirstHour(k), k \in at_start[d], Fresh(d)
      PROVE  d \in CandidateRunTimes \ tried
  <2>1. Scheduled(d) /\ d <= now /\ d \notin tried
    BY <1>1 DEF Probed
  <2> QED
    BY <1>1, <2>1, FreshIsCandidate
<1>2. ASSUME NEW c \in Time, NEW h \in Hours, ProbeAnswered(c, h)
      PROVE  DiscoveryOverlooksNothing'
  <2>1. stage = "discover" /\ \A d \in CandidateRunTimes \ tried : d <= c
    BY <1>2 DEF ProbeAnswered, NextCandidate
  <2> QED
    BY <1>1, <1>2, <2>1
    DEF ProbeAnswered, provider, request, DiscoveryOverlooksNothing, Fresh, FirstHour
<1>3. CASE NoRunAvailable
  <2>1. stage = "discover" /\ \A d \in CandidateRunTimes \ tried : ~Fresh(d)
    BY <1>3 DEF NoRunAvailable
  <2> QED
    BY <1>1, <1>3, <2>1
    DEF NoRunAvailable, provider, request, DiscoveryOverlooksNothing, Fresh, FirstHour
<1>4. CASE ~NoRunAvailable /\ ~(\E c \in Time, h \in Hours : ProbeAnswered(c, h))
  <2>1. CASE stage' \in {"fetch", "done", "failed", "no_run"}
    <3>1. /\ stage \in {"fetch", "done", "failed", "no_run"}
          /\ UNCHANGED <<request, run_time, glitch>>
          /\ (stage' = "no_run") <=> (stage = "no_run")
      BY <1>4, <2>1 DEF Next, vars, provider, request, Tick, Publish, Begin, ProbeRefused,
         Downloaded, DownloadRefused, Undecodable, Finish, NextCandidate, NextHour
    <3> QED
      BY <3>1 DEF DiscoveryOverlooksNothing, request, Fresh, FirstHour
  <2>2. CASE stage' \notin {"fetch", "done", "failed", "no_run"}
    BY <2>2 DEF DiscoveryOverlooksNothing
  <2> QED
    BY <2>1, <2>2
<1> QED
  BY <1>2, <1>3, <1>4

\* What fetch_run returns.
LEMMA FinishWhole ==
  ASSUME TypeOK, Quiet, Chosen, Fetched, Finish
  PROVE  AllHoursOrNone' /\ RainCountedOnce'
<1>1. stage = "fetch" /\ stage' = "done" /\ artifacts' = Windows /\ Pending = {}
  BY DEF Finish
<1>2. UNCHANGED <<provider, request, run_time, decoded>>
  BY DEF Finish
<1>3. run_time \in Time /\ client \in Client
  BY DEF TypeOK
<1>4. \A m \in decoded : m \in Record /\ Kept(m) /\ m.end \in Hours /\ m.end \in Nat
  BY HourTypes DEF TypeOK, Fetched, Record
<1>5. {m.end : m \in decoded} = forecast_hours
  BY <1>1, <1>4 DEF Pending, Kept
<1>6. forecast_hours \subseteq published[run_time]
  BY <1>4, <1>5 DEF Kept
<1>7. run_time \in Discoverable(Period[client], Window[client], now)
  BY <1>1 DEF Chosen
<1>8. CASE client = "gfs"
  <2>1. artifacts' = decoded
    BY <1>1, <1>8 DEF Windows
  <2>2. \A a, b \in decoded : a.end = b.end => a = b
    BY KeptOnce
  <2>3. ASSUME NEW a \in decoded
        PROVE  a.mm = NotNegative(Total[run_time][a.end] - Total[run_time][a.start])
    BY <1>4 DEF Kept, NotNegative, Record
  <2>4. ASSUME SixHourly, NEW a \in decoded, NEW b \in decoded, a # b
        PROVE  a.end <= b.start \/ b.end <= a.start
    <3>1. a.end # b.end
      BY <2>2, <2>4
    <3>2. a.end % 6 = 0 /\ b.end % 6 = 0
      BY <1>4, <2>4 DEF SixHourly, Kept, SixHours
    <3>3. /\ a.start = (a.end - 1) - ((a.end - 1) % 6)
          /\ b.start = (b.end - 1) - ((b.end - 1) % 6)
      BY <1>4, <1>8 DEF Kept, IntervalStart, SixHours
    <3> QED
      BY <3>1, <3>2, <3>3, <1>4
  <2> QED
    BY <1>1, <1>2, <1>5, <1>6, <1>7, <1>8, <2>1, <2>2, <2>3, <2>4
    DEF AllHoursOrNone, RainCountedOnce, provider, request, Fresh, SixHourly
<1>9. CASE client = "ecmwf"
  <2>1. artifacts' = {Difference(m) : m \in decoded}
    BY <1>1, <1>9 DEF Windows
  <2>2. ASSUME NEW m \in decoded
        PROVE  /\ Difference(m).end = m.end
               /\ Difference(m).start = Prior(m).end
               /\ Difference(m).mm =
                    NotNegative(Total[run_time][m.end] - Total[run_time][Prior(m).end])
    <3>1. m.mm = Total[run_time][m.end]
      <4>1. m.mm = Total[run_time][m.end] - Total[run_time][0]
        BY <1>4, <1>9 DEF Kept
      <4>2. Total[run_time][m.end] \in Nat /\ Total[run_time][0] = 0
        BY <1>3, <1>4, HourTypes DEF Steps
      <4> QED
        BY <4>1, <4>2
    <3>2. Prior(m).mm = Total[run_time][Prior(m).end]
      BY <1>9, PriorRecord
    <3> QED
      BY <3>1, <3>2 DEF Difference
  <2>3. {a.end : a \in artifacts'} = forecast_hours
    BY <1>5, <2>1, <2>2
  <2>4. \A a, b \in artifacts' : a.end = b.end => a = b
    <3> SUFFICES ASSUME NEW m \in decoded, NEW n \in decoded, m.end = n.end
                 PROVE  m = n
      BY <2>1, <2>2
    <3> QED
      BY KeptOnce
  <2>5. \A a \in artifacts' :
          a.mm = NotNegative(Total[run_time][a.end] - Total[run_time][a.start])
    BY <2>1, <2>2
  <2>6. ASSUME NEW m \in decoded, NEW n \in decoded, Difference(m) # Difference(n)
        PROVE  m.end <= Prior(n).end \/ n.end <= Prior(m).end
    <3>1. m.end # n.end
      BY <2>6, KeptOnce
    <3>2. m.end < n.end \/ n.end < m.end
      BY <3>1, <1>4
    <3> QED
      BY <3>2, PriorRecord
  <2>7. \A a, b \in artifacts' : a = b \/ a.end <= b.start \/ b.end <= a.start
    BY <2>1, <2>2, <2>6
  <2> QED
    BY <1>1, <1>2, <1>6, <1>7, <2>3, <2>4, <2>5, <2>7
    DEF AllHoursOrNone, RainCountedOnce, provider, request, Fresh
<1> QED
  BY <1>3, <1>8, <1>9 DEF Client

LEMMA OutcomeStep ==
  ASSUME TypeOK, Quiet, Chosen, Fetched, AllHoursOrNone, RainCountedOnce, [Next]_vars
  PROVE  AllHoursOrNone' /\ RainCountedOnce'
<1>1. CASE Finish
  BY <1>1, FinishWhole
<1>2. ASSUME NEW h \in Hours, DownloadRefused(h)
      PROVE  AllHoursOrNone' /\ RainCountedOnce'
  <2>1. artifacts' = {} /\ stage' # "done" /\ h \in forecast_hours'
    BY <1>2 DEF DownloadRefused, NextHour, Quiet, Pending, request
  <2>2. stage' = "failed" => refusals'[h] = Retries + 1
    BY <1>2 DEF DownloadRefused, NextHour, TypeOK
  <2> QED
    BY <2>1, <2>2 DEF AllHoursOrNone, RainCountedOnce
<1>3. ASSUME NEW h \in Hours, Undecodable(h)
      PROVE  AllHoursOrNone' /\ RainCountedOnce'
  BY <1>3 DEF Undecodable, NextHour, Quiet, AllHoursOrNone, RainCountedOnce
<1>4. CASE /\ ~Finish
           /\ ~(\E h \in Hours : DownloadRefused(h) \/ Undecodable(h))
  <2>1. CASE stage' \in {"done", "failed"}
    <3>1. /\ stage = stage'
          /\ UNCHANGED <<request, run_time, refusals, artifacts, undecodable>>
      BY <1>4, <2>1 DEF Next, vars, provider, request, Tick, Publish, Begin, ProbeRefused,
         ProbeAnswered, NoRunAvailable, Downloaded, NextCandidate, NextHour
    <3>2. \A c \in Time : published[c] \subseteq published'[c]
      BY FilesStay
    <3>3. run_time \in Time
      BY DEF TypeOK
    <3>4. AllHoursOrNone'
      BY <3>1, <3>2, <3>3 DEF AllHoursOrNone, request, Fresh
    <3>5. RainCountedOnce'
      BY <3>1 DEF RainCountedOnce, request, SixHourly
    <3> QED
      BY <3>4, <3>5
  <2>2. CASE stage' \notin {"done", "failed"}
    <3>1. artifacts' = {}
      BY <2>2, QuietStep DEF Quiet
    <3> QED
      BY <2>2, <3>1 DEF AllHoursOrNone, RainCountedOnce
  <2> QED
    BY <2>1, <2>2
<1> QED
  BY <1>1, <1>2, <1>3, <1>4

LEMMA IInvHolds == Spec => []IInv
<1>1. IInv /\ [Next]_vars => IInv'
  BY TypeStep, QuietStep, DueStep, ProbedStep, ChosenStep, FetchedStep, DiscoveryStep,
     OutcomeStep DEF IInv
<1> QED
  BY InitInv, <1>1, PTL DEF Spec

------------------------------------------------------------------------------
(* Theorems. *)

\* Every variable keeps its type; in particular no hour is attempted more than
\* Retries + 1 times.
THEOREM TypeCorrect == Spec => []TypeOK
<1>1. IInv => TypeOK
  BY DEF IInv
<1> QED
  BY <1>1, IInvHolds, PTL

\* A cycle that was online and inside the window when the call began is passed
\* over only for a newer one or because one of its probes was refused.
THEOREM NothingOverlooked == Spec => []DiscoveryOverlooksNothing
<1>1. IInv => DiscoveryOverlooksNothing
  BY DEF IInv
<1> QED
  BY <1>1, IInvHolds, PTL

\* fetch_run returns every requested hour of one fresh cycle, or nothing.
THEOREM WholeOrNothing == Spec => []AllHoursOrNone
<1>1. IInv => AllHoursOrNone
  BY DEF IInv
<1> QED
  BY <1>1, IInvHolds, PTL

\* The windows hold what fell in them, and those of ECMWF, or of six-hourly GFS
\* hours, never overlap.
THEOREM RainIsCountedOnce == Spec => []RainCountedOnce
<1>1. IInv => RainCountedOnce
  BY DEF IInv
<1> QED
  BY <1>1, IInvHolds, PTL

------------------------------------------------------------------------------
(* A call ends.  Whatever the provider answers or publishes meanwhile, every   *)
(* step of the client is nearer to the end and none is ever missing.           *)

ClientStep ==
  \/ \E c \in Time, h \in Hours : ProbeAnswered(c, h) \/ ProbeRefused(c, h)
  \/ NoRunAvailable
  \/ \E h \in Hours : Downloaded(h) \/ DownloadRefused(h) \/ Undecodable(h)
  \/ Finish

\* The refused attempts at the first of the hours P, where the loop is.
RefusedAt(P, refused) ==
  IF P = {} THEN 0 ELSE refused[CHOOSE h \in P : \A k \in P : h <= k]

\* The steps a call is at most away from its end: a probe of every candidate left,
\* then Retries + 1 attempts at every hour left and its decoding.
StepsLeft ==
  CASE stage = "idle" -> 0
    [] stage = "discover" -> Cardinality(CandidateRunTimes \ tried)
                               + Cardinality(forecast_hours) * (Retries + 2) + 2
    [] stage = "fetch" -> Cardinality(Pending) * (Retries + 2)
                            - RefusedAt(Pending, refusals) + 1
    [] stage \in {"done", "no_run", "failed"} -> 0

\* Hours are asked for, and those behind the one the loop is at were not refused yet.
Untouched ==
  /\ forecast_hours # {}
  /\ stage \in {"idle", "discover"} => \A h \in Hours : refusals[h] = 0
  /\ stage = "fetch" => \A h, k \in Pending : k < h => refusals[h] = 0

\* The first hour is the one its attempts are counted of.
LEMMA RefusedAtFirst ==
  ASSUME NEW P \in SUBSET Nat, NEW h \in P, \A k \in P : h <= k, NEW refused
  PROVE  RefusedAt(P, refused) = refused[h]
<1>1. (CHOOSE i \in P : \A k \in P : i <= k) = h
  <2>1. ASSUME NEW i \in P, \A k \in P : i <= k
        PROVE  i = h
    <3>1. i <= h /\ h <= i /\ i \in Nat /\ h \in Nat
      BY <2>1
    <3> QED
      BY <3>1
  <2> QED
    BY <2>1
<1> QED
  BY <1>1 DEF RefusedAt

\* Its value when all of them are refused equally often.
LEMMA RefusedAtNone ==
  ASSUME NEW P \in SUBSET Nat, NEW refused, \A h \in P : refused[h] = 0
  PROVE  RefusedAt(P, refused) = 0
<1>1. CASE P = {}
  BY <1>1 DEF RefusedAt
<1>2. CASE P # {}
  <2>1. PICK h \in P : \A k \in P : h <= k
    BY <1>2, LeastNat
  <2> QED
    BY <2>1, RefusedAtFirst
<1> QED
  BY <1>1, <1>2

\* The hour that was decoded is not pending any more.
LEMMA PendingShrinks ==
  ASSUME TypeOK, NEW h \in Hours, Downloaded(h)
  PROVE  Pending' = Pending \ {h}
<1>1. Decode(File(run_time, h)).end = h
  BY DecodeFile DEF TypeOK
<1> QED
  BY <1>1 DEF Downloaded, Pending, request

LEMMA UntouchedStep ==
  ASSUME TypeOK, Untouched, [Next]_vars
  PROVE  Untouched'
<1> USE DEF Untouched, provider, request
<1>0. Pending \subseteq Hours /\ \A h \in Hours : h \in Nat
  BY HourTypes DEF Pending, TypeOK
<1>1. CASE UNCHANGED vars
  BY <1>1 DEF vars, Pending
<1>2. CASE Tick \/ Begin \/ NoRunAvailable \/ Finish
  BY <1>2 DEF Tick, Begin, NoRunAvailable, Finish, Pending
<1>3. ASSUME NEW c \in Time, NEW h \in Hours,
             Publish(c, h) \/ ProbeAnswered(c, h) \/ ProbeRefused(c, h)
      PROVE  Untouched'
  <2>1. CASE Publish(c, h) \/ ProbeRefused(c, h)
    BY <2>1 DEF Publish, ProbeRefused, NextCandidate, Pending
  <2>2. CASE ProbeAnswered(c, h)
    <3>1. /\ forecast_hours' = forecast_hours /\ refusals' = refusals /\ Pending' = Pending
          /\ stage = "discover" /\ stage' = "fetch"
      BY <2>2 DEF ProbeAnswered, NextCandidate, Pending
    <3> QED
      BY <1>0, <3>1
  <2> QED
    BY <1>3, <2>1, <2>2
<1>4. ASSUME NEW h \in Hours, Downloaded(h)
      PROVE  Untouched'
  <2>1. Pending' = Pending \ {h}
    BY <1>4, PendingShrinks
  <2>2. forecast_hours' = forecast_hours /\ refusals' = refusals /\ stage = "fetch" /\ stage' = "fetch"
    BY <1>4 DEF Downloaded, NextHour
  <2> QED
    BY <2>1, <2>2
<1>5. ASSUME NEW h \in Hours, DownloadRefused(h)
      PROVE  Untouched'
  <2>1. /\ stage = "fetch" /\ stage' \in {"fetch", "failed"} /\ \A k \in Pending : h <= k
        /\ forecast_hours' = forecast_hours /\ Pending' = Pending
        /\ \A k \in Hours : k # h => refusals'[k] = refusals[k]
    BY <1>5 DEF DownloadRefused, NextHour, Pending, TypeOK
  <2>2. ASSUME NEW i \in Pending, NEW k \in Pending, k < i
        PROVE  refusals'[i] = 0
    <3>1. h <= k /\ i \in Hours /\ i \in Nat /\ k \in Nat /\ h \in Nat
      BY <1>0, <2>1
    <3>2. i # h
      BY <2>2, <3>1
    <3> QED
      BY <2>1, <2>2, <3>1, <3>2
  <2> QED
    BY <2>1, <2>2
<1>6. ASSUME NEW h \in Hours, Undecodable(h)
      PROVE  Untouched'
  BY <1>6 DEF Undecodable
<1> QED
  BY <1>1, <1>2, <1>3, <1>4, <1>5, <1>6 DEF Next

LEMMA UntouchedHolds == Spec => []Untouched
<1>1. Init => Untouched
  BY DEF Init, Untouched
<1>2. TypeOK /\ Untouched /\ [Next]_vars => Untouched'
  BY UntouchedStep
<1> QED
  BY <1>1, <1>2, TypeCorrect, PTL DEF Spec

\* The sets of hours and of candidates are counted.
LEMMA CallCounted ==
  ASSUME TypeOK
  PROVE  /\ Cardinality(forecast_hours) \in Nat
         /\ Cardinality(Pending) \in Nat /\ Pending \in SUBSET Nat /\ Pending \subseteq Hours
         /\ \A h \in Pending : Cardinality(Pending \ {h}) = Cardinality(Pending) - 1
         /\ Cardinality(CandidateRunTimes \ tried) \in Nat
         /\ \A c \in CandidateRunTimes \ tried :
              /\ Cardinality(CandidateRunTimes \ (tried \cup {c}))
                   = Cardinality(CandidateRunTimes \ tried) - 1
<1>1. IsFiniteSet(forecast_hours) /\ IsFiniteSet(Pending)
  <2>1. forecast_hours \in SUBSET Hours /\ Pending \in SUBSET Hours
    BY DEF TypeOK, Pending
  <2> QED
    BY <2>1, HoursAssumption, FS_Subset
<1>2. IsFiniteSet(Time)
  <2>1. 0 \in Int /\ MaxClock \in Int
    BY MaxClockAssumption
  <2> QED
    BY <2>1, FS_Interval DEF Time
<1>3. IsFiniteSet(CandidateRunTimes \ tried)
  <2>1. CandidateRunTimes \ tried \in SUBSET Time
    BY DEF CandidateRunTimes
  <2> QED
    BY <1>2, <2>1, FS_Subset
<1>4. ASSUME NEW c \in CandidateRunTimes \ tried
      PROVE  Cardinality(CandidateRunTimes \ (tried \cup {c}))
               = Cardinality(CandidateRunTimes \ tried) - 1
  <2>1. CandidateRunTimes \ (tried \cup {c}) = (CandidateRunTimes \ tried) \ {c}
    OBVIOUS
  <2> QED
    BY <1>3, <2>1, FS_RemoveElement
<1>5. \A h \in Pending : Cardinality(Pending \ {h}) = Cardinality(Pending) - 1
  BY <1>1, FS_RemoveElement
<1>6. Pending \in SUBSET Nat /\ Pending \subseteq Hours
  BY HourTypes DEF TypeOK, Pending
<1> QED
  BY <1>1, <1>3, <1>4, <1>5, <1>6, FS_CardinalityType

\* Products by Retries + 2.
LEMMA TimesAttempts ==
  ASSUME NEW n \in Nat, NEW a \in Nat
  PROVE  n * a \in Nat /\ (n - 1) * a = n * a - a
OBVIOUS

\* What is refused at the hour the loop is at.
LEMMA RefusedCounted ==
  ASSUME TypeOK, Fetched, stage = "fetch"
  PROVE  /\ RefusedAt(Pending, refusals) \in 0 .. Retries
         /\ Pending # {} => Cardinality(Pending) >= 1
<1>1. Pending \in SUBSET Nat /\ Pending \subseteq Hours /\ Cardinality(Pending) \in Nat
  BY CallCounted
<1>2. CASE Pending = {}
  BY <1>2, RetriesAssumption DEF RefusedAt
<1>3. CASE Pending # {}
  <2>1. PICK h \in Pending : \A k \in Pending : h <= k
    BY <1>1, <1>3, LeastNat
  <2>2. RefusedAt(Pending, refusals) = refusals[h]
    BY <1>1, <2>1, RefusedAtFirst
  <2>3. refusals[h] \in 0 .. Retries
    BY <1>1, RetriesAssumption DEF TypeOK, Fetched
  <2>4. Cardinality(Pending \ {h}) = Cardinality(Pending) - 1 /\ Pending \ {h} \in SUBSET Hours
    BY <1>1, CallCounted
  <2>5. Cardinality(Pending \ {h}) \in Nat
    <3>1. IsFiniteSet(Pending \ {h})
      BY <2>4, HoursAssumption, FS_Subset
    <3> QED
      BY <3>1, FS_CardinalityType
  <2> QED
    BY <1>1, <2>2, <2>3, <2>4, <2>5
<1> QED
  BY <1>2, <1>3

\* The number of steps left is a number.
LEMMA StepsAreCounted ==
  ASSUME TypeOK, Fetched
  PROVE  StepsLeft \in Nat
<1> DEFINE a == Retries + 2
           n == Cardinality(Pending)
           m == Cardinality(forecast_hours)
           d == Cardinality(CandidateRunTimes \ tried)
           x == RefusedAt(Pending, refusals)
<1>1. a \in Nat /\ n \in Nat /\ m \in Nat /\ d \in Nat
  BY CallCounted, RetriesAssumption
<1>2. StepsLeft = CASE stage = "idle" -> 0
                    [] stage = "discover" -> d + m * a + 2
                    [] stage = "fetch" -> n * a - x + 1
                    [] stage \in {"done", "no_run", "failed"} -> 0
  BY DEF StepsLeft
<1>3. stage = "fetch" => x \in 0 .. Retries /\ (n = 0 => x = 0)
  <2>1. stage = "fetch" => x \in 0 .. Retries /\ (Pending # {} => n >= 1)
    BY RefusedCounted
  <2>2. Pending = {} => x = 0
    BY DEF RefusedAt
  <2> QED
    BY <1>1, <2>1, <2>2
<1>4. stage = "fetch" => n * a - x + 1 \in Nat
  <2> SUFFICES ASSUME stage = "fetch"
               PROVE  n * a - x + 1 \in Nat
    OBVIOUS
  <2> HIDE DEF n, x
  <2>1. CASE n = 0
    BY <1>1, <1>3, <2>1
  <2>2. CASE n # 0
    <3>1. n - 1 \in Nat
      BY <1>1, <2>2
    <3>2. (n - 1) * a \in Nat /\ (n - 1) * a = n * a - a /\ n * a \in Nat
      BY <1>1, <3>1, TimesAttempts
    <3>3. n * a >= a
      BY <1>1, <3>2
    <3> QED
      BY <1>3, <3>2, <3>3, RetriesAssumption
  <2> QED
    BY <2>1, <2>2
<1>5. m * a \in Nat
  BY <1>1, TimesAttempts
<1> HIDE DEF a, n, m, d, x
<1>6. stage \in {"idle", "discover", "fetch", "done", "no_run", "failed"}
  BY DEF TypeOK, Stage
<1> QED
  BY <1>1, <1>2, <1>4, <1>5, <1>6

\* One step of the client.
LEMMA ClientStepCounts ==
  ASSUME TypeOK, Fetched, Quiet, Untouched, ClientStep
  PROVE  StepsLeft' < StepsLeft
<1> USE DEF provider, request
<1> DEFINE a == Retries + 2
           n == Cardinality(Pending)
           m == Cardinality(forecast_hours)
           d == Cardinality(CandidateRunTimes \ tried)
<1>1. /\ a \in Nat /\ n \in Nat /\ m \in Nat /\ d \in Nat
      /\ Pending \in SUBSET Nat /\ Pending \subseteq Hours
      /\ n * a \in Nat /\ (n - 1) * a = n * a - a /\ m * a \in Nat
      /\ StepsLeft \in Nat
  <2>1. a \in Nat /\ n \in Nat /\ m \in Nat /\ d \in Nat /\ Pending \in SUBSET Nat
        /\ Pending \subseteq Hours
    BY CallCounted, RetriesAssumption
  <2>2. StepsLeft \in Nat
    BY StepsAreCounted
  <2> HIDE DEF a, n, m, d
  <2> QED
    BY <2>1, <2>2, TimesAttempts
<1>2. /\ stage = "discover" => StepsLeft = d + m * a + 2
      /\ stage = "fetch" => StepsLeft = n * a - RefusedAt(Pending, refusals) + 1
  BY DEF StepsLeft
<1>3. stage' \in {"done", "no_run", "failed"} => StepsLeft' = 0
  BY DEF StepsLeft
<1>4. ASSUME stage = "discover" \/ stage = "fetch"
      PROVE  StepsLeft > 0
  <2>1. CASE stage = "discover"
    <3> HIDE DEF a, m, d
    <3> QED
      BY <1>1, <1>2, <2>1
  <2>2. CASE stage = "fetch"
    <3>1. RefusedAt(Pending, refusals) \in 0 .. Retries /\ (Pending # {} => n >= 1)
      BY <2>2, RefusedCounted
    <3>2. Pending = {} => RefusedAt(Pending, refusals) = 0
      BY DEF RefusedAt
    <3>3. n >= 1 => (n - 1) * a \in Nat
      <4> HIDE DEF n, a
      <4> QED
        BY <1>1, TimesAttempts
    <3>4. n >= 1 => n * a >= Retries + 2
      <4>1. n * a = (n - 1) * a + a
        <5> HIDE DEF n
        <5> QED
          BY <1>1
      <4> HIDE DEF n
      <4> QED
        BY <1>1, <3>3, <4>1, RetriesAssumption
    <3> HIDE DEF a, n
    <3> QED
      BY <1>1, <1>2, <2>2, <3>1, <3>2, <3>4, RetriesAssumption
  <2> QED
    BY <1>4, <2>1, <2>2
<1>5. ASSUME NEW c \in Time, NEW h \in Hours, ProbeAnswered(c, h)
      PROVE  StepsLeft' < StepsLeft
  <2>1. /\ stage = "discover" /\ stage' = "fetch" /\ refusals' = refusals
        /\ decoded = {} /\ decoded' = decoded /\ forecast_hours' = forecast_hours
    BY <1>5 DEF ProbeAnswered, NextCandidate, Quiet
  <2>2. Pending' = forecast_hours
    BY <2>1 DEF Pending
  <2>3. forecast_hours \in SUBSET Nat /\ \A k \in forecast_hours : refusals[k] = 0
    BY <2>1, HourTypes DEF Untouched, TypeOK
  <2>4. RefusedAt(forecast_hours, refusals) = 0
    BY <2>3, RefusedAtNone
  <2>5. StepsLeft' = m * a - 0 + 1
    BY <2>1, <2>2, <2>4 DEF StepsLeft
  <2> HIDE DEF a, m, d
  <2> QED
    BY <1>1, <1>2, <2>1, <2>5
<1>6. ASSUME NEW c \in Time, NEW h \in Hours, ProbeRefused(c, h)
      PROVE  StepsLeft' < StepsLeft
  <2>1. /\ stage = "discover" /\ stage' = "discover" /\ forecast_hours' = forecast_hours
        /\ c \in CandidateRunTimes \ tried /\ tried' = tried \cup {c}
    BY <1>6 DEF ProbeRefused, NextCandidate
  <2>2. CandidateRunTimes' = CandidateRunTimes
    BY <1>6 DEF ProbeRefused, CandidateRunTimes, Scheduled
  <2>3. Cardinality((CandidateRunTimes \ tried)') = d - 1
    BY <2>1, <2>2, CallCounted
  <2>4. StepsLeft' = Cardinality((CandidateRunTimes \ tried)') + m * a + 2
    BY <2>1 DEF StepsLeft
  <2> HIDE DEF a, m, d
  <2> QED
    BY <1>1, <1>2, <2>1, <2>3, <2>4
<1>7. CASE NoRunAvailable
  BY <1>1, <1>3, <1>4, <1>7 DEF NoRunAvailable
<1>8. ASSUME NEW h \in Hours, Downloaded(h)
      PROVE  StepsLeft' < StepsLeft
  <2>1. /\ stage = "fetch" /\ stage' = "fetch" /\ h \in Pending /\ \A k \in Pending : h <= k
        /\ refusals' = refusals
    BY <1>8 DEF Downloaded, NextHour
  <2>2. Pending' = Pending \ {h} /\ Cardinality(Pending \ {h}) = n - 1
    BY <1>8, <2>1, PendingShrinks, CallCounted
  <2>3. \A k \in Pending \ {h} : refusals[k] = 0
    <3> SUFFICES ASSUME NEW k \in Pending \ {h}
                 PROVE  refusals[k] = 0
      OBVIOUS
    <3>1. h <= k /\ h # k /\ h \in Nat /\ k \in Nat
      BY <1>1, <2>1
    <3>2. h < k
      BY <3>1
    <3> QED
      BY <2>1, <3>2 DEF Untouched
  <2>4. RefusedAt(Pending \ {h}, refusals) = 0
    <3>1. Pending \ {h} \in SUBSET Nat
      BY <1>1
    <3> QED
      BY <2>3, <3>1, RefusedAtNone
  <2>5. StepsLeft' = (n - 1) * a - 0 + 1
    BY <2>1, <2>2, <2>4 DEF StepsLeft
  <2>6. RefusedAt(Pending, refusals) \in 0 .. Retries
    BY <2>1, RefusedCounted
  <2>7. a = Retries + 2 /\ Retries \in Nat
    BY RetriesAssumption
  <2> HIDE DEF n, a
  <2> QED
    BY <1>1, <1>2, <2>1, <2>5, <2>6, <2>7
<1>9. ASSUME NEW h \in Hours, DownloadRefused(h)
      PROVE  StepsLeft' < StepsLeft
  <2>1. /\ stage = "fetch" /\ h \in Pending /\ \A k \in Pending : h <= k
        /\ stage' \in {"fetch", "failed"} /\ Pending' = Pending
        /\ refusals' = [refusals EXCEPT ![h] = @ + 1]
    BY <1>9 DEF DownloadRefused, NextHour, Pending
  <2>2. CASE stage' = "failed"
    BY <1>1, <1>3, <1>4, <2>1, <2>2
  <2>3. CASE stage' = "fetch"
    <3>1. RefusedAt(Pending, refusals) = refusals[h] /\ RefusedAt(Pending, refusals') = refusals'[h]
      BY <1>1, <2>1, RefusedAtFirst
    <3>2. refusals'[h] = refusals[h] + 1 /\ refusals[h] \in Nat
      BY <2>1, RetriesAssumption DEF TypeOK
    <3>3. StepsLeft' = n * a - RefusedAt(Pending, refusals') + 1
      BY <2>1, <2>3 DEF StepsLeft
    <3> HIDE DEF n, a
    <3> QED
      BY <1>1, <1>2, <2>1, <3>1, <3>2, <3>3
  <2> QED
    BY <2>1, <2>2, <2>3
<1>10. ASSUME NEW h \in Hours, Undecodable(h)
       PROVE  StepsLeft' < StepsLeft
  BY <1>1, <1>3, <1>4, <1>10 DEF Undecodable, NextHour
<1>11. CASE Finish
  BY <1>1, <1>3, <1>4, <1>11 DEF Finish
<1> QED
  BY <1>5, <1>6, <1>7, <1>8, <1>9, <1>10, <1>11 DEF ClientStep

\* discover_latest_run and fetch_run end: from where it is, a call takes at most
\* StepsLeft steps, whatever is refused and whatever appears online meanwhile.
THEOREM CallProgresses ==
  Spec => /\ [](StepsLeft \in Nat)
          /\ [][/\ ClientStep => StepsLeft' < StepsLeft
                /\ ~ClientStep /\ stage # "idle" => StepsLeft' = StepsLeft]_vars
<1> DEFINE Nearer == /\ ClientStep => StepsLeft' < StepsLeft
                     /\ ~ClientStep /\ stage # "idle" => StepsLeft' = StepsLeft
<1>1. IInv => TypeOK /\ Fetched /\ Quiet /\ StepsLeft \in Nat
  BY StepsAreCounted DEF IInv
<1>2. ASSUME IInv, Untouched, Next
      PROVE  Nearer
  <2>1. ASSUME ClientStep
        PROVE  StepsLeft' < StepsLeft
    <3>1. TypeOK /\ Fetched /\ Quiet
      BY <1>2 DEF IInv
    <3> QED
      BY <1>2, <2>1, <3>1, ClientStepCounts
  <2>2. ASSUME ~ClientStep, stage # "idle"
        PROVE  StepsLeft' = StepsLeft
    <3>1. PICK c \in Time, h \in Hours : Publish(c, h)
      BY <1>2, <2>2 DEF Next, ClientStep, Tick, Begin
    <3>2. UNCHANGED <<client, forecast_hours, now, stage, tried, decoded, refusals>>
      BY <3>1 DEF Publish, request
    <3>3. Pending' = Pending /\ CandidateRunTimes' = CandidateRunTimes
      BY <3>2 DEF Pending, CandidateRunTimes, Scheduled
    <3> QED
      BY <3>2, <3>3 DEF StepsLeft
  <2> QED
    BY <2>1, <2>2
<1>3. IInv /\ Untouched /\ [Next]_vars => [Nearer]_vars
  BY <1>2
<1> HIDE DEF Nearer
<1>4. Spec => [](StepsLeft \in Nat) /\ [][Nearer]_vars
  BY <1>1, <1>3, IInvHolds, UntouchedHolds, PTL DEF Spec
<1> QED
  BY <1>4 DEF Nearer

\* A guard of a step of the client holds.
CanStep ==
  \/ stage = "discover" /\ \A c \in CandidateRunTimes \ tried : ~Fresh(c)
  \/ \E c \in Time, h \in Hours : NextCandidate(c) /\ FirstHour(h)
  \/ stage = "fetch" /\ Pending = {}
  \/ \E h \in Hours : NextHour(h)

\* A call that has not ended has a step to take: the loops over the candidates and
\* the hours find the next one, or know that there is none.
THEOREM CallIsNeverStuck == Spec => [](stage \in {"discover", "fetch"} => CanStep)
<1>1. TypeOK /\ Untouched => (stage \in {"discover", "fetch"} => CanStep)
  <2> SUFFICES ASSUME TypeOK, Untouched, stage \in {"discover", "fetch"}
               PROVE  CanStep
    OBVIOUS
  <2>1. CASE stage = "fetch"
    <3>1. Pending \in SUBSET Nat /\ Pending \subseteq Hours
      BY CallCounted
    <3>2. Pending # {} => \E h \in Pending : \A k \in Pending : h <= k
      BY <3>1, LeastNat
    <3> QED
      BY <2>1, <3>1, <3>2 DEF CanStep, NextHour
  <2>2. ASSUME stage = "discover", NEW c \in CandidateRunTimes \ tried, Fresh(c)
        PROVE  CanStep
    <3> DEFINE ages == {now - b : b \in CandidateRunTimes \ tried}
    <3>1. \A b \in CandidateRunTimes \ tried : b \in Time /\ b \in Nat /\ b <= now /\ now \in Nat
      BY MaxClockAssumption DEF CandidateRunTimes, Time, TypeOK
    <3>2. ages \subseteq Nat /\ ages # {}
      BY <3>1
    <3>3. PICK g \in ages : \A k \in ages : g <= k
      BY <3>2, LeastNat
    <3>4. PICK b \in CandidateRunTimes \ tried : g = now - b
      BY <3>3
    <3>5. \A e \in CandidateRunTimes \ tried : now - b <= now - e
      BY <3>3, <3>4
    <3>6. client \in Client /\ Window[client] \in Nat
      BY WindowAssumption DEF TypeOK
    <3>7. Fresh(b) /\ \A e \in CandidateRunTimes \ tried : e <= b
      BY <2>2, <3>1, <3>5, <3>6 DEF Fresh
    <3>8. forecast_hours \subseteq Hours /\ forecast_hours \subseteq Nat /\ forecast_hours # {}
      BY HourTypes DEF TypeOK, Untouched
    <3>9. PICK h \in forecast_hours : \A k \in forecast_hours : h <= k
      BY <3>8, LeastNat
    <3> QED
      BY <2>2, <3>1, <3>7, <3>8, <3>9 DEF CanStep, NextCandidate, FirstHour
  <2> QED
    BY <2>1, <2>2 DEF CanStep
<1> QED
  BY <1>1, UntouchedHolds, TypeCorrect, PTL
==============================================================================
