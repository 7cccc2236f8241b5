---------------------------- MODULE ProviderFetch ----------------------------
(***************************************************************************)
(* One call of discover_latest_run and fetch_run of the network clients,   *)
(* GfsForecastProviderClient and EcmwfOpenDataProviderClient, against a    *)
(* provider that publishes the files of a cycle one forecast hour after    *)
(* another, while the client probes and downloads.                         *)
(*                                                                         *)
(* The client probes the newest cycles for their first requested hour and  *)
(* takes the first that answers; then it downloads every requested hour of *)
(* that cycle, with retries, and turns the rainfall of the files into      *)
(* rainfall of windows.  A request for a file that is not published is     *)
(* refused; one for a published file may be refused too (time-out, error   *)
(* status, a page instead of GRIB2).                                       *)
(*                                                                         *)
(* Rainfall is that of one grid point: points are never combined.          *)
(***************************************************************************)
EXTENDS ModelCycles, FiniteSets

CONSTANTS
  Hours,      \* the forecast hours of a cycle that some file holds
  Period,     \* per client, hours between two cycles
  Window,     \* per client, freshness_threshold_hours
  Lookback,   \* RUN_DISCOVERY_LOOKBACK_CYCLES
  Retries,    \* retries
  Total,      \* per cycle and hour, the run total of the model, in mm
  MaxClock    \* bound on the clock

Client == {"gfs", "ecmwf"}

Time == 0 .. MaxClock

Steps == {0} \cup Hours

SixHours == 6

\* Start of the interval whose rainfall a GFS file holds.
IntervalStart(h) == (h - 1) - ((h - 1) % SixHours)

ASSUME HoursAssumption == Hours \subseteq Nat \ {0} /\ IsFiniteSet(Hours)
ASSUME IntervalAssumption == \A h \in Hours : IntervalStart(h) \in Steps
ASSUME PeriodAssumption == Period \in [Client -> Nat \ {0}]
ASSUME WindowAssumption == Window \in [Client -> Nat]
ASSUME RetriesAssumption == Retries \in Nat
ASSUME TotalAssumption ==
  Total \in [Time -> [Steps -> Nat]] /\ \A c \in Time : Total[c][0] = 0
ASSUME MaxClockAssumption == MaxClock \in Nat

\* The window spans fewer cycles than the client looks back.
ASSUME LookbackAssumption ==
  Lookback \in Nat /\ \A k \in Client : Window[k] < Lookback * Period[k]

VARIABLES
  clock,          \* wall clock
  published,      \* the hours of each cycle that are online
  client,         \* the client in use
  forecast_hours, \* the requested hours
  stage,          \* where the call is
  now,            \* the reference time of the call
  tried,          \* candidates whose probe was refused
  run_time,       \* the cycle discovery settled on
  decoded,        \* the hours downloaded and decoded, and the record picked in each
  refusals,       \* refused attempts to download each hour
  artifacts,      \* what fetch_run returned: windows of rainfall
  glitch,         \* history: was a probe of a published file refused?
  undecodable,    \* history: was a file without a usable record downloaded?
  at_start        \* history: what was published when the call began

provider == <<clock, published>>
request == <<client, forecast_hours, now, at_start>>
vars == <<provider, request, stage, tried, run_time, decoded, refusals,
          artifacts, glitch, undecodable>>

Stage == {"idle", "discover", "fetch", "done", "no_run", "failed"}

\* Rainfall, in mm, from hour start to hour end of a cycle.
Record == [start : Steps, end : Hours, mm : Int]

TypeOK ==
  /\ clock \in Time
  /\ published \in [Time -> SUBSET Hours]
  /\ client \in Client
  /\ forecast_hours \in SUBSET Hours
  /\ stage \in Stage
  /\ now \in Time
  /\ tried \in SUBSET Time
  /\ run_time \in Time
  /\ decoded \in SUBSET Record
  /\ refusals \in [Hours -> 0 .. Retries + 1]
  /\ artifacts \in SUBSET Record
  /\ glitch \in BOOLEAN
  /\ undecodable \in BOOLEAN
  /\ at_start \in [Time -> SUBSET Hours]

\* build_gfs_client and build_ecmwf_client refuse an empty list of hours.
Init ==
  /\ clock = 0
  /\ published = [c \in Time |-> {}]
  /\ client \in Client
  /\ forecast_hours \in (SUBSET Hours) \ {{}}
  /\ stage = "idle"
  /\ now = 0
  /\ tried = {}
  /\ run_time = 0
  /\ decoded = {}
  /\ refusals = [h \in Hours |-> 0]
  /\ artifacts = {}
  /\ glitch = FALSE
  /\ undecodable = FALSE
  /\ at_start = published

------------------------------------------------------------------------------
(* The files.  A GFS file holds the rainfall since the last multiple of six *)
(* hours and, later than that, the run total as well; an ECMWF file holds   *)
(* the run total.                                                           *)

RunTotal(c, h) == [start |-> 0, end |-> h, mm |-> Total[c][h]]

File(c, h) ==
  IF client = "gfs"
  THEN LET s == IntervalStart(h)
       IN  {RunTotal(c, h), [start |-> s, end |-> h, mm |-> Total[c][h] - Total[c][s]]}
  ELSE {RunTotal(c, h)}

MutDecode(file) == CHOOSE m \in file : \A n \in file : m.start <= n.start

\* decode_apcp_message prefers the shortest window, decode_tp_message the record
\* that starts first.
Decode(file) ==
  CHOOSE m \in file :
    \A n \in file : IF client = "gfs" THEN m.start >= n.start ELSE m.start <= n.start

------------------------------------------------------------------------------
(* The provider. *)

\* Hours pass before the call; the call itself takes minutes, and never reads the
\* clock again.
Tick ==
  /\ stage = "idle"
  /\ clock < MaxClock
  /\ clock' = clock + 1
  /\ UNCHANGED <<published, request, stage, tried, run_time, decoded, refusals,
                 artifacts, glitch, undecodable>>

Scheduled(c) == c % Period[client] = 0

\* The hours of a cycle appear in order, some time after its nominal time.
Publish(c, h) ==
  /\ Scheduled(c) /\ c <= clock
  /\ h \notin published[c]
  /\ \A k \in Hours : k < h => k \in published[c]
  /\ published' = [published EXCEPT ![c] = @ \cup {h}]
  /\ UNCHANGED <<clock, request, stage, tried, run_time, decoded, refusals,
                 artifacts, glitch, undecodable>>

------------------------------------------------------------------------------
(* discover_latest_run. *)

Begin ==
  /\ stage = "idle"
  /\ stage' = "discover"
  /\ now' = clock
  /\ at_start' = published
  /\ UNCHANGED <<provider, client, forecast_hours, tried, run_time, decoded,
                 refusals, artifacts, glitch, undecodable>>

\* The newest Lookback scheduled cycles that are not in the future.
CandidateRunTimes ==
  {c \in Time : /\ Scheduled(c) /\ c <= now
                /\ c + Lookback * Period[client] > now - (now % Period[client])}

Fresh(c) == now - c <= Window[client]

MutNextCandidate(c) ==
  /\ stage = "discover"
  /\ c \in CandidateRunTimes \ tried /\ Fresh(c)

\* The loop is at candidate c: the newer ones were refused, and c is not too old.
NextCandidate(c) ==
  /\ stage = "discover"
  /\ c \in CandidateRunTimes \ tried /\ Fresh(c)
  /\ \A d \in CandidateRunTimes \ tried : d <= c

FirstHour(h) == h \in forecast_hours /\ \A k \in forecast_hours : h <= k

ProbeAnswered(c, h) ==
  /\ NextCandidate(c)
  /\ FirstHour(h) /\ h \in published[c]
  /\ run_time' = c
  /\ stage' = "fetch"
  /\ UNCHANGED <<provider, request, tried, decoded, refusals, artifacts, glitch,
                 undecodable>>

\* Not there, or not answered: the client cannot tell.
ProbeRefused(c, h) ==
  /\ NextCandidate(c)
  /\ FirstHour(h)
  /\ tried' = tried \cup {c}
  /\ glitch' = (glitch \/ h \in published[c])
  /\ UNCHANGED <<provider, request, stage, run_time, decoded, refusals, artifacts,
                 undecodable>>

\* The next candidate is too old, or there is none.
NoRunAvailable ==
  /\ stage = "discover"
  /\ \A c \in CandidateRunTimes \ tried : ~Fresh(c)
  /\ stage' = "no_run"
  /\ UNCHANGED <<provider, request, tried, run_time, decoded, refusals, artifacts,
                 glitch, undecodable>>

------------------------------------------------------------------------------
(* fetch_run. *)

Pending == forecast_hours \ {m.end : m \in decoded}

\* The loop is at hour h.
NextHour(h) == stage = "fetch" /\ h \in Pending /\ \A k \in Pending : h <= k

Downloaded(h) ==
  /\ NextHour(h)
  /\ h \in published[run_time]
  /\ Decode(File(run_time, h)).mm >= 0
  /\ decoded' = decoded \cup {Decode(File(run_time, h))}
  /\ UNCHANGED <<provider, request, stage, tried, run_time, refusals, artifacts,
                 glitch, undecodable>>

MutDownloadRefused(h) ==
  /\ NextHour(h)
  /\ refusals' = [refusals EXCEPT ![h] = @ + 1]
  /\ stage' = IF refusals[h] >= Retries - 1 THEN "failed" ELSE stage
  /\ UNCHANGED <<provider, request, tried, run_time, decoded, artifacts, glitch,
                 undecodable>>

MutDownloadForever(h) ==
  /\ NextHour(h)
  /\ refusals' = [refusals EXCEPT ![h] = @ + 1]
  /\ UNCHANGED <<provider, request, stage, tried, run_time, decoded, artifacts, glitch,
                 undecodable>>

\* A refused attempt is repeated at once; Retries + 1 of them end the run.
DownloadRefused(h) ==
  /\ NextHour(h)
  /\ refusals' = [refusals EXCEPT ![h] = @ + 1]
  /\ stage' = IF refusals[h] = Retries THEN "failed" ELSE stage
  /\ UNCHANGED <<provider, request, tried, run_time, decoded, artifacts, glitch,
                 undecodable>>

\* No record for the hour, an unexpected unit, a negative amount, a grid that is
\* not a rectangle: no other attempt is made.
Undecodable(h) ==
  /\ NextHour(h)
  /\ h \in published[run_time]
  /\ stage' = "failed"
  /\ undecodable' = TRUE
  /\ UNCHANGED <<provider, request, tried, run_time, decoded, refusals, artifacts,
                 glitch>>

NotNegative(mm) == IF mm < 0 THEN 0 ELSE mm

\* The record of the requested hour before that of m; the run starts dry.
Prior(m) ==
  LET earlier == {n \in decoded : n.end < m.end}
  IN  IF earlier = {}
      THEN [start |-> 0, end |-> 0, mm |-> 0]
      ELSE CHOOSE n \in earlier : \A o \in earlier : o.end <= n.end

\* ECMWF: run totals become windows between requested hours.
Difference(m) ==
  [start |-> Prior(m).end, end |-> m.end, mm |-> NotNegative(m.mm - Prior(m).mm)]

Windows == IF client = "gfs" THEN decoded ELSE {Difference(m) : m \in decoded}

Finish ==
  /\ stage = "fetch" /\ Pending = {}
  /\ artifacts' = Windows
  /\ stage' = "done"
  /\ UNCHANGED <<provider, request, tried, run_time, decoded, refusals, glitch,
                 undecodable>>

Next ==
  \/ Tick
  \/ \E c \in Time, h \in Hours : Publish(c, h)
  \/ Begin
  \/ \E c \in Time, h \in Hours : ProbeAnswered(c, h) \/ ProbeRefused(c, h)
  \/ NoRunAvailable
  \/ \E h \in Hours : Downloaded(h) \/ DownloadRefused(h) \/ Undecodable(h)
  \/ Finish

Spec == Init /\ [][Next]_vars

------------------------------------------------------------------------------
(* Properties. *)

\* Discovery overlooks nothing: unless a probe of a published file was refused,
\* no cycle inside the window whose first hour was online when the call began is
\* newer than the one it settled on, and it reports that there is none only when
\* none was online.
DiscoveryOverlooksNothing ==
  stage \in {"fetch", "done", "failed", "no_run"} /\ ~glitch =>
    \A c \in Time, h \in Hours :
      FirstHour(h) /\ h \in at_start[c] /\ Fresh(c) =>
        stage # "no_run" /\ c <= run_time

\* All or nothing, as the ingestion relies on: fetch_run returns one window per
\* requested hour, all of a cycle that is due, not too old and online; or it raises,
\* after Retries + 1 refusals of one file or over a file it cannot decode, and
\* returns nothing.
AllHoursOrNone ==
  /\ stage = "done" =>
       /\ {a.end : a \in artifacts} = forecast_hours
       /\ \A a, b \in artifacts : a.end = b.end => a = b
       /\ forecast_hours \subseteq published[run_time]
       /\ run_time \in Discoverable(Period[client], Window[client], now)
  /\ stage = "failed" =>
       /\ artifacts = {}
       /\ undecodable \/ \E h \in forecast_hours : refusals[h] = Retries + 1

\* Interval rainfall is only comparable for hours that are multiples of six.
SixHourly == \A h \in forecast_hours : h % SixHours = 0

\* No rain is counted twice: every window holds what fell in it according to the
\* cycle it is of, never less than nothing, and no two windows overlap.  With GFS
\* this takes six-hourly hours: the intervals of hours 9 and 12 overlap.
RainCountedOnce ==
  /\ \A a \in artifacts :
       a.mm = NotNegative(Total[run_time][a.end] - Total[run_time][a.start])
  /\ client = "ecmwf" \/ SixHourly =>
       \A a, b \in artifacts : a = b \/ a.end <= b.start \/ b.end <= a.start
==============================================================================
