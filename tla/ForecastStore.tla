---------------------------- MODULE ForecastStore ----------------------------
(***************************************************************************)
(* The forecast_runs and forecast_frames collections as their readers know *)
(* them: the frames stored of each run, and per provider the run document  *)
(* with the latest runTime.  A write replaces the frames of one run, or    *)
(* records a failed run, whichever of the steps of an ingestion it is.     *)
(*                                                                         *)
(* CurrentRisk reads such a store, and IngestionStore shows that the       *)
(* executions of ForecastIngestion make one.                               *)
(***************************************************************************)
EXTENDS Naturals

CONSTANTS
  Provider,  \* forecast providers
  Cycle,     \* the instants of model cycles
  Contents,  \* what an ingestion may leave of a run: sets of cells records
  NoRun,     \* no run document of a provider
  MaxClock   \* bound on the clock

Time == 0 .. MaxClock

\* What a reader needs of a run document.
RunDocument == [time : Time, failed : BOOLEAN]

ASSUME ClockAssumption == Cycle \subseteq Nat /\ MaxClock \in Nat
ASSUME NoRunAssumption == NoRun \notin RunDocument

VARIABLES
  clock,
  frames,       \* forecast_frames
  latest        \* per provider, the document of forecast_runs with the latest runTime

Frame(p, run, c) ==
  [provider |-> p, run |-> run, lead |-> c.lead, window |-> c.window, rain |-> c.rain]

\* A failed run carries the wall clock, which is past the cycle of its hour.
NewerRun(r, s) == r.time > s.time \/ (r.time = s.time /\ r.failed /\ ~ s.failed)

StoreInit ==
  /\ clock = 0
  /\ frames = {}
  /\ latest = [p \in Provider |-> NoRun]

\* A run document is stored: it is the latest one of its provider unless it is late.
Put(p, r) ==
  latest' = IF latest[p] = NoRun \/ ~ NewerRun(latest[p], r)
            THEN [latest EXCEPT ![p] = r]
            ELSE latest

\* upsert_run and upsert_frames, or the part of it that has taken effect: the
\* frames of the run are replaced.
StoreRun(p, run, content) ==
  /\ run <= clock
  /\ UNCHANGED clock
  /\ Put(p, [time |-> run, failed |-> FALSE])
  /\ frames' = {f \in frames : f.provider # p \/ f.run # run}
                 \cup {Frame(p, run, c) : c \in content}

\* A failed ingestion stores a run document without frames; its time is when the
\* execution began.
FailRun(p, began) ==
  /\ began <= clock
  /\ Put(p, [time |-> began, failed |-> TRUE])
  /\ UNCHANGED <<clock, frames>>

Advance ==
  /\ clock < MaxClock
  /\ clock' = clock + 1
  /\ UNCHANGED <<frames, latest>>

StoreNext ==
  \/ Advance
  \/ \E p \in Provider, began \in Time : FailRun(p, began)
  \/ \E p \in Provider, run \in Cycle, content \in Contents : StoreRun(p, run, content)

StoreSpec == StoreInit /\ [][StoreNext]_<<clock, frames, latest>>
==============================================================================
