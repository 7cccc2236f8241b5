---------------------------- MODULE IngestionStore ----------------------------
(***************************************************************************)
(* What the executions of ForecastIngestion make of the two collections is *)
(* a ForecastStore: the store GET /api/risk/current and the alert phase    *)
(* read.  A step between two awaits of an execution is one write of that   *)
(* store, whatever the other executions do and wherever this one stops.    *)
(***************************************************************************)
EXTENDS ForecastIngestion

CONSTANTS
  Forecast,  \* per provider, cycle and hour: the lead, window and rain published
  NoRun      \* no run document of a provider

ASSUME NoStoredRunAssumption == NoRun \notin [time : Time, failed : BOOLEAN]

\* The hours found of a cycle; the copies of an hour are one frame to the readers.
HoursIn(p, c) == {h \in Hours : frames[p][c][h] > 0}

\* The content of a cycle of which these hours are stored.
Content(p, c, H) == {Forecast[p][c][h] : h \in H}

\* normalize_frames: a document names its provider and its cycle beside the content.
FrameOf(p, c, h) ==
  [provider |-> p, run |-> c, lead |-> Forecast[p][c][h].lead,
   window |-> Forecast[p][c][h].window, rain |-> Forecast[p][c][h].rain]

FramesOfCycle(p, c) == {FrameOf(p, c, h) : h \in HoursIn(p, c)}

StoredFrames == UNION {FramesOfCycle(p, c) : p \in Provider, c \in Time}

\* find_one sorted by descending run_time.
LatestDocument(p) ==
  IF runs[p] = {} THEN NoRun
  ELSE LET r == CHOOSE r \in runs[p] : \A s \in runs[p] \ {r} : Newer(r, s)
       IN  [time |-> r.time, failed |-> r.status = "failed"]

LatestDocuments == [p \in Provider |-> LatestDocument(p)]

StorableContents ==
  UNION {{Content(p, c, H) : H \in SUBSET Hours} : p \in Provider, c \in Time}

Store == INSTANCE ForecastStore
           WITH Cycle <- Time, Contents <- StorableContents,
                frames <- StoredFrames, latest <- LatestDocuments

-----------------------------------------------------------------------------
(* Properties. *)

\* The executions implement the store: every step of upsert_run, delete_many,
\* insert_many and of the recording of a failure puts one run document or replaces
\* the frames of one run whose document is there, and no overlap, crash or database
\* error makes more of it than that.  In particular the latest run of a provider
\* never goes back, and no frame is found of a run before its document.
StoreImplemented == Store!StoreSpec
=============================================================================
