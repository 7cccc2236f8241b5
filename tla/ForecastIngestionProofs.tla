----------------------- MODULE ForecastIngestionProofs -----------------------
(***************************************************************************)
(* Proofs about ForecastIngestion, for any executions, providers, forecast *)
(* hours, windows and thresholds; and about ForecastReads, for any readers *)
(* beside them.                                                            *)
(***************************************************************************)
EXTENDS ForecastReads, IngestionStore, OrderFacts, TLAPS

\* The providers to ingest are providers.
LEMMA ConstantTypes ==
  /\ Len(Ingested) \in Nat
  /\ \A i \in 1 .. Len(Ingested) : Ingested[i] \in Provider
BY IngestedAssumption

\* While an execution stores a cycle, its provider and cycle are well typed.
LEMMA CurrentType ==
  ASSUME TypeOK, NEW j \in Job, at[j] <= Len(Ingested)
  PROVE  /\ at[j] \in 1 .. Len(Ingested)
         /\ Current(j) \in Provider
         /\ CurrentCycle(j) \in Time
BY ConstantTypes DEF TypeOK, Current, CurrentCycle

\* Every variable keeps its type; in particular a cycle is only stored for a
\* provider the execution was asked to ingest.
THEOREM TypeCorrect == Spec => []TypeOK
<1>1. Init => TypeOK
  <2> SUFFICES ASSUME Init
               PROVE  TypeOK
    OBVIOUS
  <2>1. 0 \in Time /\ 1 \in 1 .. Len(Ingested) + 1
    BY ConstantTypes, MaxClockAssumption DEF Time
  <2>2. frames \in [Provider -> [Time -> [Hours -> Nat]]]
    BY DEF Init
  <2>3. runs \in [Provider -> SUBSET Run]
    BY DEF Init
  <2>4. \A j \in Job : stage[j] = "idle"
    BY DEF Init
  <2>5. cycle \in [Job -> [Provider -> Time]]
    BY <2>1 DEF Init
  <2>6. result \in [Job -> [Provider -> {"none", "stored", "failed"}]]
    BY DEF Init
  <2> QED
    BY <2>1, <2>2, <2>3, <2>4, <2>5, <2>6 DEF Init, TypeOK, Stage
<1>2. TypeOK /\ [Next]_vars => TypeOK'
  <2> SUFFICES ASSUME TypeOK, [Next]_vars
               PROVE  TypeOK'
    OBVIOUS
  <2> USE DEF Goto
  <2>1. CASE UNCHANGED vars
    BY <2>1 DEF TypeOK, vars, store, progress, ops
  <2>2. CASE Tick
    BY <2>2, MaxClockAssumption DEF TypeOK, Tick, Time, store, progress, ops
  <2>3. CASE StoreObservation
    BY <2>3 DEF TypeOK, StoreObservation, progress, ops
  <2>4. ASSUME NEW j \in Job, Start(j)
        PROVE  TypeOK'
    BY <2>4 DEF TypeOK, Start, Stage, Running, Ended, store, progress, ops
  <2>5. ASSUME NEW j \in Job, NEW c \in Time, RecordRun(j, c)
        PROVE  TypeOK'
    <3>1. Current(j) \in Provider
      BY <2>5, CurrentType DEF RecordRun
    <3>2. runs' \in [Provider -> SUBSET Run]
      BY <2>5, <3>1 DEF TypeOK, RecordRun, Run
    <3>3. cycle' \in [Job -> [Provider -> Time]]
      BY <2>5, <3>1 DEF TypeOK, RecordRun
    <3> QED
      BY <2>5, <3>2, <3>3 DEF TypeOK, RecordRun, Stage, Running, ops
  <2>6. ASSUME NEW j \in Job, RecordFailure(j)
        PROVE  TypeOK'
    <3>1. Current(j) \in Provider
      BY <2>6, CurrentType DEF RecordFailure
    <3>2. runs' \in [Provider -> SUBSET Run]
      BY <2>6, <3>1 DEF TypeOK, RecordFailure, Run
    <3>3. result' \in [Job -> [Provider -> {"none", "stored", "failed"}]]
      BY <2>6, <3>1 DEF TypeOK, RecordFailure
    <3>4. at' \in [Job -> 1 .. Len(Ingested) + 1]
      BY <2>6, ConstantTypes DEF TypeOK, RecordFailure
    <3>5. \A i \in Job : stage'[i] \in {"delete", "insert"} => at'[i] <= Len(Ingested)
      BY <2>6 DEF TypeOK, RecordFailure
    <3> QED
      BY <2>6, <3>2, <3>3, <3>4, <3>5 DEF TypeOK, RecordFailure, ops
  <2>7. ASSUME NEW j \in Job, DeleteFrames(j)
        PROVE  TypeOK'
    <3>1. Current(j) \in Provider /\ CurrentCycle(j) \in Time
      BY <2>7, CurrentType DEF DeleteFrames, TypeOK
    <3>2. frames' \in [Provider -> [Time -> [Hours -> Nat]]]
      BY <2>7, <3>1 DEF TypeOK, DeleteFrames
    <3> QED
      BY <2>7, <3>2 DEF TypeOK, DeleteFrames, Stage, Running, progress, ops
  <2>8. ASSUME NEW j \in Job, NEW h \in Hours, InsertFrame(j, h)
        PROVE  TypeOK'
    <3>1. Current(j) \in Provider /\ CurrentCycle(j) \in Time
      BY <2>8, CurrentType DEF InsertFrame, TypeOK
    <3>2. frames[Current(j)][CurrentCycle(j)][h] + 1 \in Nat
      BY <3>1 DEF TypeOK
    <3>3. frames' \in [Provider -> [Time -> [Hours -> Nat]]]
      BY <2>8, <3>1, <3>2 DEF TypeOK, InsertFrame
    <3> QED
      BY <2>8, <3>3 DEF TypeOK, InsertFrame, ops
  <2>9. ASSUME NEW j \in Job, NextProvider(j)
        PROVE  TypeOK'
    <3>1. at[j] <= Len(Ingested) /\ Current(j) \in Provider
      BY <2>9, CurrentType DEF NextProvider, TypeOK
    <3>2. result' \in [Job -> [Provider -> {"none", "stored", "failed"}]]
      BY <2>9, <3>1 DEF TypeOK, NextProvider
    <3>3. at' \in [Job -> 1 .. Len(Ingested) + 1]
      BY <2>9, <3>1, ConstantTypes DEF TypeOK, NextProvider
    <3> QED
      BY <2>9, <3>2, <3>3 DEF TypeOK, NextProvider, Stage, Running, store, ops
  <2>10. ASSUME NEW j \in Job, ReadQuality(j)
         PROVE  TypeOK'
    <3>1. Breaching \in SUBSET Pipeline
      BY DEF Breaching, Pipeline
    <3> QED
      BY <2>10, <3>1 DEF TypeOK, ReadQuality, Stage, Running, store, progress
  <2>11. ASSUME NEW j \in Job, NEW e \in Pipeline, Notify(j, e)
         PROVE  TypeOK'
    BY <2>11 DEF TypeOK, Notify, store, progress
  <2>12. ASSUME NEW j \in Job,
                \/ EndIngestion(j) \/ ReadQualityRaises(j) \/ NotifyRaises(j)
                \/ BeginAlert(j) \/ EndAlert(j) \/ DatabaseError(j) \/ Crash(j)
         PROVE  TypeOK'
    <3>1. PICK s \in {"quality", "raised", "alert", "done", "aborted", "crashed"} : Goto(j, s)
      BY <2>12 DEF EndIngestion, ReadQualityRaises, NotifyRaises, BeginAlert, EndAlert,
         DatabaseError, Crash
    <3>2. UNCHANGED <<clock, store, retrieved_at, progress, ops, overlap>>
      BY <2>12 DEF EndIngestion, ReadQualityRaises, NotifyRaises, BeginAlert, EndAlert,
         DatabaseError, Crash
    <3> QED
      BY <3>1, <3>2 DEF TypeOK, Stage, Running, Ended, store, progress, ops
  <2> QED
    BY <2>1, <2>2, <2>3, <2>4, <2>5, <2>6, <2>7, <2>8, <2>9, <2>10, <2>11, <2>12 DEF Next
<1> QED
  BY <1>1, <1>2, PTL DEF Spec

-----------------------------------------------------------------------------
(* Runs and frames, with any overlap. *)

Storing == {"delete", "insert"}

\* A step that touches neither collection: at most an execution leaves what it
\* was storing behind.
Passive ==
  /\ UNCHANGED <<runs, frames, progress>>
  /\ \A j \in Job :
       \/ stage'[j] = stage[j]
       \/ stage[j] \notin Storing \cup Ended /\ stage'[j] \notin Storing \cup {"idle"}
       \/ stage[j] \in Storing /\ stage'[j] \in {"aborted", "crashed"}

\* Five actions touch the two collections or the progress of an execution.
LEMMA StepKinds ==
  ASSUME TypeOK, [Next]_vars
  PROVE  \/ Passive
         \/ \E j \in Job :
              \/ \E c \in Time : RecordRun(j, c)
              \/ RecordFailure(j)
              \/ DeleteFrames(j)
              \/ \E h \in Hours : InsertFrame(j, h)
              \/ NextProvider(j)
<1>1. CASE UNCHANGED vars \/ Tick \/ StoreObservation
  BY <1>1 DEF Passive, Tick, StoreObservation, vars, store, progress
<1>2. ASSUME NEW j \in Job,
             \/ Start(j) \/ EndIngestion(j) \/ ReadQuality(j) \/ ReadQualityRaises(j)
             \/ (\E e \in Pipeline : Notify(j, e))
             \/ NotifyRaises(j) \/ BeginAlert(j) \/ EndAlert(j) \/ DatabaseError(j) \/ Crash(j)
      PROVE  Passive
  <2>1. UNCHANGED <<runs, frames, progress>>
    BY <1>2 DEF Start, EndIngestion, ReadQuality, ReadQualityRaises, Notify, NotifyRaises,
       BeginAlert, EndAlert, DatabaseError, Crash, store
  <2>2. PICK s \in Stage :
          /\ stage' = [stage EXCEPT ![j] = s]
          /\ \/ s = stage[j]
             \/ stage[j] \notin Storing \cup Ended /\ s \notin Storing \cup {"idle"}
             \/ stage[j] \in Storing /\ s \in {"aborted", "crashed"}
    <3>1. CASE \E e \in Pipeline : Notify(j, e)
      <4>1. stage[j] \in Stage /\ stage' = [stage EXCEPT ![j] = stage[j]]
        BY <3>1 DEF Notify, TypeOK
      <4> QED
        BY <4>1
    <3>2. CASE Start(j) \/ EndIngestion(j) \/ ReadQuality(j) \/ ReadQualityRaises(j)
               \/ NotifyRaises(j) \/ BeginAlert(j) \/ EndAlert(j)
      BY <3>2 DEF Start, EndIngestion, ReadQuality, ReadQualityRaises, NotifyRaises,
         BeginAlert, EndAlert, Goto, Stage, Running, Ended, Storing
    <3>3. CASE DatabaseError(j) \/ Crash(j)
      BY <3>3 DEF DatabaseError, Crash, Goto, Stage, Running, Ended, Storing
    <3> QED
      BY <1>2, <3>1, <3>2, <3>3
  <2> QED
    BY <2>1, <2>2 DEF Passive, TypeOK
<1> QED
  BY <1>1, <1>2 DEF Next

\* While an execution stores a cycle its run document is there, and before
\* delete_many it still has every hour to insert.
WriterInv ==
  \A j \in Job :
    /\ stage[j] \in Storing => Stored(Current(j), CurrentCycle(j))
    /\ stage[j] = "delete" => left[j] = Hours

RunInv == WriterInv /\ FramesHaveRun /\ HolesNeedAnUnfinishedWriter

\* Run documents are never removed.
LEMMA RunsGrow ==
  ASSUME TypeOK, [Next]_vars, NEW p \in Provider
  PROVE  runs[p] \subseteq runs'[p]
<1>1. CASE Passive
  BY <1>1 DEF Passive
<1>2. ASSUME NEW j \in Job, NEW c \in Time, RecordRun(j, c)
      PROVE  runs[p] \subseteq runs'[p]
  BY <1>2 DEF RecordRun, TypeOK
<1>3. ASSUME NEW j \in Job, RecordFailure(j)
      PROVE  runs[p] \subseteq runs'[p]
  BY <1>3 DEF RecordFailure, TypeOK
<1>4. ASSUME NEW j \in Job,
             DeleteFrames(j) \/ (\E h \in Hours : InsertFrame(j, h)) \/ NextProvider(j)
      PROVE  runs[p] \subseteq runs'[p]
  BY <1>4 DEF DeleteFrames, InsertFrame, NextProvider, store
<1> QED
  BY <1>1, <1>2, <1>3, <1>4, StepKinds

\* upsert_run precedes the frames, whatever other executions do.
LEMMA WriterStep == TypeOK /\ WriterInv /\ [Next]_vars => WriterInv'
<1> SUFFICES ASSUME TypeOK, WriterInv, [Next]_vars, NEW i \in Job
             PROVE  /\ stage'[i] \in Storing => Stored(Current(i), CurrentCycle(i))'
                    /\ stage'[i] = "delete" => left'[i] = Hours
  BY DEF WriterInv
<1> USE DEF Storing
<1>1. CASE Passive
  BY <1>1 DEF Passive, WriterInv, Stored, Current, CurrentCycle, progress
<1>2. ASSUME NEW j \in Job, NEW c \in Time, RecordRun(j, c)
      PROVE  /\ stage'[i] \in Storing => Stored(Current(i), CurrentCycle(i))'
             /\ stage'[i] = "delete" => left'[i] = Hours
  <2>1. Current(j) \in Provider
    BY <1>2, CurrentType DEF RecordRun
  <2>2. CASE i = j
    BY <1>2, <2>1, <2>2 DEF RecordRun, Stored, Current, CurrentCycle, TypeOK
  <2>3. CASE i # j
    <3>1. /\ stage'[i] = stage[i] /\ left'[i] = left[i]
          /\ Current(i)' = Current(i) /\ CurrentCycle(i)' = CurrentCycle(i)
      BY <1>2, <2>3 DEF RecordRun, Goto, Current, CurrentCycle, TypeOK
    <3>2. stage[i] \in Storing => Current(i) \in Provider
      BY CurrentType DEF TypeOK
    <3> QED
      BY <3>1, <3>2, RunsGrow DEF WriterInv, Stored
  <2> QED
    BY <2>2, <2>3
<1>3. ASSUME NEW j \in Job, RecordFailure(j)
      PROVE  /\ stage'[i] \in Storing => Stored(Current(i), CurrentCycle(i))'
             /\ stage'[i] = "delete" => left'[i] = Hours
  <2>1. stage[i] \in Storing => i # j /\ Current(i) \in Provider
    BY <1>3, CurrentType DEF RecordFailure, TypeOK
  <2>2. /\ stage'[i] = stage[i] /\ left'[i] = left[i]
        /\ i # j => Current(i)' = Current(i) /\ CurrentCycle(i)' = CurrentCycle(i)
    BY <1>3 DEF RecordFailure, Current, CurrentCycle, TypeOK
  <2> QED
    BY <2>1, <2>2, RunsGrow DEF WriterInv, Stored
<1>4. ASSUME NEW j \in Job, DeleteFrames(j)
      PROVE  /\ stage'[i] \in Storing => Stored(Current(i), CurrentCycle(i))'
             /\ stage'[i] = "delete" => left'[i] = Hours
  BY <1>4 DEF DeleteFrames, Goto, WriterInv, Stored, Current, CurrentCycle, progress, TypeOK
<1>5. ASSUME NEW j \in Job, NEW h \in Hours, InsertFrame(j, h)
      PROVE  /\ stage'[i] \in Storing => Stored(Current(i), CurrentCycle(i))'
             /\ stage'[i] = "delete" => left'[i] = Hours
  BY <1>5 DEF InsertFrame, WriterInv, Stored, Current, CurrentCycle, TypeOK
<1>6. ASSUME NEW j \in Job, NextProvider(j)
      PROVE  /\ stage'[i] \in Storing => Stored(Current(i), CurrentCycle(i))'
             /\ stage'[i] = "delete" => left'[i] = Hours
  BY <1>6 DEF NextProvider, Goto, WriterInv, Stored, Current, CurrentCycle, store, TypeOK
<1> QED
  BY <1>1, <1>2, <1>3, <1>4, <1>5, <1>6, StepKinds

\* Frames are inserted only by an execution whose run document is stored.
LEMMA FramesStep == TypeOK /\ WriterInv /\ FramesHaveRun /\ [Next]_vars => FramesHaveRun'
<1> SUFFICES ASSUME TypeOK, WriterInv, FramesHaveRun, [Next]_vars,
                    NEW p \in Provider, NEW c \in Time, NEW h \in Hours,
                    frames'[p][c][h] > 0
             PROVE  Stored(p, c)'
  BY DEF FramesHaveRun
<1>1. CASE frames[p][c][h] > 0
  BY <1>1, RunsGrow DEF FramesHaveRun, Stored
<1>2. CASE ~(frames[p][c][h] > 0)
  <2>1. frames' # frames
    BY <1>2
  <2>2. PICK j \in Job : DeleteFrames(j) \/ \E k \in Hours : InsertFrame(j, k)
    BY <2>1, StepKinds DEF Passive, RecordRun, RecordFailure, NextProvider, store
  <2>3. Current(j) \in Provider /\ CurrentCycle(j) \in Time
    BY <2>2, CurrentType DEF DeleteFrames, InsertFrame, TypeOK
  <2>4. ~DeleteFrames(j)
    <3> SUFFICES ASSUME DeleteFrames(j)
                 PROVE  FALSE
      OBVIOUS
    <3>1. frames'[p][c][h] = 0 \/ frames'[p][c][h] = frames[p][c][h]
      BY <2>3 DEF DeleteFrames, TypeOK
    <3> QED
      BY <1>2, <3>1
  <2>5. PICK k \in Hours : InsertFrame(j, k)
    BY <2>2, <2>4
  <2>6. p = Current(j) /\ c = CurrentCycle(j)
    BY <1>2, <2>3, <2>5 DEF InsertFrame, TypeOK
  <2>7. Stored(p, c)
    <3>1. stage[j] = "insert"
      BY <2>5 DEF InsertFrame
    <3>2. Stored(Current(j), CurrentCycle(j))
      BY <3>1 DEF WriterInv, Storing
    <3> QED
      BY <2>6, <3>2
  <2> QED
    BY <2>7, RunsGrow DEF Stored
<1> QED
  BY <1>1, <1>2

\* Execution j accounts for the hole at hour h of cycle c.
Explains(j, p, c, h) ==
  /\ at[j] <= Len(Ingested) /\ Current(j) = p
  /\ cycle[j][p] = c
  /\ h \in left[j]
  /\ stage[j] \in {"delete", "insert", "aborted", "crashed"}

\* A new hole has the execution that makes it to explain it, an old one keeps its own.
LEMMA HolesStep ==
  TypeOK /\ WriterInv /\ HolesNeedAnUnfinishedWriter /\ [Next]_vars
    => HolesNeedAnUnfinishedWriter'
<1> SUFFICES ASSUME TypeOK, WriterInv, HolesNeedAnUnfinishedWriter, [Next]_vars,
                    NEW p \in Provider, NEW c \in Time, NEW h \in Hours,
                    Stored(p, c)', frames'[p][c][h] = 0
             PROVE  \E i \in Job : Explains(i, p, c, h)'
  BY DEF HolesNeedAnUnfinishedWriter, Explains
<1>1. Stored(p, c) /\ frames[p][c][h] = 0 => \E i \in Job : Explains(i, p, c, h)
  BY DEF HolesNeedAnUnfinishedWriter, Explains
<1>2. CASE Passive
  <2>1. Stored(p, c) /\ frames[p][c][h] = 0
    BY <1>2 DEF Passive, Stored
  <2>2. PICK i \in Job : Explains(i, p, c, h)
    BY <1>1, <2>1
  <2>3. Explains(i, p, c, h)'
    BY <1>2, <2>2 DEF Passive, Explains, Current, progress, Storing, Ended
  <2> QED
    BY <2>3
<1>3. ASSUME NEW j \in Job, NEW d \in Time, RecordRun(j, d)
      PROVE  \E i \in Job : Explains(i, p, c, h)'
  <2>1. Current(j) \in Provider /\ at[j] <= Len(Ingested)
    BY <1>3, CurrentType DEF RecordRun
  <2>2. CASE p = Current(j) /\ c = d
    <3>1. Explains(j, p, c, h)'
      BY <1>3, <2>1, <2>2 DEF RecordRun, Goto, Explains, Current, TypeOK
    <3> QED
      BY <3>1
  <2>3. CASE ~(p = Current(j) /\ c = d)
    <3>1. Stored(p, c) /\ frames[p][c][h] = 0
      BY <1>3, <2>1, <2>3 DEF RecordRun, Stored, TypeOK
    <3>2. PICK i \in Job : Explains(i, p, c, h)
      BY <1>1, <3>1
    <3>3. i # j
      BY <1>3, <3>2 DEF RecordRun, Explains
    <3>4. Explains(i, p, c, h)'
      BY <1>3, <3>2, <3>3 DEF RecordRun, Goto, Explains, Current, TypeOK
    <3> QED
      BY <3>4
  <2> QED
    BY <2>2, <2>3
<1>4. ASSUME NEW j \in Job, RecordFailure(j)
      PROVE  \E i \in Job : Explains(i, p, c, h)'
  <2>1. Current(j) \in Provider
    BY <1>4, CurrentType DEF RecordFailure
  <2>2. Stored(p, c) /\ frames[p][c][h] = 0
    BY <1>4, <2>1 DEF RecordFailure, Stored, TypeOK
  <2>3. PICK i \in Job : Explains(i, p, c, h)
    BY <1>1, <2>2
  <2>4. i # j
    BY <1>4, <2>3 DEF RecordFailure, Explains
  <2>5. Explains(i, p, c, h)'
    BY <1>4, <2>3, <2>4 DEF RecordFailure, Explains, Current, TypeOK
  <2> QED
    BY <2>5
<1>5. ASSUME NEW j \in Job, DeleteFrames(j)
      PROVE  \E i \in Job : Explains(i, p, c, h)'
  <2>1. /\ Current(j) \in Provider /\ CurrentCycle(j) \in Time
        /\ at[j] <= Len(Ingested) /\ left[j] = Hours
    BY <1>5, CurrentType DEF DeleteFrames, TypeOK, WriterInv
  <2>2. CASE p = Current(j) /\ c = CurrentCycle(j)
    <3>1. Explains(j, p, c, h)'
      BY <1>5, <2>1, <2>2
      DEF DeleteFrames, Goto, Explains, Current, CurrentCycle, progress, TypeOK
    <3> QED
      BY <3>1
  <2>3. CASE ~(p = Current(j) /\ c = CurrentCycle(j))
    <3>1. Stored(p, c) /\ frames[p][c][h] = 0
      BY <1>5, <2>1, <2>3 DEF DeleteFrames, Stored, TypeOK
    <3>2. PICK i \in Job : Explains(i, p, c, h)
      BY <1>1, <3>1
    <3>3. Explains(i, p, c, h)'
      BY <1>5, <3>2 DEF DeleteFrames, Goto, Explains, Current, progress, TypeOK
    <3> QED
      BY <3>3
  <2> QED
    BY <2>2, <2>3
<1>6. ASSUME NEW j \in Job, NEW k \in Hours, InsertFrame(j, k)
      PROVE  \E i \in Job : Explains(i, p, c, h)'
  <2>1. Current(j) \in Provider /\ CurrentCycle(j) \in Time
    BY <1>6, CurrentType DEF InsertFrame, TypeOK
  <2>2. ~(p = Current(j) /\ c = CurrentCycle(j) /\ h = k)
    <3>1. frames[p][c][h] \in Nat
      BY DEF TypeOK
    <3> QED
      BY <1>6, <2>1, <3>1 DEF InsertFrame, TypeOK
  <2>3. Stored(p, c) /\ frames[p][c][h] = 0
    BY <1>6, <2>1, <2>2 DEF InsertFrame, Stored, TypeOK
  <2>4. PICK i \in Job : Explains(i, p, c, h)
    BY <1>1, <2>3
  <2>5. Explains(i, p, c, h)'
    BY <1>6, <2>2, <2>4 DEF InsertFrame, Explains, Current, CurrentCycle, TypeOK
  <2> QED
    BY <2>5
<1>7. ASSUME NEW j \in Job, NextProvider(j)
      PROVE  \E i \in Job : Explains(i, p, c, h)'
  <2>1. Stored(p, c) /\ frames[p][c][h] = 0
    BY <1>7 DEF NextProvider, Stored, store
  <2>2. PICK i \in Job : Explains(i, p, c, h)
    BY <1>1, <2>1
  <2>3. i # j
    BY <1>7, <2>2 DEF NextProvider, Explains
  <2>4. Explains(i, p, c, h)'
    BY <1>7, <2>2, <2>3 DEF NextProvider, Goto, Explains, Current, TypeOK
  <2> QED
    BY <2>4
<1> QED
  BY <1>2, <1>3, <1>4, <1>5, <1>6, <1>7, StepKinds

\* The strengthening behind the two theorems that follow.
THEOREM RunsInductive == Spec => []RunInv
<1>1. Init => RunInv
  <2> SUFFICES ASSUME Init
               PROVE  RunInv
    OBVIOUS
  <2>1. WriterInv
    BY DEF Init, WriterInv, Storing
  <2>2. FramesHaveRun
    BY DEF Init, FramesHaveRun
  <2>3. HolesNeedAnUnfinishedWriter
    BY DEF Init, HolesNeedAnUnfinishedWriter, Stored
  <2> QED
    BY <2>1, <2>2, <2>3 DEF RunInv
<1>2. TypeOK /\ RunInv /\ [Next]_vars => RunInv'
  BY WriterStep, FramesStep, HolesStep DEF RunInv
<1> QED
  BY <1>1, <1>2, TypeCorrect, PTL DEF Spec

\* No frame is ever found without its run document.
THEOREM FramesHaveRunAlways == Spec => []FramesHaveRun
<1>1. RunInv => FramesHaveRun
  BY DEF RunInv
<1> QED
  BY <1>1, RunsInductive, PTL

\* A hole in a stored cycle is the work of an unfinished execution, with any
\* overlap and any failures.
THEOREM HolesNeedAnUnfinishedWriterAlways == Spec => []HolesNeedAnUnfinishedWriter
<1>1. RunInv => HolesNeedAnUnfinishedWriter
  BY DEF RunInv
<1> QED
  BY <1>1, RunsInductive, PTL

-----------------------------------------------------------------------------
(* Without overlap. *)

Active(j) == stage[j] \in Running

\* The only execution that runs has inserted once what is no longer left of the
\* cycle it stores, and has stored whole every other cycle it claims.
OneRuns == \A i, j \in Job : Active(i) /\ Active(j) => i = j

NoDuplicates == \A p \in Provider, c \in Time, h \in Hours : frames[p][c][h] <= 1

InsertedOnce(j) ==
  stage[j] = "insert" =>
    \A h \in Hours :
      frames[Current(j)][CurrentCycle(j)][h] = IF h \in left[j] THEN 0 ELSE 1

ClaimsHold(j) ==
  Active(j) => \A p \in Provider :
    result[j][p] = "stored" /\ ~(stage[j] \in Storing /\ Current(j) = p) =>
      Stored(p, cycle[j][p]) /\ Whole(p, cycle[j][p])

IdleInv == \A j \in Job : stage[j] = "idle" => \A p \in Provider : result[j][p] = "none"

AloneInv ==
  ~overlap => /\ OneRuns
              /\ NoDuplicates
              /\ \A j \in Job : InsertedOnce(j) /\ ClaimsHold(j)

\* An execution that runs was idle or running before; if it was idle, either
\* nothing else ran or the step records an overlap.
LEMMA ActiveStep ==
  ASSUME TypeOK, [Next]_vars, ~overlap'
  PROVE  /\ ~overlap
         /\ \A j \in Job : Active(j)' =>
              \/ Active(j)
              \/ /\ Start(j)
                 /\ \A i \in Job : ~Active(i)
<1>1. ASSUME NEW j \in Job, Start(j)
      PROVE  /\ ~overlap
             /\ \A i \in Job : ~Active(i)
             /\ \A i \in Job : Active(i)' => Active(i) \/ i = j
  BY <1>1 DEF Start, Goto, Active, TypeOK
<1>2. ASSUME NEW j \in Job,
             \/ \E c \in Time : RecordRun(j, c)
             \/ RecordFailure(j)
             \/ DeleteFrames(j)
             \/ \E h \in Hours : InsertFrame(j, h)
             \/ NextProvider(j) \/ EndIngestion(j) \/ ReadQuality(j) \/ ReadQualityRaises(j)
             \/ \E e \in Pipeline : Notify(j, e)
             \/ NotifyRaises(j) \/ BeginAlert(j) \/ EndAlert(j) \/ DatabaseError(j) \/ Crash(j)
      PROVE  /\ ~overlap
             /\ \A i \in Job : Active(i)' => Active(i)
  <2>1. overlap' = overlap /\ Active(j)
    BY <1>2 DEF RecordRun, RecordFailure, DeleteFrames, InsertFrame, NextProvider, EndIngestion,
       ReadQuality, ReadQualityRaises, Notify, NotifyRaises, BeginAlert, EndAlert, DatabaseError,
       Crash, Active, Running
  <2>2. \A i \in Job : i # j => stage'[i] = stage[i]
    BY <1>2 DEF RecordRun, RecordFailure, DeleteFrames, InsertFrame, NextProvider, EndIngestion,
       ReadQuality, ReadQualityRaises, Notify, NotifyRaises, BeginAlert, EndAlert, DatabaseError,
       Crash, Goto, TypeOK
  <2> QED
    BY <2>1, <2>2 DEF Active
<1>3. CASE UNCHANGED vars \/ Tick \/ StoreObservation
  BY <1>3 DEF vars, Tick, StoreObservation, Active
<1> QED
  BY <1>1, <1>2, <1>3 DEF Next

\* Without overlap at most one execution runs.
LEMMA OneRunsStep == TypeOK /\ OneRuns /\ [Next]_vars /\ ~overlap' => OneRuns'
<1> SUFFICES ASSUME TypeOK, OneRuns, [Next]_vars, ~overlap',
                    NEW i \in Job, NEW j \in Job, Active(i)', Active(j)', i # j
             PROVE  FALSE
  BY DEF OneRuns
<1>1. ~(Start(i) /\ Start(j))
  BY DEF Start, Goto, TypeOK
<1> QED
  BY <1>1, ActiveStep DEF OneRuns

\* An execution that has not started claims nothing.
LEMMA IdleStep == TypeOK /\ IdleInv /\ [Next]_vars => IdleInv'
<1> SUFFICES ASSUME TypeOK, IdleInv, [Next]_vars, NEW i \in Job, stage'[i] = "idle",
                    NEW p \in Provider
             PROVE  result'[i][p] = "none"
  BY DEF IdleInv
<1>1. CASE Passive
  BY <1>1 DEF Passive, progress, IdleInv, Storing
<1>2. ASSUME NEW j \in Job,
             \/ \E c \in Time : RecordRun(j, c)
             \/ RecordFailure(j)
             \/ DeleteFrames(j)
             \/ \E h \in Hours : InsertFrame(j, h)
             \/ NextProvider(j)
      PROVE  result'[i][p] = "none"
  <2>1. i # j
    BY <1>2 DEF RecordRun, RecordFailure, DeleteFrames, InsertFrame, NextProvider, Goto, TypeOK
  <2>2. stage'[i] = stage[i] /\ result'[i] = result[i]
    BY <1>2, <2>1 DEF RecordRun, RecordFailure, DeleteFrames, InsertFrame, NextProvider, Goto,
       progress, TypeOK
  <2> QED
    BY <2>2 DEF IdleInv
<1> QED
  BY <1>1, <1>2, StepKinds

\* The execution that runs alone finds its deletions and insertions undisturbed.
LEMMA AloneStep ==
  TypeOK /\ WriterInv /\ IdleInv /\ AloneInv /\ [Next]_vars => AloneInv'
<1> SUFFICES ASSUME TypeOK, WriterInv, IdleInv, AloneInv, [Next]_vars, ~overlap'
             PROVE  /\ NoDuplicates'
                    /\ \A i \in Job : InsertedOnce(i)' /\ ClaimsHold(i)'
  BY ActiveStep, OneRunsStep DEF AloneInv
<1>1. ~overlap /\ OneRuns /\ NoDuplicates /\ \A i \in Job : InsertedOnce(i) /\ ClaimsHold(i)
  BY ActiveStep DEF AloneInv
<1>2. CASE Passive
  <2>1. NoDuplicates'
    BY <1>1, <1>2 DEF Passive, NoDuplicates
  <2>2. ASSUME NEW i \in Job
        PROVE  InsertedOnce(i)'
    BY <1>1, <1>2 DEF Passive, InsertedOnce, Current, CurrentCycle, progress, Storing
  <2>3. ASSUME NEW i \in Job
        PROVE  ClaimsHold(i)'
    <3>1. CASE Active(i)' /\ Active(i)
      BY <1>1, <1>2, <3>1
      DEF Passive, ClaimsHold, Stored, Whole, Current, progress, Storing, Active, Running
    <3>2. CASE Active(i)' /\ ~Active(i)
      <4>1. stage[i] = "idle"
        BY <3>2, ActiveStep DEF Start
      <4> QED
        BY <1>2, <4>1 DEF Passive, ClaimsHold, IdleInv, progress
    <3> QED
      BY <3>1, <3>2 DEF ClaimsHold
  <2> QED
    BY <2>1, <2>2, <2>3
<1>3. ASSUME NEW j \in Job, stage[j] \in Running, ~Start(j),
             \A i \in Job : i # j => stage'[i] = stage[i]
      PROVE  \A i \in Job : i # j => InsertedOnce(i)' /\ ClaimsHold(i)'
  <2> SUFFICES ASSUME NEW i \in Job, i # j
               PROVE  stage'[i] \notin Running
    BY DEF InsertedOnce, ClaimsHold, Active, Running
  <2> QED
    BY <1>1, <1>3 DEF OneRuns, Active
<1>4. ASSUME NEW j \in Job, NEW c \in Time, RecordRun(j, c)
      PROVE  NoDuplicates' /\ \A i \in Job : InsertedOnce(i)' /\ ClaimsHold(i)'
  <2>1. Current(j) \in Provider
    BY <1>4, CurrentType DEF RecordRun
  <2>2. /\ stage[j] = "ingest" /\ stage'[j] = "delete"
        /\ frames' = frames /\ result' = result /\ Current(j)' = Current(j)
        /\ \A p \in Provider : p # Current(j) => cycle'[j][p] = cycle[j][p]
        /\ \A i \in Job : i # j => stage'[i] = stage[i]
    BY <1>4, <2>1 DEF RecordRun, Goto, Current, TypeOK
  <2>3. ClaimsHold(j)'
    BY <1>1, <2>2, RunsGrow DEF ClaimsHold, Active, Running, Storing, Stored, Whole
  <2>4. InsertedOnce(j)' /\ NoDuplicates'
    BY <1>1, <2>2 DEF InsertedOnce, NoDuplicates
  <2> QED
    BY <1>3, <2>2, <2>3, <2>4 DEF Start, Running
<1>5. ASSUME NEW j \in Job, RecordFailure(j)
      PROVE  NoDuplicates' /\ \A i \in Job : InsertedOnce(i)' /\ ClaimsHold(i)'
  <2>1. Current(j) \in Provider
    BY <1>5, CurrentType DEF RecordFailure
  <2>2. /\ stage[j] = "ingest" /\ stage' = stage
        /\ frames' = frames /\ cycle' = cycle /\ result'[j][Current(j)] = "failed"
        /\ \A p \in Provider : p # Current(j) => result'[j][p] = result[j][p]
    BY <1>5, <2>1 DEF RecordFailure, TypeOK
  <2>3. ClaimsHold(j)'
    BY <1>1, <2>2, RunsGrow DEF ClaimsHold, Active, Running, Storing, Stored, Whole
  <2>4. InsertedOnce(j)' /\ NoDuplicates'
    BY <1>1, <2>2 DEF InsertedOnce, NoDuplicates
  <2> QED
    BY <1>3, <2>2, <2>3, <2>4 DEF Start, Running
<1>6. ASSUME NEW j \in Job, DeleteFrames(j)
      PROVE  NoDuplicates' /\ \A i \in Job : InsertedOnce(i)' /\ ClaimsHold(i)'
  <2>1. Current(j) \in Provider /\ CurrentCycle(j) \in Time /\ left[j] = Hours
    BY <1>6, CurrentType DEF DeleteFrames, TypeOK, WriterInv
  <2>2. /\ stage[j] = "delete" /\ stage'[j] = "insert"
        /\ UNCHANGED <<runs, progress>>
        /\ frames' = [frames EXCEPT ![Current(j)][CurrentCycle(j)] = [h \in Hours |-> 0]]
        /\ \A i \in Job : i # j => stage'[i] = stage[i]
    BY <1>6 DEF DeleteFrames, Goto, TypeOK
  <2>3. Current(j)' = Current(j) /\ CurrentCycle(j)' = CurrentCycle(j)
        /\ UNCHANGED <<cycle, left, result>>
    BY <2>2 DEF Current, CurrentCycle, progress
  <2>4. NoDuplicates'
    BY <1>1, <2>1, <2>2 DEF NoDuplicates, TypeOK
  <2>5. InsertedOnce(j)'
    BY <2>1, <2>2, <2>3 DEF InsertedOnce, TypeOK
  <2>6. \A p \in Provider : p # Current(j) => frames'[p] = frames[p]
    BY <2>2 DEF TypeOK
  <2>7. ClaimsHold(j)'
    BY <1>1, <2>2, <2>3, <2>6 DEF ClaimsHold, Active, Running, Storing, Stored, Whole
  <2> QED
    BY <1>3, <2>2, <2>4, <2>5, <2>7 DEF Start, Running
<1>7. ASSUME NEW j \in Job, NEW h \in Hours, InsertFrame(j, h)
      PROVE  NoDuplicates' /\ \A i \in Job : InsertedOnce(i)' /\ ClaimsHold(i)'
  <2>1. Current(j) \in Provider /\ CurrentCycle(j) \in Time
    BY <1>7, CurrentType DEF InsertFrame, TypeOK
  <2>2. /\ stage[j] = "insert" /\ stage' = stage
        /\ UNCHANGED <<runs, cycle, result>>
        /\ left'[j] = left[j] \ {h}
        /\ frames' = [frames EXCEPT ![Current(j)][CurrentCycle(j)][h] = @ + 1]
        /\ Current(j)' = Current(j) /\ CurrentCycle(j)' = CurrentCycle(j)
    BY <1>7 DEF InsertFrame, Current, CurrentCycle, TypeOK
  <2>3. frames[Current(j)][CurrentCycle(j)][h] = 0
    BY <1>1, <1>7 DEF InsertedOnce, InsertFrame
  <2>4. frames'[Current(j)][CurrentCycle(j)][h] = 1
    BY <2>1, <2>2, <2>3 DEF TypeOK
  <2>5. \A p \in Provider, c \in Time, k \in Hours :
          ~(p = Current(j) /\ c = CurrentCycle(j) /\ k = h) =>
            frames'[p][c][k] = frames[p][c][k]
    BY <2>1, <2>2 DEF TypeOK
  <2>6. NoDuplicates'
    BY <1>1, <2>4, <2>5 DEF NoDuplicates
  <2>7. InsertedOnce(j)'
    BY <1>1, <2>1, <2>2, <2>4, <2>5 DEF InsertedOnce
  <2>8. \A p \in Provider : p # Current(j) => frames'[p] = frames[p]
    BY <2>2 DEF TypeOK
  <2>9. ClaimsHold(j)'
    BY <1>1, <2>2, <2>8 DEF ClaimsHold, Active, Running, Storing, Stored, Whole
  <2> QED
    BY <1>3, <2>2, <2>6, <2>7, <2>9 DEF Start, Running
<1>8. ASSUME NEW j \in Job, NextProvider(j)
      PROVE  NoDuplicates' /\ \A i \in Job : InsertedOnce(i)' /\ ClaimsHold(i)'
  <2>1. Current(j) \in Provider
    BY <1>8, CurrentType DEF NextProvider, TypeOK
  <2>2. /\ stage[j] = "insert" /\ left[j] = {} /\ stage'[j] = "ingest"
        /\ UNCHANGED <<runs, frames, cycle>>
        /\ \A p \in Provider : p # Current(j) => result'[j][p] = result[j][p]
        /\ \A i \in Job : i # j => stage'[i] = stage[i]
    BY <1>8, <2>1 DEF NextProvider, Goto, store, TypeOK
  <2>3. NoDuplicates' /\ InsertedOnce(j)'
    BY <1>1, <2>2 DEF NoDuplicates, InsertedOnce
  <2>4. Stored(Current(j), CurrentCycle(j)) /\ Whole(Current(j), CurrentCycle(j))
    BY <1>1, <2>2 DEF WriterInv, Storing, InsertedOnce, Whole
  <2>5. ClaimsHold(j)'
    BY <1>1, <2>1, <2>2, <2>4
    DEF ClaimsHold, Active, Running, Storing, Stored, Whole, CurrentCycle
  <2> QED
    BY <1>3, <2>2, <2>3, <2>5 DEF Start, Running
<1> QED
  BY <1>2, <1>4, <1>5, <1>6, <1>7, <1>8, StepKinds

\* The strengthening behind the two theorems that follow.
THEOREM AloneInductive == Spec => [](IdleInv /\ AloneInv)
<1>1. Init => IdleInv /\ AloneInv
  <2> SUFFICES ASSUME Init
               PROVE  IdleInv /\ AloneInv
    OBVIOUS
  <2>1. \A j \in Job : stage[j] = "idle" /\ ~Active(j)
    BY DEF Init, Active, Running
  <2>2. IdleInv /\ NoDuplicates
    BY DEF Init, IdleInv, NoDuplicates
  <2> QED
    BY <2>1, <2>2 DEF AloneInv, OneRuns, InsertedOnce, ClaimsHold
<1>2. TypeOK /\ RunInv /\ IdleInv /\ AloneInv /\ [Next]_vars => (IdleInv /\ AloneInv)'
  BY IdleStep, AloneStep DEF RunInv
<1> QED
  BY <1>1, <1>2, TypeCorrect, RunsInductive, PTL DEF Spec

\* Without overlap retries and re-runs store no frame twice.
THEOREM DuplicatesNeedOverlapAlways == Spec => []DuplicatesNeedOverlap
<1>1. AloneInv => DuplicatesNeedOverlap
  BY DEF AloneInv, NoDuplicates, DuplicatesNeedOverlap
<1> QED
  BY <1>1, AloneInductive, PTL

\* Without overlap the alert phase finds whole every cycle its execution stored.
THEOREM AlertSeesWholeCyclesAlways == Spec => []AlertSeesWholeCycles
<1>1. AloneInv => AlertSeesWholeCycles
  BY DEF AloneInv, ClaimsHold, Active, Running, Storing, AlertSeesWholeCycles
<1> QED
  BY <1>1, AloneInductive, PTL

-----------------------------------------------------------------------------
(* Operator notifications. *)

\* A set of run documents has a latest one: the clock is bounded.
LEMMA LatestExists ==
  ASSUME NEW R \in SUBSET Run, R # {}
  PROVE  \E r \in R : \A s \in R \ {r} : Newer(r, s)
<1> DEFINE Age(r) == 2 * (MaxClock - r.time) + (IF r.status = "failed" THEN 0 ELSE 1)
           Ages == {Age(r) : r \in R}
<1>1. ASSUME NEW r \in R
      PROVE  /\ r.time \in Nat /\ r.time <= MaxClock /\ r.status \in {"stored", "failed"}
             /\ r = [status |-> r.status, time |-> r.time]
             /\ Age(r) \in Nat
  BY MaxClockAssumption DEF Run, Time
<1>2. Ages \subseteq Nat /\ Ages # {}
  BY <1>1
<1>3. PICK a \in Ages : \A b \in Ages : a <= b
  <2> HIDE DEF Ages
  <2> QED
    BY <1>2, LeastNat
<1>4. PICK r \in R : a = Age(r)
  OBVIOUS
<1>5. ASSUME NEW s \in R \ {r}
      PROVE  Newer(r, s)
  <2>1. Age(r) <= Age(s) /\ Age(s) \in Nat /\ Age(r) \in Nat
    BY <1>1, <1>3, <1>4
  <2>2. r.time # s.time \/ r.status # s.status
    BY <1>1, <1>5
  <2> QED
    BY <1>1, <2>1, <2>2, MaxClockAssumption DEF Newer
<1> QED
  BY <1>5

\* A pipeline with a failed run is not fresh unless a cycle later than the
\* failure is stored.
LEMMA FailedRunShows ==
  ASSUME TypeOK, NEW p \in Provider, NEW t \in Time,
         [status |-> "failed", time |-> t] \in runs[p],
         \A c \in Time : c > t => ~Stored(p, c)
  PROVE  p \in Breaching
<1> DEFINE F == [status |-> "failed", time |-> t]
           latest == CHOOSE r \in runs[p] : \A s \in runs[p] \ {r} : Newer(r, s)
<1>1. runs[p] \in SUBSET Run /\ runs[p] # {}
  BY DEF TypeOK
<1>2. latest \in runs[p] /\ \A s \in runs[p] \ {latest} : Newer(latest, s)
  <2>1. \E r \in runs[p] : \A s \in runs[p] \ {r} : Newer(r, s)
    BY <1>1, LatestExists
  <2> QED
    BY <2>1
<1>3. latest.status = "failed"
  <2> HIDE DEF latest
  <2> SUFFICES ASSUME latest.status # "failed"
               PROVE  FALSE
    OBVIOUS
  <2>1. /\ latest.time \in Time
        /\ latest = [status |-> "stored", time |-> latest.time]
    BY <1>1, <1>2 DEF Run
  <2>2. Newer(latest, F)
    BY <1>2
  <2>3. latest.time > t
    BY <2>1, <2>2 DEF Newer
  <2> QED
    BY <1>2, <2>1, <2>3 DEF Stored
<1>4. Status(p) = "failed"
  BY <1>1, <1>3 DEF Status
<1> QED
  BY <1>4 DEF Breaching

\* What the code makes of a recovery: a failed run carries the wall clock of its
\* execution as run_time, so an execution that then stores the cycle in question,
\* or any that is not later than the failure, leaves the pipeline breaching.
THEOREM RerunIsMasked ==
  Spec => [][\A j \in Job, c \in Time, t \in Time :
               /\ RecordRun(j, c) /\ c <= t
               /\ [status |-> "failed", time |-> t] \in runs[Current(j)]
               /\ \A d \in Time : d > t => ~Stored(Current(j), d)
               => Current(j) \in Breaching']_vars
<1> DEFINE Shows == \A p \in Provider, t \in Time :
                      /\ [status |-> "failed", time |-> t] \in runs[p]
                      /\ \A d \in Time : d > t => ~Stored(p, d)
                      => p \in Breaching
           Masked == \A j \in Job, c \in Time, t \in Time :
                       /\ RecordRun(j, c) /\ c <= t
                       /\ [status |-> "failed", time |-> t] \in runs[Current(j)]
                       /\ \A d \in Time : d > t => ~Stored(Current(j), d)
                       => Current(j) \in Breaching'
<1>1. TypeOK => Shows
  BY FailedRunShows
<1>2. TypeOK /\ Shows' /\ [Next]_vars => [Masked]_vars
  <2> SUFFICES ASSUME TypeOK, Shows', NEW j \in Job, NEW c \in Time, NEW t \in Time,
                      RecordRun(j, c), c <= t,
                      [status |-> "failed", time |-> t] \in runs[Current(j)],
                      \A d \in Time : d > t => ~Stored(Current(j), d)
               PROVE  Current(j) \in Breaching'
    OBVIOUS
  <2>1. Current(j) \in Provider
    BY CurrentType DEF RecordRun
  <2>2. runs'[Current(j)] = runs[Current(j)] \cup {[status |-> "stored", time |-> c]}
    BY <2>1 DEF RecordRun, TypeOK
  <2>3. ASSUME NEW d \in Time, d > t
        PROVE  [status |-> "stored", time |-> d] \notin runs'[Current(j)]
    <3>1. d # c
      BY <2>3, MaxClockAssumption DEF Time
    <3> QED
      BY <2>2, <2>3, <3>1 DEF Stored
  <2> QED
    BY <2>1, <2>2, <2>3 DEF Stored
<1> QED
  BY <1>1, <1>2, TypeCorrect, PTL DEF Spec

\* A failure is in the database, and once the snapshot is taken it is among the
\* events or the notices, unless a later cycle has been stored.
NoticeInv ==
  \A j \in Job, p \in Provider : result[j][p] = "failed" =>
    /\ [status |-> "failed", time |-> retrieved_at[j]] \in runs[p]
    /\ stage[j] # "idle"
    /\ stage[j] \in {"notify", "alert", "done"} =>
         \/ p \in events[j] \cup notified[j]
         \/ \E c \in Time : c > retrieved_at[j] /\ Stored(p, c)

\* After the notices nothing is left to dispatch.
QuietInv == \A j \in Job : stage[j] \in {"alert", "done"} => events[j] = {}

LEMMA QuietStep == TypeOK /\ QuietInv /\ [Next]_vars => QuietInv'
<1> SUFFICES ASSUME TypeOK, QuietInv, [Next]_vars, NEW i \in Job,
                    stage'[i] \in {"alert", "done"}
             PROVE  events'[i] = {}
  BY DEF QuietInv
<1>1. CASE stage[i] \in {"alert", "done"} /\ events'[i] = events[i]
  BY <1>1 DEF QuietInv
<1>2. CASE BeginAlert(i)
  BY <1>2 DEF BeginAlert, ops
<1> QED
  BY <1>1, <1>2
  DEF Next, vars, Tick, StoreObservation, Start, RecordRun, RecordFailure, DeleteFrames,
      InsertFrame, NextProvider, EndIngestion, ReadQuality, ReadQualityRaises, Notify,
      NotifyRaises, BeginAlert, EndAlert, DatabaseError, Crash, Goto, ops, TypeOK

\* The snapshot sees every failure its execution recorded, and dispatching loses none.
LEMMA NoticeStep == TypeOK /\ NoticeInv /\ [Next]_vars => NoticeInv'
<1> SUFFICES ASSUME TypeOK, NoticeInv, [Next]_vars, NEW i \in Job, NEW p \in Provider,
                    result'[i][p] = "failed"
             PROVE  /\ [status |-> "failed", time |-> retrieved_at'[i]] \in runs'[p]
                    /\ stage'[i] # "idle"
                    /\ stage'[i] \in {"notify", "alert", "done"} =>
                         \/ p \in events'[i] \cup notified'[i]
                         \/ \E c \in Time : c > retrieved_at'[i] /\ Stored(p, c)'
  BY DEF NoticeInv
<1> DEFINE Goal == /\ [status |-> "failed", time |-> retrieved_at'[i]] \in runs'[p]
                   /\ stage'[i] # "idle"
                   /\ stage'[i] \in {"notify", "alert", "done"} =>
                        \/ p \in events'[i] \cup notified'[i]
                        \/ \E c \in Time : c > retrieved_at'[i] /\ Stored(p, c)'
<1>1. \A c \in Time : Stored(p, c) => Stored(p, c)'
  BY RunsGrow DEF Stored
<1>2. CASE RecordFailure(i) /\ Current(i) = p
  BY <1>2 DEF RecordFailure, TypeOK
<1>3. result[i][p] = "failed" \/ (RecordFailure(i) /\ Current(i) = p)
  <2>1. ASSUME NEW j \in Job, RecordFailure(j)
        PROVE  result[i][p] = "failed" \/ (RecordFailure(i) /\ Current(i) = p)
    BY <2>1 DEF RecordFailure, TypeOK
  <2>2. ASSUME NEW j \in Job, NextProvider(j)
        PROVE  result[i][p] = "failed"
    BY <2>2 DEF NextProvider, TypeOK
  <2>3. CASE result' = result
    BY <2>3
  <2> QED
    BY <2>1, <2>2, <2>3, StepKinds
    DEF Passive, progress, RecordRun, DeleteFrames, InsertFrame
<1>4. ASSUME result[i][p] = "failed"
      PROVE  Goal
  <2>1. /\ [status |-> "failed", time |-> retrieved_at[i]] \in runs[p]
        /\ stage[i] # "idle"
    BY <1>4 DEF NoticeInv
  <2>2. retrieved_at'[i] = retrieved_at[i]
    BY <2>1 DEF Next, vars, Tick, StoreObservation, Start, RecordRun, RecordFailure, DeleteFrames,
       InsertFrame, NextProvider, EndIngestion, ReadQuality, ReadQualityRaises, Notify,
       NotifyRaises, BeginAlert, EndAlert, DatabaseError, Crash, TypeOK
  <2>3. stage'[i] # "idle"
    BY <2>1 DEF Next, vars, Tick, StoreObservation, Start, RecordRun, RecordFailure, DeleteFrames,
       InsertFrame, NextProvider, EndIngestion, ReadQuality, ReadQualityRaises, Notify,
       NotifyRaises, BeginAlert, EndAlert, DatabaseError, Crash, Goto, TypeOK
  <2>4. CASE ReadQuality(i)
    <3>1. CASE \E c \in Time : c > retrieved_at[i] /\ Stored(p, c)
      BY <1>1, <2>1, <2>2, <2>3, <3>1, RunsGrow
    <3>2. CASE ~ \E c \in Time : c > retrieved_at[i] /\ Stored(p, c)
      <4>1. retrieved_at[i] \in Time
        BY DEF TypeOK
      <4>2. p \in Breaching
        BY <2>1, <3>2, <4>1, FailedRunShows
      <4>3. p \in events'[i]
        BY <2>4, <4>2 DEF ReadQuality, TypeOK
      <4> QED
        BY <2>1, <2>2, <2>3, <4>3, RunsGrow
    <3> QED
      BY <3>1, <3>2
  <2>5. CASE ~ReadQuality(i)
    <3>1. ASSUME stage'[i] \in {"notify", "alert", "done"}
          PROVE  stage[i] \in {"notify", "alert", "done"}
      BY <2>5, <3>1 DEF Next, vars, Tick, StoreObservation, Start, RecordRun, RecordFailure,
         DeleteFrames, InsertFrame, NextProvider, EndIngestion, ReadQuality, ReadQualityRaises,
         Notify, NotifyRaises, BeginAlert, EndAlert, DatabaseError, Crash, Goto, TypeOK
    <3>2. events[i] \cup notified[i] \subseteq events'[i] \cup notified'[i]
      <4>1. ASSUME NEW j \in Job, NEW e \in Pipeline, Notify(j, e)
            PROVE  events[i] \cup notified[i] \subseteq events'[i] \cup notified'[i]
        BY <4>1 DEF Notify, TypeOK
      <4>2. ASSUME NEW j \in Job, ReadQuality(j)
            PROVE  events[i] \cup notified[i] \subseteq events'[i] \cup notified'[i]
        BY <2>5, <4>2 DEF ReadQuality, TypeOK
      <4>3. CASE UNCHANGED ops
        BY <4>3 DEF ops
      <4> QED
        BY <4>1, <4>2, <4>3 DEF Next, vars, Tick, StoreObservation, Start, RecordRun,
           RecordFailure, DeleteFrames, InsertFrame, NextProvider, EndIngestion,
           ReadQualityRaises, NotifyRaises, BeginAlert, EndAlert, DatabaseError, Crash
    <3>3. stage[i] \in {"notify", "alert", "done"} =>
            \/ p \in events[i] \cup notified[i]
            \/ \E c \in Time : c > retrieved_at[i] /\ Stored(p, c)
      BY <1>4 DEF NoticeInv
    <3> QED
      BY <1>1, <2>1, <2>2, <2>3, <3>1, <3>2, <3>3, RunsGrow
  <2> QED
    BY <2>4, <2>5
<1> QED
  BY <1>2, <1>3, <1>4

\* The operators hear of every provider failure of an execution that gets to the
\* alert phase, unless a later cycle was stored meanwhile.
THEOREM FailureIsNotifiedAlways == Spec => []FailureIsNotified
<1>1. Init => NoticeInv /\ QuietInv
  BY DEF Init, NoticeInv, QuietInv
<1>2. TypeOK /\ NoticeInv /\ QuietInv /\ [Next]_vars => (NoticeInv /\ QuietInv)'
  BY NoticeStep, QuietStep
<1>3. NoticeInv /\ QuietInv => FailureIsNotified
  BY DEF NoticeInv, QuietInv, FailureIsNotified
<1> QED
  BY <1>1, <1>2, <1>3, TypeCorrect, PTL DEF Spec
-----------------------------------------------------------------------------
(* The store of IngestionStore. *)

\* No execution and no run document is ahead of the clock.
ClockInv ==
  /\ \A j \in Job : retrieved_at[j] <= clock
  /\ \A p \in Provider : \A r \in runs[p] : r.time <= clock

LEMMA ClockStep == TypeOK /\ ClockInv /\ [Next]_vars => ClockInv'
<1> SUFFICES ASSUME TypeOK, ClockInv, [Next]_vars
             PROVE  ClockInv'
  OBVIOUS
<1>1. clock \in Nat /\ \A j \in Job : retrieved_at[j] \in Nat
  BY MaxClockAssumption DEF TypeOK, Time
<1>2. CASE UNCHANGED <<clock, runs, retrieved_at>>
  BY <1>2 DEF ClockInv
<1>3. CASE Tick
  <2>1. clock' = clock + 1 /\ UNCHANGED <<runs, retrieved_at>>
    BY <1>3 DEF Tick, store
  <2>2. \A p \in Provider : \A r \in runs[p] : r.time \in Nat
    BY MaxClockAssumption DEF TypeOK, Run, Time
  <2> QED
    BY <1>1, <2>1, <2>2 DEF ClockInv
<1>4. ASSUME NEW j \in Job, Start(j)
      PROVE  ClockInv'
  BY <1>1, <1>4 DEF Start, store, ClockInv, TypeOK
<1>5. ASSUME NEW j \in Job, NEW c \in Time, RecordRun(j, c)
      PROVE  ClockInv'
  <2>1. c <= clock
    BY <1>1, <1>5, MaxClockAssumption DEF RecordRun, Candidates, Discoverable, ClockInv, Time
  <2> QED
    BY <1>5, <2>1 DEF RecordRun, ClockInv, TypeOK
<1>6. ASSUME NEW j \in Job, RecordFailure(j)
      PROVE  ClockInv'
  BY <1>6 DEF RecordFailure, ClockInv, TypeOK
<1>7. ASSUME NEW j \in Job,
             \/ DeleteFrames(j) \/ (\E h \in Hours : InsertFrame(j, h)) \/ NextProvider(j)
             \/ EndIngestion(j) \/ ReadQuality(j) \/ ReadQualityRaises(j)
             \/ (\E e \in Pipeline : Notify(j, e))
             \/ NotifyRaises(j) \/ BeginAlert(j) \/ EndAlert(j) \/ DatabaseError(j) \/ Crash(j)
      PROVE  UNCHANGED <<clock, runs, retrieved_at>>
  BY <1>7 DEF DeleteFrames, InsertFrame, NextProvider, EndIngestion, ReadQuality,
     ReadQualityRaises, Notify, NotifyRaises, BeginAlert, EndAlert, DatabaseError, Crash, store
<1>8. StoreObservation \/ UNCHANGED vars => UNCHANGED <<clock, runs, retrieved_at>>
  BY DEF StoreObservation, vars, store
<1> QED
  BY <1>2, <1>3, <1>4, <1>5, <1>6, <1>7, <1>8 DEF Next

\* What find_one shows of a run document.
DocumentOf(r) == [time |-> r.time, failed |-> r.status = "failed"]

\* Of two runs at most one is newer.
LEMMA NewerAsymmetric ==
  ASSUME NEW x \in Run, NEW y \in Run, Newer(x, y)
  PROVE  ~ Newer(y, x)
<1>1. /\ x.time \in Nat /\ x.status \in {"stored", "failed"}
      /\ y.time \in Nat /\ y.status \in {"stored", "failed"}
  BY MaxClockAssumption DEF Run, Time
<1> QED
  BY <1>1 DEF Newer

\* The document a reader finds is that of the run newer than all others.
LEMMA LatestDocumentIs ==
  ASSUME NEW R \in SUBSET Run, NEW r \in R, \A s \in R \ {r} : Newer(r, s)
  PROVE  (CHOOSE x \in R : \A s \in R \ {x} : Newer(x, s)) = r
<1> DEFINE x == CHOOSE x \in R : \A s \in R \ {x} : Newer(x, s)
<1>1. x \in R /\ \A s \in R \ {x} : Newer(x, s)
  OBVIOUS
<1> HIDE DEF x
<1>2. x # r => Newer(x, r) /\ Newer(r, x)
  BY <1>1
<1> QED
  BY <1>1, <1>2, NewerAsymmetric DEF x

\* Adding a run document is what Put says of the latest one.
LEMMA RunIsPut ==
  ASSUME TypeOK, NEW p \in Provider, NEW r \in Run,
         runs' = [runs EXCEPT ![p] = @ \cup {r}]
  PROVE  Store!Put(p, DocumentOf(r))
<1> DEFINE R == runs[p]
           S == R \cup {r}
<1>1. R \in SUBSET Run /\ runs'[p] = S /\ S \in SUBSET Run /\ S # {}
      /\ \A q \in Provider \ {p} : runs'[q] = runs[q]
  BY DEF TypeOK
<1>2. PICK m \in S : \A s \in S \ {m} : Newer(m, s)
  BY <1>1, LatestExists
<1>3. LatestDocument(p)' = DocumentOf(m)
  <2>1. (CHOOSE x \in S : \A s \in S \ {x} : Newer(x, s)) = m
    BY <1>1, <1>2, LatestDocumentIs
  <2> HIDE DEF S
  <2> QED
    BY <1>1, <2>1 DEF LatestDocument, DocumentOf, Newer
<1>4. \A q \in Provider \ {p} : LatestDocument(q)' = LatestDocument(q)
  BY <1>1 DEF LatestDocument, Newer
<1>5. \A y \in Run : /\ y.time \in Nat /\ y.status \in {"stored", "failed"}
                     /\ y = [status |-> y.status, time |-> y.time]
  BY MaxClockAssumption DEF Run, Time
<1>6. LatestDocument(p)' =
        IF LatestDocument(p) = NoRun \/ ~ Store!NewerRun(LatestDocument(p), DocumentOf(r))
        THEN DocumentOf(r)
        ELSE LatestDocument(p)
  <2>1. CASE R = {}
    <3>1. m = r /\ LatestDocument(p) = NoRun
      BY <2>1 DEF LatestDocument
    <3> QED
      BY <1>3, <3>1
  <2>2. CASE R # {}
    <3>1. PICK k \in R : \A s \in R \ {k} : Newer(k, s)
      BY <1>1, <2>2, LatestExists
    <3>2. LatestDocument(p) = DocumentOf(k)
      <4>1. (CHOOSE x \in R : \A s \in R \ {x} : Newer(x, s)) = k
        BY <1>1, <3>1, LatestDocumentIs
      <4> QED
        BY <2>2, <4>1 DEF LatestDocument, DocumentOf
    <3>3. LatestDocument(p) # NoRun
      <4>1. k.time \in Time /\ (k.status = "failed") \in BOOLEAN
        BY <1>1, <3>1 DEF Run
      <4>2. DocumentOf(k) \in [time : Time, failed : BOOLEAN]
        BY <4>1 DEF DocumentOf
      <4> QED
        BY <3>2, <4>2, NoStoredRunAssumption
    <3>4. Store!NewerRun(LatestDocument(p), DocumentOf(r)) <=> Newer(k, r)
      <4>1. \A y : /\ DocumentOf(y).time = y.time
                   /\ DocumentOf(y).failed <=> y.status = "failed"
        BY DEF DocumentOf
      <4>2. Store!NewerRun(DocumentOf(k), DocumentOf(r)) <=>
              \/ k.time > r.time
              \/ k.time = r.time /\ k.status = "failed" /\ ~ (r.status = "failed")
        BY <4>1, Zenon DEF Store!NewerRun
      <4>3. r.status \in {"stored", "failed"}
        BY <1>5
      <4> QED
        BY <3>2, <4>2, <4>3 DEF Newer
    <3>5. CASE Newer(k, r)
      <4>1. \A s \in S \ {k} : Newer(k, s)
        BY <3>1, <3>5
      <4>2. m = k
        <5>1. m # k => Newer(m, k) /\ Newer(k, m)
          BY <1>2, <4>1
        <5> QED
          BY <1>1, <5>1, NewerAsymmetric
      <4> QED
        BY <1>3, <3>2, <3>3, <3>4, <3>5, <4>2
    <3>6. CASE ~ Newer(k, r)
      <4>1. m = k => r = k
        BY <1>2, <3>6
      <4>2. m \in R => m = k
        <5>1. m \in R /\ m # k => Newer(m, k) /\ Newer(k, m)
          BY <1>2, <3>1
        <5> QED
          BY <1>1, <5>1, NewerAsymmetric
      <4>3. m = r
        BY <1>2, <4>1, <4>2
      <4> QED
        BY <1>3, <3>3, <3>4, <3>6, <4>3
    <3> QED
      BY <3>5, <3>6
  <2> QED
    BY <2>1, <2>2
<1> QED
  <2>1. LatestDocuments' = [q \in Provider |-> LatestDocument(q)']
    BY DEF LatestDocuments
  <2>2. LatestDocuments[p] = LatestDocument(p)
    BY DEF LatestDocuments
  <2>3. LatestDocuments' =
          IF LatestDocument(p) = NoRun \/ ~ Store!NewerRun(LatestDocument(p), DocumentOf(r))
          THEN [LatestDocuments EXCEPT ![p] = DocumentOf(r)]
          ELSE LatestDocuments
    BY <1>4, <1>6, <2>1 DEF LatestDocuments
  <2> QED
    BY <2>2, <2>3 DEF Store!Put

\* Which documents a reader finds among the stored frames.
LEMMA StoredFrameIs ==
  ASSUME NEW f
  PROVE  f \in StoredFrames <=>
           \E p \in Provider, c \in Time : \E h \in HoursIn(p, c) : f = FrameOf(p, c, h)
<1>1. f \in StoredFrames <=> \E p \in Provider, c \in Time : f \in FramesOfCycle(p, c)
  BY DEF StoredFrames
<1> QED
  BY <1>1 DEF FramesOfCycle

LEMMA FrameIsOfContent ==
  ASSUME NEW p, NEW c, NEW h
  PROVE  /\ FrameOf(p, c, h) = Store!Frame(p, c, Forecast[p][c][h])
         /\ FrameOf(p, c, h).provider = p /\ FrameOf(p, c, h).run = c
BY DEF FrameOf, Store!Frame

\* A step that changes the hours found of one cycle at most replaces its frames.
LEMMA CycleIsReplaced ==
  ASSUME NEW p \in Provider, NEW c \in Time,
         \A q \in Provider, d \in Time : q # p \/ d # c => HoursIn(q, d)' = HoursIn(q, d)
  PROVE  StoredFrames' =
           {f \in StoredFrames : f.provider # p \/ f.run # c}
             \cup {Store!Frame(p, c, x) : x \in Content(p, c, HoursIn(p, c)')}
<1> DEFINE Kept == {f \in StoredFrames : f.provider # p \/ f.run # c}
           New == {Store!Frame(p, c, x) : x \in Content(p, c, HoursIn(p, c)')}
<1>1. \A f : f \in New <=> \E h \in HoursIn(p, c)' : f = FrameOf(p, c, h)
  BY FrameIsOfContent DEF Content
<1>2. \A f : f \in Kept <=>
        \E q \in Provider, d \in Time : /\ q # p \/ d # c
                                        /\ \E h \in HoursIn(q, d) : f = FrameOf(q, d, h)
  BY StoredFrameIs, FrameIsOfContent
<1>3. \A f : f \in StoredFrames' <=>
        \E q \in Provider, d \in Time : \E h \in HoursIn(q, d)' : f = FrameOf(q, d, h)
  <2>1. \A f : f \in StoredFrames' <=>
          \E q \in Provider, d \in Time : f \in FramesOfCycle(q, d)'
    BY DEF StoredFrames
  <2> QED
    BY <2>1 DEF FramesOfCycle, FrameOf
<1> HIDE DEF Kept, New
<1>4. \A f : f \in StoredFrames' <=> f \in Kept \cup New
  BY <1>1, <1>2, <1>3
<1> QED
  BY <1>4 DEF Kept, New

\* The hours found of a cycle are hours, and every set of them is storable content.
LEMMA ContentIsStorable ==
  ASSUME NEW p \in Provider, NEW c \in Time
  PROVE  Content(p, c, HoursIn(p, c)') \in StorableContents
<1>1. HoursIn(p, c)' \in SUBSET Hours
  BY DEF HoursIn
<1> DEFINE Of(q, d) == {Content(q, d, H) : H \in SUBSET Hours}
<1>2. Content(p, c, HoursIn(p, c)') \in Of(p, c)
  BY <1>1, Zenon
<1>3. StorableContents = UNION {Of(q, d) : q \in Provider, d \in Time}
  BY DEF StorableContents
<1> HIDE DEF Of
<1> QED
  BY <1>2, <1>3

\* A step that stores documents of one cycle, or only the run document, is StoreRun.
LEMMA CycleIsStored ==
  ASSUME TypeOK, NEW p \in Provider, NEW c \in Time, c <= clock,
         runs' = [runs EXCEPT ![p] = @ \cup {[status |-> "stored", time |-> c]}],
         UNCHANGED clock,
         \A q \in Provider, d \in Time : q # p \/ d # c => HoursIn(q, d)' = HoursIn(q, d)
  PROVE  Store!StoreNext
<1> DEFINE r == [status |-> "stored", time |-> c]
           content == Content(p, c, HoursIn(p, c)')
<1>1. Store!Put(p, [time |-> c, failed |-> FALSE])
  <2>1. r \in Run
    BY DEF Run
  <2>2. DocumentOf(r) = [time |-> c, failed |-> FALSE]
    BY DEF DocumentOf
  <2>3. Store!Put(p, DocumentOf(r))
    BY <2>1, RunIsPut
  <2> HIDE DEF r
  <2> QED
    BY <2>2, <2>3
<1>2. content \in StorableContents
  BY ContentIsStorable
<1>3. StoredFrames' = {f \in StoredFrames : f.provider # p \/ f.run # c}
                        \cup {Store!Frame(p, c, x) : x \in content}
  BY CycleIsReplaced
<1> HIDE DEF content
<1>4. Store!StoreRun(p, c, content)
  BY <1>1, <1>3 DEF Store!StoreRun
<1> QED
  BY <1>2, <1>4 DEF Store!StoreNext

\* Every step is one of the store's, or leaves it alone.
LEMMA StoreStep ==
  ASSUME TypeOK, WriterInv, ClockInv, [Next]_vars
  PROVE  [Store!StoreNext]_<<clock, StoredFrames, LatestDocuments>>
<1>1. CASE UNCHANGED <<clock, runs, frames>>
  <2>1. UNCHANGED <<StoredFrames, LatestDocuments>>
    BY <1>1 DEF StoredFrames, FramesOfCycle, FrameOf, HoursIn, LatestDocuments,
       LatestDocument, Newer
  <2> QED
    BY <1>1, <2>1
<1>2. CASE Tick
  <2>1. UNCHANGED <<StoredFrames, LatestDocuments>>
    BY <1>2 DEF Tick, store, StoredFrames, FramesOfCycle, FrameOf, HoursIn, LatestDocuments,
       LatestDocument, Newer
  <2> QED
    BY <1>2, <2>1 DEF Tick, Store!Advance, Store!StoreNext
<1>3. ASSUME NEW j \in Job, NEW c \in Time, RecordRun(j, c)
      PROVE  Store!StoreNext
  <2>1. Current(j) \in Provider
    BY <1>3, CurrentType DEF RecordRun
  <2>2. c <= clock
    BY <1>3, MaxClockAssumption DEF RecordRun, Candidates, Discoverable, ClockInv,
       TypeOK, Time
  <2>3. /\ runs' = [runs EXCEPT ![Current(j)] = @ \cup {[status |-> "stored", time |-> c]}]
        /\ UNCHANGED <<clock, frames>>
    BY <1>3 DEF RecordRun
  <2>4. \A q \in Provider, d \in Time : HoursIn(q, d)' = HoursIn(q, d)
    BY <2>3 DEF HoursIn
  <2> QED
    BY <2>1, <2>2, <2>3, <2>4, CycleIsStored
<1>4. ASSUME NEW j \in Job, RecordFailure(j)
      PROVE  Store!StoreNext
  <2> DEFINE p == Current(j)
             r == [status |-> "failed", time |-> retrieved_at[j]]
  <2>1. p \in Provider /\ r \in Run
    BY <1>4, CurrentType DEF RecordFailure, Run, TypeOK
  <2>2. Store!Put(p, DocumentOf(r))
    BY <1>4, <2>1, RunIsPut DEF RecordFailure
  <2>3. DocumentOf(r) = [time |-> retrieved_at[j], failed |-> TRUE]
    BY DEF DocumentOf
  <2>4. UNCHANGED <<clock, StoredFrames>>
    BY <1>4 DEF RecordFailure, StoredFrames, FramesOfCycle, FrameOf, HoursIn
  <2>5. retrieved_at[j] \in Store!Time /\ retrieved_at[j] <= clock
    BY DEF ClockInv, TypeOK, Time, Store!Time
  <2> HIDE DEF p, r
  <2>6. Store!FailRun(p, retrieved_at[j])
    BY <2>2, <2>3, <2>4, <2>5 DEF Store!FailRun
  <2> QED
    BY <2>1, <2>5, <2>6 DEF Store!StoreNext
<1>5. ASSUME NEW j \in Job, DeleteFrames(j) \/ \E h \in Hours : InsertFrame(j, h)
      PROVE  Store!StoreNext
  <2> DEFINE p == Current(j)
             c == CurrentCycle(j)
             r == [status |-> "stored", time |-> c]
  <2>1. p \in Provider /\ c \in Time /\ stage[j] \in Storing
    BY <1>5, CurrentType DEF DeleteFrames, InsertFrame, Storing, TypeOK
  <2>2. r \in runs[p]
    BY <2>1 DEF WriterInv, Stored
  <2>3. UNCHANGED <<clock, runs>>
    BY <1>5 DEF DeleteFrames, InsertFrame
  <2>4. c <= clock
    BY <2>1, <2>2 DEF ClockInv
  <2>5. runs' = [runs EXCEPT ![p] = @ \cup {r}]
    <3>1. runs[p] = runs[p] \cup {r}
      BY <2>2
    <3> QED
      BY <2>1, <2>3, <3>1 DEF TypeOK
  <2>6. \A q \in Provider, d \in Time : q # p \/ d # c => frames'[q][d] = frames[q][d]
    BY <1>5, <2>1 DEF DeleteFrames, InsertFrame, TypeOK
  <2>7. \A q \in Provider, d \in Time : q # p \/ d # c => HoursIn(q, d)' = HoursIn(q, d)
    BY <2>6 DEF HoursIn
  <2> HIDE DEF p, c
  <2> QED
    BY <2>1, <2>3, <2>4, <2>5, <2>7, CycleIsStored
<1>6. ASSUME NEW j \in Job,
             \/ Start(j) \/ NextProvider(j) \/ EndIngestion(j) \/ ReadQuality(j)
             \/ ReadQualityRaises(j) \/ (\E e \in Pipeline : Notify(j, e)) \/ NotifyRaises(j)
             \/ BeginAlert(j) \/ EndAlert(j) \/ DatabaseError(j) \/ Crash(j)
      PROVE  UNCHANGED <<clock, runs, frames>>
  BY <1>6 DEF Start, NextProvider, EndIngestion, ReadQuality, ReadQualityRaises, Notify,
     NotifyRaises, BeginAlert, EndAlert, DatabaseError, Crash, store
<1>7. StoreObservation \/ UNCHANGED vars => UNCHANGED <<clock, runs, frames>>
  BY DEF StoreObservation, vars, store
<1> QED
  BY <1>1, <1>2, <1>3, <1>4, <1>5, <1>6, <1>7 DEF Next

\* No execution is ahead of the clock.
LEMMA ClockInductive == Spec => []ClockInv
<1>1. Init => ClockInv
  BY DEF Init, ClockInv
<1> QED
  BY <1>1, ClockStep, TypeCorrect, PTL DEF Spec

\* The executions of the job, with any overlap, crash and error, implement the store
\* that the readers of GET /api/risk/current are modelled over.
THEOREM ExecutionsImplementStore == Spec => StoreImplemented
<1>1. Init => Store!StoreInit
  <2> SUFFICES ASSUME Init
               PROVE  Store!StoreInit
    OBVIOUS
  <2>1. \A p \in Provider, c \in Time : HoursIn(p, c) = {}
    BY DEF Init, HoursIn
  <2>2. StoredFrames = {}
    BY <2>1, StoredFrameIs
  <2>3. LatestDocuments = [p \in Provider |-> NoRun]
    BY DEF Init, LatestDocuments, LatestDocument
  <2> QED
    BY <2>2, <2>3 DEF Init, Store!StoreInit
<1>2. TypeOK /\ WriterInv /\ ClockInv /\ [Next]_vars
        => [Store!StoreNext]_<<clock, StoredFrames, LatestDocuments>>
  BY StoreStep
<1>3. Spec => [](TypeOK /\ WriterInv /\ ClockInv)
  BY TypeCorrect, RunsInductive, ClockInductive, PTL DEF RunInv
<1> QED
  BY <1>1, <1>2, <1>3, PTL DEF Spec, StoreImplemented, Store!StoreSpec

-----------------------------------------------------------------------------
(* The readers of ForecastReads. *)

\* Readers change nothing of the executions' state: beside them ForecastIngestion
\* behaves as it does alone, and all its theorems hold.
THEOREM ReadersOnlyRead == ReadsSpec => Spec
<1>1. ReadsInit => Init
  BY DEF ReadsInit
<1>2. [ReadsNext]_<<vars, readers>> => [Next]_vars
  BY DEF ReadsNext
<1> QED
  BY <1>1, <1>2, PTL DEF ReadsSpec, Spec

\* A set of found runs has one that no other is newer than.
LEMMA LatestFound ==
  ASSUME NEW S \in SUBSET Found, S # {}
  PROVE  \E x \in S : \A y \in S : ~Newer(y.run, x.run)
<1>1. \A x \in S : x.run.time \in Time /\ x.run.status \in {"stored", "failed"}
  BY DEF Found, Run
<1> DEFINE Back == {n \in Nat : \E x \in S : x.run.time = MaxClock - n}
<1>2. Back \subseteq Nat /\ Back # {}
  <2>1. PICK x \in S : TRUE
    OBVIOUS
  <2>2. MaxClock - x.run.time \in Nat /\ x.run.time = MaxClock - (MaxClock - x.run.time)
    BY <1>1, MaxClockAssumption DEF Time
  <2> QED
    BY <2>2
<1>3. PICK n \in Back : \A k \in Back : n <= k
  <2> HIDE DEF Back
  <2> QED
    BY <1>2, LeastNat
<1>4. \A y \in S : y.run.time <= MaxClock - n
  <2> TAKE y \in S
  <2>1. MaxClock - y.run.time \in Back
    BY <1>1, MaxClockAssumption DEF Time
  <2>2. n <= MaxClock - y.run.time
    BY <1>3, <2>1
  <2> QED
    BY <1>1, <1>2, <2>2, MaxClockAssumption DEF Time
<1>5. CASE \E x \in S : x.run.time = MaxClock - n /\ x.run.status = "failed"
  <2>1. PICK x \in S : x.run.time = MaxClock - n /\ x.run.status = "failed"
    BY <1>5
  <2>2. ASSUME NEW y \in S
        PROVE  ~Newer(y.run, x.run)
    BY <1>1, <1>4, <2>1, MaxClockAssumption DEF Newer, Time
  <2> QED
    BY <2>2
<1>6. CASE ~ \E x \in S : x.run.time = MaxClock - n /\ x.run.status = "failed"
  <2>1. PICK x \in S : x.run.time = MaxClock - n
    BY <1>3
  <2>2. ASSUME NEW y \in S
        PROVE  ~Newer(y.run, x.run)
    BY <1>1, <1>4, <1>6, <2>1, MaxClockAssumption DEF Newer, Time
  <2> QED
    BY <2>2
<1> QED
  BY <1>5, <1>6

\* A step of ForecastReads: of an execution, which leaves the requests alone but may
\* mend their failures, or of one reader.
LEMMA ReadsStepKinds ==
  ASSUME [ReadsNext]_<<vars, readers>>
  PROVE  \/ /\ UNCHANGED request
            /\ UNCHANGED <<unmended, known>> \/ (Next /\ Remember)
         \/ /\ UNCHANGED <<vars, unmended>>
            /\ \E r \in Reader :
                 \/ \E k \in Kind, s \in Scope : Ask(r, k, s)
                 \/ ListFrames(r)
                 \/ FindLatest(r)
                 \/ \E p \in Provider : CheckProvider(r, p)
                 \/ CheckStations(r)
                 \/ ReadFails(r)
BY DEF ReadsNext, Read, readers

\* The types of a request.
RequestType ==
  /\ kind \in [Reader -> Kind]
  /\ scope \in [Reader -> Scope]
  /\ phase \in [Reader -> Phase]
  /\ now \in [Reader -> Time]
  /\ page \in [Reader -> [Provider -> [Time -> [Hours -> Nat]]]]
  /\ found \in [Reader -> SUBSET Found]
  /\ unmended \in [Provider -> SUBSET Run]
  /\ known \in [Reader -> [Provider -> SUBSET Run]]

\* What an execution makes of the history: a stored run of p clears it, a failed one
\* is in the store.
LEMMA RememberStep ==
  ASSUME TypeOK, RequestType, Next, Remember
  PROVE  /\ unmended' \in [Provider -> SUBSET Run]
         /\ known' \in [Reader -> [Provider -> SUBSET Run]]
         /\ \A r \in Reader, p \in Provider : known'[r][p] \subseteq known[r][p]
         /\ \A p \in Provider : \A f \in unmended'[p] :
              f \in unmended[p] \/ (f.status = "failed" /\ f \in runs'[p])
<1> DEFINE mended == {Current(j) : j \in {i \in Job : stage[i] = "ingest" /\ stage'[i] = "delete"}}
           failing == {j \in Job : stage[j] = "ingest" /\ at'[j] # at[j]}
           Failed(j) == [status |-> "failed", time |-> retrieved_at[j]]
           failures(p) == {Failed(j) : j \in {i \in failing : Current(i) = p}}
<1>1. \/ UNCHANGED <<unmended, known>>
      \/ /\ unmended' = [p \in Provider |-> IF p \in mended THEN {} ELSE unmended[p] \cup failures(p)]
         /\ known' = [r \in Reader |-> [p \in Provider |-> IF p \in mended THEN {} ELSE known[r][p]]]
  BY DEF Remember
<1>2. ASSUME NEW j \in failing
      PROVE  RecordFailure(j)
  <2>1. j \in Job /\ stage[j] = "ingest" /\ at'[j] # at[j]
    OBVIOUS
  <2> QED
    BY <2>1 DEF Next, Tick, StoreObservation, Start, RecordRun, RecordFailure, DeleteFrames, InsertFrame,
                NextProvider, EndIngestion, ReadQuality, ReadQualityRaises, Notify, NotifyRaises,
                BeginAlert, EndAlert, DatabaseError, Crash, Goto, progress, TypeOK
<1>3. ASSUME NEW p \in Provider, NEW j \in failing, Current(j) = p
      PROVE  Failed(j) \in Run /\ Failed(j).status = "failed" /\ Failed(j) \in runs'[p]
  <2>1. RecordFailure(j) /\ j \in Job
    BY <1>2
  <2>2. Failed(j) \in Run
    BY <2>1 DEF Run, TypeOK
  <2>3. runs'[p] = runs[p] \cup {Failed(j)}
    BY <2>1, <1>3 DEF RecordFailure, TypeOK
  <2> QED
    BY <2>2, <2>3
<1>4. \A p \in Provider : \A f \in failures(p) : f \in Run /\ f.status = "failed" /\ f \in runs'[p]
  <2> HIDE DEF Failed, failing
  <2> QED
    BY <1>3
<1>5. unmended \in [Provider -> SUBSET Run] /\ known \in [Reader -> [Provider -> SUBSET Run]]
  BY DEF RequestType
<1> HIDE DEF mended, failures
<1>6. /\ unmended' \in [Provider -> SUBSET Run]
      /\ \A p \in Provider : \A f \in unmended'[p] :
           f \in unmended[p] \/ (f.status = "failed" /\ f \in runs'[p])
  <2>1. CASE unmended' = unmended
    BY <1>5, <2>1
  <2>2. CASE unmended' = [p \in Provider |-> IF p \in mended THEN {} ELSE unmended[p] \cup failures(p)]
    <3>1. \A p \in Provider : /\ unmended'[p] \subseteq unmended[p] \cup failures(p)
                             /\ unmended'[p] \subseteq Run
      BY <1>4, <1>5, <2>2
    <3>2. unmended' \in [Provider -> SUBSET Run]
      BY <2>2, <3>1
    <3> QED
      BY <1>4, <3>1, <3>2
  <2> QED
    BY <1>1, <2>1, <2>2
<1>7. /\ known' \in [Reader -> [Provider -> SUBSET Run]]
      /\ \A r \in Reader, p \in Provider : known'[r][p] \subseteq known[r][p]
  BY <1>1, <1>5
<1> QED
  BY <1>6, <1>7

LEMMA NoFramesType == NoFrames \in [Provider -> [Time -> [Hours -> Nat]]]
BY DEF NoFrames

\* The queries return what is stored.
LEMMA QueryTypes ==
  ASSUME TypeOK, NEW s \in Scope, NEW from, NEW to
  PROVE  /\ LatestRuns(s) \subseteq RunsIn(s)
         /\ RunsIn(s) \subseteq Found
         /\ FramesBetween(s, from, to) \in [Provider -> [Time -> [Hours -> Nat]]]
<1>1. FramesBetween(s, from, to) \in [Provider -> [Time -> [Hours -> Nat]]]
  BY DEF FramesBetween, TypeOK
<1> QED
  BY <1>1 DEF LatestRuns, RunsIn

LEMMA RequestTypeStep ==
  TypeOK /\ RequestType /\ [ReadsNext]_<<vars, readers>> => RequestType'
<1> SUFFICES ASSUME TypeOK, RequestType, [ReadsNext]_<<vars, readers>>
             PROVE  RequestType'
  OBVIOUS
<1>1. CASE UNCHANGED request /\ (UNCHANGED <<unmended, known>> \/ (Next /\ Remember))
  BY <1>1, RememberStep DEF RequestType, request
<1> SUFFICES ASSUME unmended' = unmended
             PROVE  RequestType'
  BY <1>1, ReadsStepKinds
<1>2. ASSUME NEW r \in Reader, NEW k \in Kind, NEW s \in Scope, Ask(r, k, s)
      PROVE  RequestType'
  <2>1. FirstPhase[k] \in Phase
    BY DEF FirstPhase, Kind, Phase
  <2>2. phase' \in [Reader -> Phase]
    BY <1>2, <2>1 DEF Ask, Turn, RequestType
  <2>3. now' \in [Reader -> Time]
    BY <1>2, MaxClockAssumption DEF Ask, RequestType, TypeOK, Time
  <2>4. [p \in Provider |-> FailuresNow(k, s, p)] \in [Provider -> SUBSET Run]
    BY DEF FailuresNow, RequestType
  <2>5. known' \in [Reader -> [Provider -> SUBSET Run]]
    BY <1>2, <2>4 DEF Ask, RequestType
  <2>6. page' \in [Reader -> [Provider -> [Time -> [Hours -> Nat]]]]
    BY <1>2, NoFramesType DEF Ask, RequestType
  <2> QED
    BY <1>2, <2>2, <2>3, <2>5, <2>6 DEF Ask, RequestType
<1>3. ASSUME NEW r \in Reader, ListFrames(r)
      PROVE  RequestType'
  <2>1. FramesBetween(scope[r], 0, Horizon) \in [Provider -> [Time -> [Hours -> Nat]]]
    BY QueryTypes DEF RequestType
  <2>2. page' \in [Reader -> [Provider -> [Time -> [Hours -> Nat]]]]
    BY <1>3, <2>1 DEF ListFrames, RequestType
  <2> QED
    BY <1>3, <2>2 DEF ListFrames, Turn, RequestType, Phase
<1>4. ASSUME NEW r \in Reader, FindLatest(r)
      PROVE  RequestType'
  <2>1. LatestRuns(scope[r]) \subseteq Found
    BY QueryTypes DEF RequestType
  <2>2. found' = found \/ \E x \in Found : found' = [found EXCEPT ![r] = {x}]
    <3>1. \/ found' = found
          \/ \E x \in LatestRuns(scope[r]) : found' = [found EXCEPT ![r] = {x}]
      BY <1>4 DEF FindLatest
    <3> QED
      BY <2>1, <3>1
  <2>3. found' \in [Reader -> SUBSET Found]
    <3>1. found \in [Reader -> SUBSET Found]
      BY DEF RequestType
    <3> QED
      BY <2>2, <3>1
  <2> QED
    BY <1>4, <2>3 DEF FindLatest, Turn, RequestType, Phase
<1>5. ASSUME NEW r \in Reader, NEW p \in Provider, CheckProvider(r, p)
      PROVE  RequestType'
  <2>1. LatestRuns(p) \subseteq Found
    BY QueryTypes DEF Scope
  <2>2. \/ found' = found
        \/ \E x \in Found : found' = [found EXCEPT ![r] = @ \cup {x}]
    BY <1>5, <2>1 DEF CheckProvider
  <2>3. found' \in [Reader -> SUBSET Found]
    <3>1. found \in [Reader -> SUBSET Found]
      BY DEF RequestType
    <3> QED
      BY <2>2, <3>1
  <2> QED
    BY <1>5, <2>3 DEF CheckProvider, Turn, RequestType, Phase
<1>6. ASSUME NEW r \in Reader, Discard(r)
      PROVE  /\ now' \in [Reader -> Time]
             /\ known' \in [Reader -> [Provider -> SUBSET Run]]
             /\ page' \in [Reader -> [Provider -> [Time -> [Hours -> Nat]]]]
             /\ found' \in [Reader -> SUBSET Found]
  BY <1>6, NoFramesType, MaxClockAssumption DEF Discard, RequestType, Time
<1>7. ASSUME NEW r \in Reader, CheckStations(r)
      PROVE  RequestType'
  <2>1. phase' \in [Reader -> Phase] /\ kind' = kind /\ scope' = scope
    BY <1>7 DEF CheckStations, Turn, RequestType, Phase
  <2> QED
    BY <1>6, <1>7, <2>1 DEF CheckStations, RequestType
<1>8. ASSUME NEW r \in Reader, ReadFails(r)
      PROVE  RequestType'
  <2>1. phase' \in [Reader -> Phase] /\ kind' = kind /\ scope' = scope
    BY <1>8 DEF ReadFails, Turn, RequestType, Phase
  <2> QED
    BY <1>6, <1>8, <2>1 DEF ReadFails, RequestType
<1> QED
  BY <1>1, <1>2, <1>3, <1>4, <1>5, <1>7, <1>8, ReadsStepKinds

\* How far each endpoint is, and which pipelines it has read.
PhaseInv ==
  \A r \in Reader :
    /\ kind[r] = "health" => phase[r] \notin {"list", "latest"}
    /\ kind[r] # "health" => phase[r] \notin {"gfs", "ecmwf", "stations"}
    /\ phase[r] \in {"list", "latest", "gfs"} => found[r] = {}
    /\ phase[r] = "ecmwf" => \A x \in found[r] : x.provider = "gfs"
    /\ \A x, y \in found[r] : x.provider = y.provider => x = y

LEMMA PhaseStep ==
  TypeOK /\ RequestType /\ PhaseInv /\ [ReadsNext]_<<vars, readers>> => PhaseInv'
<1> SUFFICES ASSUME TypeOK, RequestType, PhaseInv, [ReadsNext]_<<vars, readers>>,
                    NEW i \in Reader
             PROVE  (/\ kind[i] = "health" => phase[i] \notin {"list", "latest"}
                     /\ kind[i] # "health" => phase[i] \notin {"gfs", "ecmwf", "stations"}
                     /\ phase[i] \in {"list", "latest", "gfs"} => found[i] = {}
                     /\ phase[i] = "ecmwf" => \A x \in found[i] : x.provider = "gfs"
                     /\ \A x, y \in found[i] : x.provider = y.provider => x = y)'
  BY DEF PhaseInv
<1> DEFINE Goal == (/\ kind[i] = "health" => phase[i] \notin {"list", "latest"}
                    /\ kind[i] # "health" => phase[i] \notin {"gfs", "ecmwf", "stations"}
                    /\ phase[i] \in {"list", "latest", "gfs"} => found[i] = {}
                    /\ phase[i] = "ecmwf" => \A x \in found[i] : x.provider = "gfs"
                    /\ \A x, y \in found[i] : x.provider = y.provider => x = y)'
<1>1. CASE UNCHANGED request
  BY <1>1 DEF PhaseInv, request
<1>2. ASSUME NEW r \in Reader, NEW k \in Kind, NEW s \in Scope, Ask(r, k, s)
      PROVE  Goal
  BY <1>2 DEF Ask, Turn, FirstPhase, Kind, PhaseInv, RequestType
<1>3. ASSUME NEW r \in Reader, ListFrames(r)
      PROVE  Goal
  BY <1>3 DEF ListFrames, Turn, PhaseInv, RequestType
<1>4. ASSUME NEW r \in Reader, FindLatest(r)
      PROVE  Goal
  BY <1>4 DEF FindLatest, Turn, PhaseInv, RequestType
<1>5. ASSUME NEW r \in Reader, NEW p \in Provider, CheckProvider(r, p)
      PROVE  Goal
  <2>1. \A x \in LatestRuns(p) : x.provider = p
    BY DEF LatestRuns, RunsIn, InScope, Provider
  <2>2. /\ phase[r] = p /\ kind' = kind
        /\ found'[r] = found[r] \/ \E x \in LatestRuns(p) : found'[r] = found[r] \cup {x}
        /\ phase'[r] = IF p = "gfs" THEN "ecmwf" ELSE "stations"
        /\ \A q \in Reader \ {r} : phase'[q] = phase[q] /\ found'[q] = found[q]
    BY <1>5 DEF CheckProvider, Turn, RequestType
  <2>3. p = "gfs" \/ p = "ecmwf"
    BY DEF Provider
  <2>4. CASE i # r
    BY <2>2, <2>4 DEF PhaseInv
  <2>5. CASE i = r /\ p = "gfs"
    BY <2>1, <2>2, <2>5 DEF PhaseInv
  <2>6. CASE i = r /\ p = "ecmwf"
    BY <2>1, <2>2, <2>6 DEF PhaseInv
  <2> QED
    BY <2>3, <2>4, <2>5, <2>6
<1>6. ASSUME NEW r \in Reader, CheckStations(r) \/ ReadFails(r)
      PROVE  Goal
  BY <1>6 DEF CheckStations, ReadFails, Discard, Turn, PhaseInv, RequestType
<1> QED
  BY <1>1, <1>2, <1>3, <1>4, <1>5, <1>6, ReadsStepKinds

\* A request is well typed and finds at most one run of a pipeline, with any number
\* of readers and executions.
THEOREM ReadsTypeCorrect == ReadsSpec => []ReadsTypeOK
<1>1. ReadsInit => RequestType /\ PhaseInv
  <2>1. 0 \in Time
    BY MaxClockAssumption DEF Time
  <2> QED
    BY <2>1, NoFramesType DEF ReadsInit, RequestType, PhaseInv, Kind, Scope, Phase
<1>2. TypeOK /\ RequestType /\ PhaseInv /\ [ReadsNext]_<<vars, readers>>
        => (RequestType /\ PhaseInv)'
  BY RequestTypeStep, PhaseStep
<1>3. TypeOK /\ RequestType /\ PhaseInv => ReadsTypeOK
  BY DEF RequestType, PhaseInv, ReadsTypeOK
<1> QED
  BY <1>1, <1>2, <1>3, ReadersOnlyRead, TypeCorrect, PTL DEF ReadsSpec

\* The history names failures that are stored.
UnmendedInv ==
  \A p \in Provider : \A f \in unmended[p] : f.status = "failed" /\ f \in runs[p]

LEMMA UnmendedStep ==
  TypeOK /\ RequestType /\ UnmendedInv /\ [ReadsNext]_<<vars, readers>> => UnmendedInv'
<1> SUFFICES ASSUME TypeOK, RequestType, UnmendedInv, [ReadsNext]_<<vars, readers>>
             PROVE  UnmendedInv'
  OBVIOUS
<1>1. \A p \in Provider : runs[p] \subseteq runs'[p]
  BY RunsGrow DEF ReadsNext, vars
<1>2. unmended' = unmended \/ (Next /\ Remember)
  BY DEF ReadsNext, readers
<1> QED
  BY <1>1, <1>2, RememberStep DEF UnmendedInv

\* What a request found is stored, of its scope, and not older than any failure of
\* that pipeline that it knows of; such failures are stored.
FoundInv ==
  \A r \in Reader :
    /\ \A x \in found[r] : /\ x.run \in runs[x.provider]
                           /\ kind[r] # "health" => InScope(scope[r], x.provider)
                           /\ \A f \in known[r][x.provider] : ~Newer(f, x.run)
    /\ scope[r] = "ifs" => \A p \in Provider : known[r][p] = {}
    /\ \A p \in Provider : \A f \in known[r][p] : f.status = "failed" /\ f \in runs[p]

\* A run the queries call the latest is stored and none stored beside it is newer.
LEMMA LatestIsLatest ==
  ASSUME NEW s, NEW x \in LatestRuns(s)
  PROVE  /\ x \in Found
         /\ x.run \in runs[x.provider]
         /\ InScope(s, x.provider)
         /\ s # "ifs" => \A f \in runs[x.provider] : f \in Run => ~Newer(f, x.run)
<1>1. /\ x \in Found /\ x.run \in runs[x.provider] /\ InScope(s, x.provider)
      /\ \A y \in RunsIn(s) : ~Newer(y.run, x.run)
  BY DEF LatestRuns, RunsIn
<1>2. ASSUME s # "ifs", NEW f \in runs[x.provider], f \in Run
      PROVE  ~Newer(f, x.run)
  <2> DEFINE y == [provider |-> x.provider, run |-> f]
  <2>1. y \in Found /\ y.run = f /\ y.provider = x.provider
    BY <1>1, <1>2 DEF Found
  <2>2. y \in RunsIn(s)
    BY <1>1, <1>2, <2>1 DEF RunsIn
  <2> QED
    BY <1>1, <2>1, <2>2
<1> QED
  BY <1>1, <1>2

\* What FoundInv says of reader r.
FoundBy(r) ==
  /\ \A x \in found[r] : /\ x.run \in runs[x.provider]
                         /\ kind[r] # "health" => InScope(scope[r], x.provider)
                         /\ \A f \in known[r][x.provider] : ~Newer(f, x.run)
  /\ scope[r] = "ifs" => \A p \in Provider : known[r][p] = {}
  /\ \A p \in Provider : \A f \in known[r][p] : f.status = "failed" /\ f \in runs[p]

LEMMA FoundStep ==
  TypeOK /\ RequestType /\ PhaseInv /\ UnmendedInv /\ FoundInv /\ [ReadsNext]_<<vars, readers>>
    => FoundInv'
<1> SUFFICES ASSUME TypeOK, RequestType, PhaseInv, UnmendedInv, FoundInv,
                    [ReadsNext]_<<vars, readers>>, NEW i \in Reader
             PROVE  FoundBy(i)'
  BY DEF FoundInv, FoundBy
<1>0. FoundBy(i)
  BY DEF FoundInv, FoundBy
<1>1. CASE UNCHANGED request /\ (UNCHANGED <<unmended, known>> \/ (Next /\ Remember))
  <2>1. \A p \in Provider : runs[p] \subseteq runs'[p]
    BY RunsGrow DEF ReadsNext, vars
  <2>2. \A x \in found[i] : x.provider \in Provider
    BY DEF RequestType, Found
  <2>3. \A p \in Provider : known'[i][p] \subseteq known[i][p]
    BY <1>1, RememberStep
  <2> QED
    BY <1>0, <1>1, <2>1, <2>2, <2>3 DEF FoundBy, request, InScope, Newer
<1>2. ASSUME UNCHANGED vars, NEW r \in Reader, NEW k \in Kind, NEW s \in Scope, Ask(r, k, s)
      PROVE  FoundBy(i)'
  <2>1. CASE i # r
    BY <1>0, <1>2, <2>1 DEF Ask, FoundBy, vars, store, RequestType, InScope, Newer
  <2>2. CASE i = r
    <3>1. /\ found'[i] = {} /\ scope'[i] = s
          /\ \A p \in Provider : known'[i][p] = FailuresNow(k, s, p)
      BY <1>2, <2>2 DEF Ask, RequestType
    <3>2. s = "ifs" => \A p \in Provider : FailuresNow(k, s, p) = {}
      BY <1>2 DEF FailuresNow, Ask, Provider
    <3>3. runs' = runs
      BY <1>2 DEF vars, store
    <3>4. \A p \in Provider : \A f \in FailuresNow(k, s, p) : f.status = "failed" /\ f \in runs[p]
      BY DEF FailuresNow, UnmendedInv
    <3> QED
      BY <3>1, <3>2, <3>3, <3>4 DEF FoundBy
  <2> QED
    BY <2>1, <2>2
<1>3. ASSUME UNCHANGED vars, NEW r \in Reader, ListFrames(r)
      PROVE  FoundBy(i)'
  BY <1>0, <1>3 DEF ListFrames, FoundBy, vars, store, InScope, Newer
<1>4. ASSUME UNCHANGED vars, NEW r \in Reader, FindLatest(r)
      PROVE  FoundBy(i)'
  <2>1. /\ runs' = runs /\ scope' = scope /\ kind' = kind /\ known' = known
        /\ i # r => found'[i] = found[i]
        /\ \/ found'[r] = found[r]
           \/ \E x \in LatestRuns(scope[r]) : found'[r] = {x}
    BY <1>4 DEF FindLatest, RequestType, vars, store
  <2>2. CASE found'[i] = found[i]
    BY <1>0, <2>1, <2>2 DEF FoundBy, InScope, Newer
  <2>3. ASSUME i = r, NEW x \in LatestRuns(scope[r]), found'[r] = {x}
        PROVE  FoundBy(i)'
    <3>1. /\ x.provider \in Provider
          /\ x.run \in runs[x.provider]
          /\ InScope(scope[i], x.provider)
      BY <2>3, LatestIsLatest DEF Found
    <3>2. \A f \in known[i][x.provider] : ~Newer(f, x.run)
      <4>1. CASE scope[i] = "ifs"
        BY <1>0, <3>1, <4>1 DEF FoundBy
      <4>2. CASE scope[i] # "ifs"
        <5>1. \A f \in known[i][x.provider] : f \in runs[x.provider] /\ f \in Run
          BY <1>0, <3>1 DEF FoundBy, TypeOK
        <5> QED
          BY <2>3, <4>2, <5>1, LatestIsLatest
      <4> QED
        BY <4>1, <4>2
    <3> QED
      BY <1>0, <2>1, <2>3, <3>1, <3>2 DEF FoundBy, InScope, Newer
  <2> QED
    BY <2>1, <2>2, <2>3
<1>5. ASSUME UNCHANGED vars, NEW r \in Reader, NEW p \in Provider, CheckProvider(r, p)
      PROVE  FoundBy(i)'
  <2>1. /\ runs' = runs /\ scope' = scope /\ kind' = kind /\ known' = known
        /\ i # r => found'[i] = found[i]
        /\ \/ found'[r] = found[r]
           \/ \E x \in LatestRuns(p) : found'[r] = found[r] \cup {x}
    BY <1>5 DEF CheckProvider, RequestType, vars, store
  <2>2. CASE found'[i] = found[i]
    BY <1>0, <2>1, <2>2 DEF FoundBy, InScope, Newer
  <2>3. ASSUME i = r, NEW x \in LatestRuns(p), found'[r] = found[r] \cup {x}
        PROVE  FoundBy(i)'
    <3>1. x.provider \in Provider /\ x.run \in runs[x.provider]
      BY <2>3, LatestIsLatest DEF Found
    <3>2. \A f \in known[i][x.provider] : ~Newer(f, x.run)
      <4>1. \A f \in known[i][x.provider] : f \in runs[x.provider] /\ f \in Run
        BY <1>0, <3>1 DEF FoundBy, TypeOK
      <4>2. p # "ifs"
        BY DEF Provider
      <4> QED
        BY <2>3, <4>1, <4>2, LatestIsLatest
    <3>3. kind[i] = "health"
      BY <1>5, <2>3 DEF CheckProvider, PhaseInv, Provider
    <3> QED
      BY <1>0, <2>1, <2>3, <3>1, <3>2, <3>3 DEF FoundBy, InScope, Newer
  <2> QED
    BY <2>1, <2>2, <2>3
<1>6. ASSUME UNCHANGED vars, NEW r \in Reader, CheckStations(r) \/ ReadFails(r)
      PROVE  FoundBy(i)'
  <2>1. /\ runs' = runs /\ scope' = scope /\ kind' = kind
        /\ \/ found' = found /\ known' = known
           \/ Discard(r)
    BY <1>6 DEF CheckStations, ReadFails, vars, store
  <2>2. CASE i # r \/ (found' = found /\ known' = known)
    BY <1>0, <2>1, <2>2 DEF FoundBy, Discard, RequestType, InScope, Newer
  <2>3. CASE i = r /\ Discard(r)
    BY <2>3 DEF FoundBy, Discard, RequestType
  <2> QED
    BY <2>1, <2>2, <2>3
<1> QED
  BY <1>1, <1>2, <1>3, <1>4, <1>5, <1>6, ReadsStepKinds

LEMMA FoundInductive ==
  ReadsSpec => [](TypeOK /\ RequestType /\ PhaseInv /\ UnmendedInv /\ FoundInv)
<1>1. ReadsInit => RequestType /\ PhaseInv /\ UnmendedInv /\ FoundInv
  <2>1. 0 \in Time
    BY MaxClockAssumption DEF Time
  <2> QED
    BY <2>1, NoFramesType
    DEF ReadsInit, RequestType, PhaseInv, UnmendedInv, FoundInv, Kind, Scope, Phase
<1> QED
  BY <1>1, RequestTypeStep, PhaseStep, UnmendedStep, FoundStep, ReadersOnlyRead, TypeCorrect, PTL
  DEF ReadsSpec

\* A failure surfaces, with any number of readers beside any overlapping executions.
THEOREM FailureSurfacesAlways == ReadsSpec => []FailureSurfaces
<1>1. ASSUME TypeOK, RequestType, PhaseInv, FoundInv
      PROVE  FailureSurfaces
  <2> SUFFICES ASSUME NEW r \in Reader, NEW p \in Provider, phase[r] = "answered", Clears(r, p)
               PROVE  /\ \A f \in known[r][p] : \E c \in Time : c > f.time /\ Stored(p, c)
                      /\ kind[r] = "health" =>
                           \E c \in Time : Stored(p, c) /\ now[r] < c + MaxAge[p]
    BY DEF FailureSurfaces
  <2>1. FoundBy(r)
    BY <1>1 DEF FoundInv, FoundBy
  <2>2. \E x \in found[r] :
          /\ x.provider = p /\ x.run.status = "stored"
          /\ kind[r] = "health" => ~(now[r] >= x.run.time + MaxAge[p])
    <3>1. CASE kind[r] = "health"
      <4> DEFINE stored == {x \in found[r] : x.provider = p /\ x.run.status = "stored"}
      <4>1. QualityOf(r, p) \notin {"stale", "failed"}
        BY <3>1 DEF Clears, Breach
      <4>2. stored # {}
        BY <4>1 DEF QualityOf
      <4>3. ~ \E x \in stored : now[r] >= x.run.time + MaxAge[p]
        BY <4>1, <4>2 DEF QualityOf
      <4> QED
        BY <4>2, <4>3
    <3>2. CASE kind[r] # "health"
      <4>1. scope[r] = p /\ BlockStatus(r) = "fresh"
        BY <3>2 DEF Clears
      <4>2. PICK x \in found[r] : x.run.status = "stored"
        BY <4>1 DEF BlockStatus
      <4>3. InScope(p, x.provider)
        BY <2>1, <3>2, <4>1, <4>2 DEF FoundBy
      <4>4. x.provider = p
        BY <4>3 DEF InScope, Provider
      <4> QED
        BY <3>2, <4>2, <4>4
    <3> QED
      BY <3>1, <3>2
  <2>3. PICK x \in found[r] :
          /\ x.provider = p /\ x.run.status = "stored"
          /\ kind[r] = "health" => ~(now[r] >= x.run.time + MaxAge[p])
    BY <2>2
  <2>4. x.run \in runs[p] /\ x.run \in Run
    BY <1>1, <2>1, <2>3 DEF FoundBy, TypeOK
  <2>5. x.run.time \in Time /\ Stored(p, x.run.time)
    BY <2>3, <2>4 DEF Run, Stored
  <2>6. ASSUME NEW f \in known[r][p]
        PROVE  x.run.time > f.time
    <3>1. f.status = "failed" /\ f \in Run /\ ~Newer(f, x.run)
      BY <1>1, <2>1, <2>3 DEF FoundBy, TypeOK
    <3>2. f.time \in Time
      BY <3>1 DEF Run
    <3> QED
      BY <2>3, <2>5, <3>1, <3>2, MaxClockAssumption DEF Newer, Time
  <2>7. now[r] \in Time /\ MaxAge[p] \in Nat
    BY <1>1, CycleAssumption DEF RequestType
  <2>8. kind[r] = "health" => now[r] < x.run.time + MaxAge[p]
    BY <2>3, <2>5, <2>7, MaxClockAssumption DEF Time
  <2> QED
    BY <2>5, <2>6, <2>8
<1> QED
  BY <1>1, FoundInductive, PTL

\* What a frames request listed is stored and of its scope, and once it is answered
\* the run it found is as new.
PageOf(r) ==
  kind[r] = "frames" /\ phase[r] \in {"latest", "answered"} =>
    \A p \in Provider, c \in Time, h \in Hours : page[r][p][c][h] > 0 =>
      /\ InScope(scope[r], p)
      /\ Stored(p, c)
      /\ phase[r] = "answered" => \E x \in found[r] : x.run.time >= c

PageInv == \A r \in Reader : PageOf(r)

\* A stored cycle of the scope has a latest run beside it, and it is as new.
LEMMA LatestCovers ==
  ASSUME TypeOK, NEW s \in Scope, NEW p \in Provider, NEW c \in Time,
         InScope(s, p), Stored(p, c)
  PROVE  /\ LatestRuns(s) # {}
         /\ \A x \in LatestRuns(s) : x.run.time >= c
<1> DEFINE y == [provider |-> p, run |-> [status |-> "stored", time |-> c]]
<1>1. y \in RunsIn(s)
  BY DEF RunsIn, Found, Run, Stored
<1>2. RunsIn(s) \subseteq Found
  BY DEF RunsIn
<1>3. \E x \in RunsIn(s) : \A z \in RunsIn(s) : ~Newer(z.run, x.run)
  <2> HIDE DEF y
  <2> QED
    BY <1>1, <1>2, LatestFound
<1>4. ASSUME NEW x \in LatestRuns(s)
      PROVE  x.run.time >= c
  <2>1. ~Newer(y.run, x.run) /\ x \in Found
    BY <1>1 DEF LatestRuns, RunsIn
  <2>2. x.run.time \in Time
    BY <2>1 DEF Found, Run
  <2> QED
    BY <2>1, <2>2, MaxClockAssumption DEF Newer, Time
<1> QED
  BY <1>3, <1>4 DEF LatestRuns

LEMMA PageStep ==
  TypeOK /\ RequestType /\ PhaseInv /\ FramesHaveRun /\ PageInv
    /\ [ReadsNext]_<<vars, readers>> => PageInv'
<1> SUFFICES ASSUME TypeOK, RequestType, PhaseInv, FramesHaveRun, PageInv,
                    [ReadsNext]_<<vars, readers>>, NEW i \in Reader
             PROVE  PageOf(i)'
  BY DEF PageInv
<1>0. PageOf(i)
  BY DEF PageInv
<1>1. CASE UNCHANGED request
  <2>1. \A p \in Provider, c \in Time : Stored(p, c) => Stored(p, c)'
    BY RunsGrow DEF ReadsNext, vars, Stored
  <2> QED
    BY <1>0, <1>1, <2>1 DEF PageOf, request, InScope
<1>2. ASSUME UNCHANGED vars, NEW r \in Reader, NEW k \in Kind, NEW s \in Scope, Ask(r, k, s)
      PROVE  PageOf(i)'
  <2>1. CASE i # r
    BY <1>0, <1>2, <2>1 DEF Ask, Turn, PageOf, vars, store, RequestType, InScope, Stored
  <2>2. CASE i = r
    <3>1. kind'[i] = k /\ phase'[i] = FirstPhase[k]
      BY <1>2, <2>2 DEF Ask, Turn, RequestType
    <3> QED
      BY <3>1 DEF PageOf, FirstPhase, Kind
  <2> QED
    BY <2>1, <2>2
<1>3. ASSUME UNCHANGED vars, NEW r \in Reader, ListFrames(r)
      PROVE  PageOf(i)'
  <2>1. /\ runs' = runs /\ scope' = scope /\ kind' = kind /\ found' = found
        /\ i # r => page'[i] = page[i] /\ phase'[i] = phase[i]
        /\ page'[r] = FramesBetween(scope[r], 0, Horizon) /\ phase'[r] = "latest"
    BY <1>3 DEF ListFrames, Turn, RequestType, vars, store
  <2>2. CASE i # r
    BY <1>0, <2>1, <2>2 DEF PageOf, InScope, Stored
  <2>3. CASE i = r
    <3>1. ASSUME NEW p \in Provider, NEW c \in Time, NEW h \in Hours,
                 FramesBetween(scope[r], 0, Horizon)[p][c][h] > 0
          PROVE  InScope(scope[r], p) /\ Stored(p, c)
      <4>1. InScope(scope[r], p) /\ frames[p][c][h] > 0
        BY <3>1 DEF FramesBetween
      <4> QED
        BY <4>1 DEF FramesHaveRun
    <3>2. phase'[i] # "answered"
      BY <2>1, <2>3
    <3> QED
      BY <2>1, <2>3, <3>1, <3>2 DEF PageOf, InScope, Stored
  <2> QED
    BY <2>2, <2>3
<1>4. ASSUME UNCHANGED vars, NEW r \in Reader, FindLatest(r)
      PROVE  PageOf(i)'
  <2>1. /\ runs' = runs /\ scope' = scope /\ kind' = kind /\ page' = page
        /\ i # r => found'[i] = found[i] /\ phase'[i] = phase[i]
        /\ phase[r] = "latest" /\ scope[r] \in Scope
        /\ \/ LatestRuns(scope[r]) = {}
           \/ \E x \in LatestRuns(scope[r]) : found'[r] = {x}
    BY <1>4 DEF FindLatest, Turn, RequestType, vars, store
  <2>2. CASE i # r
    BY <1>0, <2>1, <2>2 DEF PageOf, InScope, Stored
  <2>3. CASE i = r
    <3>1. SUFFICES ASSUME kind[i] = "frames", NEW p \in Provider, NEW c \in Time, NEW h \in Hours,
                          page[i][p][c][h] > 0
                   PROVE  /\ InScope(scope[i], p)
                          /\ Stored(p, c)
                          /\ \E x \in found'[i] : x.run.time >= c
      BY <2>1 DEF PageOf, InScope, Stored
    <3>2. InScope(scope[i], p) /\ Stored(p, c)
      BY <1>0, <2>1, <2>3, <3>1 DEF PageOf
    <3>3. /\ LatestRuns(scope[i]) # {}
          /\ \A x \in LatestRuns(scope[i]) : x.run.time >= c
      BY <2>1, <2>3, <3>2, LatestCovers
    <3> QED
      BY <2>1, <2>3, <3>2, <3>3
  <2> QED
    BY <2>2, <2>3
<1>5. ASSUME UNCHANGED vars, NEW r \in Reader, NEW p \in Provider, CheckProvider(r, p)
      PROVE  PageOf(i)'
  <2>1. kind[r] = "health"
    BY <1>5 DEF CheckProvider, PhaseInv, Provider
  <2> QED
    BY <1>0, <1>5, <2>1 DEF CheckProvider, Turn, PageOf, vars, store, RequestType, InScope, Stored
<1>6. ASSUME UNCHANGED vars, NEW r \in Reader, CheckStations(r) \/ ReadFails(r)
      PROVE  PageOf(i)'
  <2>1. /\ runs' = runs /\ scope' = scope /\ kind' = kind
        /\ i # r => found'[i] = found[i] /\ page'[i] = page[i] /\ phase'[i] = phase[i]
        /\ kind[r] = "health" \/ phase'[r] = "error"
    BY <1>6 DEF CheckStations, ReadFails, Discard, Turn, PhaseInv, RequestType, vars, store
  <2> QED
    BY <1>0, <2>1 DEF PageOf, InScope, Stored
<1> QED
  BY <1>1, <1>2, <1>3, <1>4, <1>5, <1>6, ReadsStepKinds

\* The freshness block is never behind the frames, whatever is stored between the
\* two reads.
THEOREM BlockNotBehindFramesAlways == ReadsSpec => []BlockNotBehindFrames
<1>1. ReadsInit => PageInv
  BY DEF ReadsInit, PageInv, PageOf
<1>2. PageInv => BlockNotBehindFrames
  BY DEF PageInv, PageOf, BlockNotBehindFrames
<1> QED
  BY <1>1, <1>2, PageStep, FoundInductive, ReadersOnlyRead, FramesHaveRunAlways, PTL
  DEF ReadsSpec

\* The dates of an inclusive range are those of its half-open interval of instants.
LEMMA DatesOfInterval ==
  ASSUME NEW D \in Nat \ {0}, NEW n \in Nat, NEW s \in Nat, NEW e \in Nat
  PROVE  (s * D <= n /\ n <= (e + 1) * D - 1) <=> n \div D \in s .. e
<1> DEFINE q == n \div D
<1>1. q \in Nat /\ q * D <= n /\ n < (q + 1) * D
  OBVIOUS
<1> HIDE DEF q
<1>2. \A a, b \in Nat : a <= b => a * D <= b * D
  OBVIOUS
<1>3. ASSUME s <= q, q <= e
      PROVE  s * D <= n /\ n <= (e + 1) * D - 1
  <2>1. s * D <= q * D /\ (q + 1) * D <= (e + 1) * D
    BY <1>1, <1>2, <1>3
  <2> QED
    BY <1>1, <2>1
<1>4. ASSUME s * D <= n, q < s
      PROVE  FALSE
  <2>1. (q + 1) * D <= s * D
    BY <1>1, <1>2, <1>4
  <2> QED
    BY <1>1, <1>4, <2>1
<1>5. ASSUME n <= (e + 1) * D - 1, e < q
      PROVE  FALSE
  <2>1. (e + 1) * D <= q * D
    BY <1>1, <1>2, <1>5
  <2> QED
    BY <1>1, <1>5, <2>1
<1>6. (s * D <= n /\ n <= (e + 1) * D - 1) <=> q \in s .. e
  BY <1>1, <1>3, <1>4, <1>5
<1> QED
  BY <1>6 DEF q

\* Exports tile the data, for any length of the day and any store.
THEOREM ExportsTileAlways == ReadsSpec => []ExportsTile
<1>1. ASSUME TypeOK
      PROVE  ExportsTile
  <2> SUFFICES ASSUME NEW start \in 0 .. Horizon \div DayLength,
                      NEW end \in 0 .. Horizon \div DayLength
               PROVE  /\ \A p \in Provider, c \in Time, h \in Hours :
                           ExportedFrames(start, end)[p][c][h] =
                             IF (c + h) \div DayLength \in start .. end
                             THEN frames[p][c][h] ELSE 0
                      /\ ExportedEvents(start, end) = EventDates \cap (start .. end)
    BY DEF ExportsTile
  <2>1. start \in Nat /\ end \in Nat
    OBVIOUS
  <2>2. ASSUME NEW p \in Provider, NEW c \in Time, NEW h \in Hours
        PROVE  ExportedFrames(start, end)[p][c][h] =
                 IF (c + h) \div DayLength \in start .. end THEN frames[p][c][h] ELSE 0
    <3>1. c + h \in Nat /\ DayLength \in Nat \ {0}
      BY HoursAssumption, DaysAssumption, MaxClockAssumption DEF Time
    <3>2. (start * DayLength <= c + h /\ c + h <= (end + 1) * DayLength - 1)
            <=> (c + h) \div DayLength \in start .. end
      BY <2>1, <3>1, DatesOfInterval
    <3> QED
      BY <3>2 DEF ExportedFrames, FramesBetween, InScope
  <2>3. ExportedEvents(start, end) = EventDates \cap (start .. end)
    <3>1. \A d \in EventDates : d \in start .. end <=> start <= d /\ d <= end
      BY <2>1, EventsAssumption
    <3>2. ExportedEvents(start, end) = {d \in EventDates : d \in start .. end}
      BY <3>1 DEF ExportedEvents
    <3> QED
      BY <3>2
  <2> QED
    BY <2>2, <2>3
<1> QED
  BY <1>1, ReadersOnlyRead, TypeCorrect, PTL
=============================================================================
