------------------------- MODULE CitizenReportsProofs -------------------------
(***************************************************************************)
(* Proofs about CitizenReports, for any finite set of submissions, any     *)
(* addresses, moderators and readers, and any quota.                       *)
(***************************************************************************)
EXTENDS CitizenReports, FiniteSetTheorems, TLAPS

\* Every instant falls in one of the clock hours.
LEMMA HourOfTime ==
  ASSUME NEW t \in Time
  PROVE  t \div Hour \in Bucket
BY WindowAssumption, MaxClockAssumption, Z3 DEF Time, Bucket

\* A database operation moves one submission on, or fails its request.
LEMMA ProceedStep ==
  ASSUME NEW s \in Submission, NEW next \in Stage, stage \in [Submission -> Stage],
         Proceed(s, next)
  PROVE  /\ stage' \in [Submission -> Stage]
         /\ stage'[s] \in {next, "failed"}
         /\ \A r \in Submission : r # s => stage'[r] = stage[r]
BY DEF Proceed, Stage, Ended

\* Every variable keeps its type.
THEOREM TypeCorrect == Spec => []TypeOK
<1>1. Init => TypeOK
  <2> SUFFICES ASSUME Init
               PROVE  TypeOK
    OBVIOUS
  <2>1. rate_limits \in [Ip -> [Bucket -> Nat]]
    BY DEF Init
  <2>2. 0 \in Time
    BY MaxClockAssumption DEF Time
  <2> QED
    BY <2>1, <2>2 DEF Init, TypeOK, Stage, Ended
<1>2. TypeOK /\ [Next]_vars => TypeOK'
  <2> SUFFICES ASSUME TypeOK, [Next]_vars
               PROVE  TypeOK'
    OBVIOUS
  <2> USE DEF TypeOK
  <2>1. CASE UNCHANGED vars
    BY <2>1 DEF vars, submissions, memory, review
  <2>2. CASE Tick
    BY <2>2, MaxClockAssumption DEF Tick, Time, submissions, memory, review
  <2>3. ASSUME NEW s \in Submission, NEW p \in {"none", "valid", "invalid"}, Submit(s, p)
        PROVE  TypeOK'
    BY <2>3 DEF Submit, memory, review, Stage, Ended
  <2>4. ASSUME NEW s \in Submission, Register(s)
        PROVE  TypeOK'
    <3>1. now[s] \div Hour \in Bucket
      BY HourOfTime
    <3>2. rate_limits' \in [Ip -> [Bucket -> Nat]]
      BY <2>4, <3>1 DEF Register, Count
    <3>3. PICK next \in {"refused", "create", "photo"} :
            Proceed(s, next) /\ (next = "photo" => photo[s] # "none")
      BY <2>4 DEF Register, AfterRegistration
    <3>4. /\ stage' \in [Submission -> Stage]
          /\ stage'[s] \in {next, "failed"}
          /\ \A r \in Submission : r # s => stage'[r] = stage[r]
      BY <3>3, ProceedStep DEF Stage, Ended
    <3> QED
      BY <2>4, <3>2, <3>3, <3>4 DEF Register, Count, memory, review
  <2>5. ASSUME NEW s \in Submission, RejectPhoto(s) \/ Fail(s)
        PROVE  TypeOK'
    BY <2>5 DEF RejectPhoto, Fail, memory, review, Stage, Ended
  <2>6. ASSUME NEW s \in Submission, SavePhoto(s) \/ Create(s)
        PROVE  TypeOK'
    <3>1. PICK next \in {"create", "created"} : Proceed(s, next)
      BY <2>6 DEF SavePhoto, Create
    <3>2. /\ stage' \in [Submission -> Stage]
          /\ stage'[s] \in {next, "failed"}
          /\ \A r \in Submission : r # s => stage'[r] = stage[r]
      BY <3>1, ProceedStep DEF Stage, Ended
    <3> QED
      BY <2>6, <3>2 DEF SavePhoto, Create, memory, review
  <2>7. ASSUME NEW i \in Ip, NEW b \in Bucket, Expire(i, b)
        PROVE  TypeOK'
    BY <2>7 DEF Expire, submissions, memory, review
  <2>8. ASSUME NEW m \in Moderator, NEW s \in Submission, Open(m, s)
        PROVE  TypeOK'
    BY <2>8 DEF Open, submissions, memory
  <2>9. ASSUME NEW m \in Moderator, NEW d \in {"approved", "rejected"}, Decide(m, d)
        PROVE  TypeOK'
    BY <2>9 DEF Decide, submissions, memory
  <2>10. ASSUME NEW r \in Reader, NEW s \in Submission, CheckPhoto(r, s)
         PROVE  TypeOK'
    BY <2>10 DEF CheckPhoto, submissions, memory
  <2>11. ASSUME NEW r \in Reader, StreamPhoto(r)
         PROVE  TypeOK'
    BY <2>11 DEF StreamPhoto, submissions, memory
  <2>12. ASSUME NEW s \in Submission, NEW p \in {"none", "valid", "invalid"},
                SubmitInMemory(s, p)
         PROVE  TypeOK'
    <3>1. SlidingWindow(ip[s]) \subseteq Submission
      BY DEF SlidingWindow
    <3>2. /\ UNCHANGED <<clock, backend, ip, rate_limits, photos, review>>
          /\ photo' = [photo EXCEPT ![s] = p]
          /\ now' = [now EXCEPT ![s] = clock]
          /\ registered_at' = [registered_at EXCEPT ![s] = clock]
          /\ \E R \in SUBSET Submission : recent' = [recent EXCEPT ![ip[s]] = R]
          /\ counted' \in {counted, counted \cup {s}}
          /\ reports' \in {reports, [reports EXCEPT ![s] = "pending"]}
      BY <2>12, <3>1 DEF SubmitInMemory
    <3>3. \E next \in {"created", "photo", "refused"} :
            /\ stage' = [stage EXCEPT ![s] = next]
            /\ next = "photo" => p # "none"
      BY <2>12 DEF SubmitInMemory
    <3>4. /\ stage' \in [Submission -> Stage]
          /\ photo' \in [Submission -> {"none", "valid", "invalid"}]
          /\ \A r \in Submission : stage'[r] = "photo" => photo'[r] # "none"
      BY <3>2, <3>3 DEF Stage, Ended
    <3>5. recent' \in [Ip -> SUBSET Submission]
      BY <3>2
    <3> QED
      BY <3>2, <3>4, <3>5 DEF review
  <2>13. ASSUME NEW s \in Submission, StoreInMemory(s)
         PROVE  TypeOK'
    BY <2>13 DEF StoreInMemory, memory, review, Stage, Ended
  <2> QED
    BY <2>1, <2>2, <2>3, <2>4, <2>5, <2>6, <2>7, <2>8, <2>9, <2>10, <2>11, <2>12, <2>13
    DEF Next
<1> QED
  BY <1>1, <1>2, PTL DEF Spec

-----------------------------------------------------------------------------
(* A submission, its photo and its report. *)

\* A report exists only behind the last step of its submission, a photo only
\* behind storage.save; what is about to be inserted has its photo.  In memory no
\* submission waits for a database.
StoreInv ==
  \A s \in Submission :
    /\ reports[s] # "absent" => stage[s] \in {"created", "failed"}
    /\ s \in photos => stage[s] \in {"create", "created", "failed"}
    /\ s \in photos /\ stage[s] = "created" => reports[s] # "absent"
    /\ stage[s] = "create" \/ reports[s] # "absent" =>
         (photo[s] = "valid" => s \in photos)
    /\ backend = "memory" => stage[s] \notin {"register", "create", "failed"}

\* Moderators look at reports that exist.
ScreenInv ==
  \A m \in Moderator : screen[m] # Nothing => reports[screen[m]] # "absent"

\* A report that exists is never removed.
LEMMA ScreenStep == TypeOK /\ ScreenInv /\ [Next]_vars => ScreenInv'
<1> SUFFICES ASSUME TypeOK, ScreenInv, [Next]_vars
             PROVE  ScreenInv'
  OBVIOUS
<1> USE DEF ScreenInv
<1>1. CASE UNCHANGED <<reports, screen>>
  BY <1>1
<1>2. ASSUME NEW s \in Submission, Create(s)
      PROVE  ScreenInv'
  BY <1>2 DEF Create, review, TypeOK
<1>3. ASSUME NEW m \in Moderator, NEW s \in Submission, Open(m, s)
      PROVE  ScreenInv'
  BY <1>3 DEF Open, TypeOK
<1>4. ASSUME NEW m \in Moderator, NEW d \in {"approved", "rejected"}, Decide(m, d)
      PROVE  ScreenInv'
  BY <1>4 DEF Decide, TypeOK
<1>5. ASSUME NEW s \in Submission, NEW p \in {"none", "valid", "invalid"},
             SubmitInMemory(s, p) \/ StoreInMemory(s)
      PROVE  ScreenInv'
  <2>1. screen' = screen /\ reports' \in {reports, [reports EXCEPT ![s] = "pending"]}
    BY <1>5 DEF SubmitInMemory, StoreInMemory, review
  <2> QED
    BY <2>1 DEF TypeOK
<1> QED
  BY <1>1, <1>2, <1>3, <1>4, <1>5
  DEF Next, vars, review, submissions, Tick, Submit, Register, Count, RejectPhoto, SavePhoto,
      Fail, Expire, CheckPhoto, StreamPhoto

\* Lost operations and lost answers keep photos and reports in step.
LEMMA StoreStep == TypeOK /\ StoreInv /\ ScreenInv /\ [Next]_vars => StoreInv'
<1> SUFFICES ASSUME TypeOK, StoreInv, ScreenInv, [Next]_vars
             PROVE  StoreInv'
  OBVIOUS
<1> USE DEF TypeOK, StoreInv
<1>1. ASSUME NEW s \in Submission, NEW p \in {"none", "valid", "invalid"}, Submit(s, p)
      PROVE  StoreInv'
  BY <1>1 DEF Submit, memory
<1>2. ASSUME NEW s \in Submission, Register(s)
      PROVE  StoreInv'
  <2>1. PICK next \in {"refused", "create", "photo"} :
          Proceed(s, next) /\ (next = "create" => photo[s] = "none")
    BY <1>2 DEF Register, AfterRegistration
  <2>2. /\ stage'[s] \in {next, "failed"}
        /\ \A r \in Submission : r # s => stage'[r] = stage[r]
    BY <2>1, ProceedStep DEF Stage, Ended
  <2> QED
    BY <1>2, <2>1, <2>2 DEF Register, Count, memory
<1>3. ASSUME NEW s \in Submission, RejectPhoto(s) \/ Fail(s)
      PROVE  StoreInv'
  BY <1>3 DEF RejectPhoto, Fail, memory
<1>4. ASSUME NEW s \in Submission, SavePhoto(s)
      PROVE  StoreInv'
  BY <1>4 DEF SavePhoto, Proceed, memory
<1>5. ASSUME NEW s \in Submission, Create(s)
      PROVE  StoreInv'
  BY <1>5 DEF Create, Proceed, memory
<1>6. CASE UNCHANGED <<submissions, memory, photos, reports>>
  BY <1>6 DEF submissions, memory
<1>7. ASSUME NEW m \in Moderator, NEW d \in {"approved", "rejected"}, Decide(m, d)
      PROVE  StoreInv'
  <2>1. screen[m] \in Submission /\ reports[screen[m]] # "absent"
    BY <1>7 DEF Decide, ScreenInv
  <2>2. /\ UNCHANGED <<backend, stage, photo, photos>>
        /\ reports' = [reports EXCEPT ![screen[m]] = d]
    BY <1>7 DEF Decide, submissions, memory
  <2> QED
    BY <2>1, <2>2
<1>8. ASSUME NEW s \in Submission, NEW p \in {"none", "valid", "invalid"},
             SubmitInMemory(s, p)
      PROVE  StoreInv'
  BY <1>8 DEF SubmitInMemory
<1>9. ASSUME NEW s \in Submission, StoreInMemory(s)
      PROVE  StoreInv'
  BY <1>9 DEF StoreInMemory, memory
<1> QED
  BY <1>1, <1>2, <1>3, <1>4, <1>5, <1>6, <1>7, <1>8, <1>9
  DEF Next, vars, Tick, Expire, Open, CheckPhoto, StreamPhoto

-----------------------------------------------------------------------------
(* The decisions of the moderators. *)

DecisionInv ==
  /\ \A s \in Submission, d \in {"approved", "rejected"} :
       reports[s] = d => d \in verdicts[s]
  /\ PublicPhotoWasApproved

\* Decisions made from stale screens are still decisions.
LEMMA DecisionStep == TypeOK /\ StoreInv /\ ScreenInv /\ DecisionInv /\ [Next]_vars => DecisionInv'
<1> SUFFICES ASSUME TypeOK, StoreInv, ScreenInv, DecisionInv, [Next]_vars
             PROVE  DecisionInv'
  OBVIOUS
<1> USE DEF DecisionInv, PublicPhotoWasApproved
<1>1. CASE UNCHANGED <<reports, review>>
  BY <1>1 DEF review
<1>2. ASSUME NEW s \in Submission, Create(s)
      PROVE  DecisionInv'
  BY <1>2 DEF Create, review, TypeOK
<1>3. ASSUME NEW m \in Moderator, NEW s \in Submission, Open(m, s)
      PROVE  DecisionInv'
  BY <1>3 DEF Open
<1>4. ASSUME NEW m \in Moderator, NEW d \in {"approved", "rejected"}, Decide(m, d)
      PROVE  DecisionInv'
  <2>1. PICK s \in Submission : s = screen[m] /\ reports[s] # "absent"
    BY <1>4 DEF Decide, ScreenInv, TypeOK
  <2>2. /\ reading' = reading
        /\ reports'[s] = d /\ verdicts'[s] = verdicts[s] \cup {d}
        /\ \A r \in Submission \ {s} : reports'[r] = reports[r] /\ verdicts'[r] = verdicts[r]
    BY <1>4, <2>1 DEF Decide, TypeOK
  <2>3. \A r \in Submission : verdicts[r] \subseteq verdicts'[r]
    BY <2>2
  <2>4. PublicPhotoWasApproved'
    BY <2>2, <2>3 DEF TypeOK
  <2> QED
    BY <2>1, <2>2, <2>4
<1>5. ASSUME NEW r \in Reader, NEW s \in Submission, CheckPhoto(r, s)
      PROVE  DecisionInv'
  BY <1>5 DEF CheckPhoto, TypeOK
<1>6. ASSUME NEW r \in Reader, StreamPhoto(r)
      PROVE  DecisionInv'
  BY <1>6 DEF StreamPhoto, TypeOK
<1>7. ASSUME NEW s \in Submission, NEW p \in {"none", "valid", "invalid"},
             SubmitInMemory(s, p) \/ StoreInMemory(s)
      PROVE  DecisionInv'
  <2>1. /\ review' = review
        /\ reports' \in {reports, [reports EXCEPT ![s] = "pending"]}
    BY <1>7 DEF SubmitInMemory, StoreInMemory
  <2> QED
    BY <2>1 DEF review, TypeOK
<1> QED
  BY <1>1, <1>2, <1>3, <1>4, <1>5, <1>6, <1>7
  DEF Next, vars, Tick, Submit, Register, Count, RejectPhoto, SavePhoto, Fail, Expire

ReviewInv == StoreInv /\ ScreenInv /\ DecisionInv

\* The strengthening behind the four theorems that follow.
THEOREM ReviewInductive == Spec => []ReviewInv
<1>1. Init => ReviewInv
  BY DEF Init, ReviewInv, StoreInv, ScreenInv, DecisionInv, PublicPhotoWasApproved
<1>2. TypeOK /\ ReviewInv /\ [Next]_vars => ReviewInv'
  BY StoreStep, ScreenStep, DecisionStep DEF ReviewInv
<1> QED
  BY <1>1, <1>2, TypeCorrect, PTL DEF Spec

\* A stored report that promises a photo has it, whatever failed or was lost
\* between storage.save and create_report.
THEOREM PromisedPhotoStoredAlways == Spec => []PromisedPhotoStored
<1>1. ReviewInv => PromisedPhotoStored
  BY DEF ReviewInv, StoreInv, PromisedPhotoStored
<1> QED
  BY <1>1, ReviewInductive, PTL

\* A photo without a report is the trace of a request that failed between the
\* two, or is about to insert its report.
THEOREM OrphanNeedsFailureAlways == Spec => []OrphanNeedsFailure
<1>1. TypeOK /\ ReviewInv => OrphanNeedsFailure
  BY DEF TypeOK, ReviewInv, StoreInv, OrphanNeedsFailure
<1> QED
  BY <1>1, ReviewInductive, TypeCorrect, PTL

\* Once the screens and photo requests from before the rejection are gone, no
\* later step of anyone shows a rejected report again: lists hide it, the check
\* refuses its photo, and its submission has nothing left to insert.
THEOREM TakeDownSettlesAlways == Spec => TakeDownSettles
<1> DEFINE Settles == \A s \in Submission : Withdrawn(s) => Withdrawn(s)'
<1>1. TypeOK /\ StoreInv /\ [Next]_vars => [Settles]_vars
  <2> SUFFICES ASSUME TypeOK, StoreInv, Next, NEW s \in Submission, Withdrawn(s)
               PROVE  Withdrawn(s)'
    OBVIOUS
  <2> USE SubmissionAssumption DEF Withdrawn
  <2>1. ASSUME UNCHANGED <<reports, screen, reading>>
        PROVE  Withdrawn(s)'
    BY <2>1
  <2>2. ASSUME NEW t \in Submission, NEW p \in {"none", "valid", "invalid"},
               Create(t) \/ SubmitInMemory(t, p) \/ StoreInMemory(t)
        PROVE  Withdrawn(s)'
    <3>1. /\ review' = review
          /\ reports' \in {reports, [reports EXCEPT ![t] = "pending"]}
          /\ stage[t] \in {"idle", "photo", "create"}
      BY <2>2 DEF Create, SubmitInMemory, StoreInMemory
    <3>2. t # s
      BY <3>1 DEF StoreInv
    <3> QED
      BY <3>1, <3>2 DEF review, TypeOK
  <2>3. ASSUME NEW m \in Moderator, NEW t \in Submission, Open(m, t)
        PROVE  Withdrawn(s)'
    BY <2>3 DEF Open, TypeOK
  <2>4. ASSUME NEW m \in Moderator, NEW d \in {"approved", "rejected"}, Decide(m, d)
        PROVE  Withdrawn(s)'
    BY <2>4 DEF Decide, TypeOK
  <2>5. ASSUME NEW r \in Reader, NEW t \in Submission, CheckPhoto(r, t)
        PROVE  Withdrawn(s)'
    BY <2>5 DEF CheckPhoto, TypeOK
  <2>6. ASSUME NEW r \in Reader, StreamPhoto(r)
        PROVE  Withdrawn(s)'
    BY <2>6 DEF StreamPhoto, TypeOK
  <2> QED
    BY <2>1, <2>2, <2>3, <2>4, <2>5, <2>6
    DEF Next, review, Tick, Submit, Register, Count, RejectPhoto, SavePhoto, Fail, Expire
<1>2. ReviewInv => StoreInv
  BY DEF ReviewInv
<1> QED
  BY <1>1, <1>2, ReviewInductive, TypeCorrect, PTL DEF Spec, TakeDownSettles

\* A photo is only streamed to the public for a report a moderator approved.
THEOREM PublicPhotoWasApprovedAlways == Spec => []PublicPhotoWasApproved
<1>1. ReviewInv => PublicPhotoWasApproved
  BY DEF ReviewInv, DecisionInv
<1> QED
  BY <1>1, ReviewInductive, PTL

-----------------------------------------------------------------------------
(* The quota over MongoDB. *)

\* The counted submissions of an address and hour that reached the limiter
\* before the hour was over, and those of them that were let through.
Early(i, b) == {s \in InHour(i, b) \cap counted : registered_at[s] < (b + 1) * Hour}

LetThrough(s) ==
  stage[s] \in {"photo", "create"} \/ s \in photos \/ reports[s] # "absent"

Passed(i, b) == {s \in Early(i, b) : LetThrough(s)}

\* RefusalJustified, over MongoDB.
HourlyRefusal ==
  \A s \in Submission : stage[s] = "refused" =>
    Cardinality((InHour(ip[s], now[s] \div Hour) \cap counted) \ {s}) >= MaxPerWindow

\* The counter of an hour is exact until the hour is over; it never exceeds what
\* was counted.
CounterInv ==
  /\ \A s \in counted : stage[s] \notin {"idle", "register"} /\ registered_at[s] <= clock
  /\ \A i \in Ip, b \in Bucket :
       /\ rate_limits[i][b] <= Cardinality(InHour(i, b) \cap counted)
       /\ clock < (b + 1) * Hour => rate_limits[i][b] = Cardinality(Early(i, b))
       /\ Cardinality(Passed(i, b)) <= MaxPerWindow
  /\ HourlyRefusal

\* What is counted is finite: there are finitely many submissions.
LEMMA FiniteCounts ==
  ASSUME TypeOK, NEW i \in Ip, NEW b \in Bucket
  PROVE  /\ IsFiniteSet(InHour(i, b) \cap counted)
         /\ IsFiniteSet(Early(i, b)) /\ IsFiniteSet(Passed(i, b))
         /\ Cardinality(InHour(i, b) \cap counted) \in Nat
         /\ Cardinality(Early(i, b)) \in Nat
         /\ Cardinality(Passed(i, b)) \in Nat
<1>1. /\ (InHour(i, b) \cap counted) \in SUBSET Submission
      /\ Early(i, b) \in SUBSET Submission
      /\ Passed(i, b) \in SUBSET Submission
  BY DEF InHour, Early, Passed
<1> QED
  BY <1>1, FS_Subset, FS_CardinalityType, SubmissionAssumption

\* Actions that count nothing and let nobody through leave the quota alone.
LEMMA QuietStep ==
  ASSUME TypeOK, TypeOK', StoreInv, CounterInv, clock' >= clock,
         UNCHANGED <<ip, registered_at, counted, rate_limits>>,
         \A s \in counted : /\ stage'[s] \notin {"idle", "register"}
                            /\ now'[s] = now[s]
                            /\ LetThrough(s)' => LetThrough(s),
         \A s \in Submission :
           stage'[s] = "refused" => stage[s] = "refused" /\ now'[s] = now[s]
  PROVE  CounterInv'
<1>1. ASSUME NEW i \in Ip, NEW b \in Bucket
      PROVE  /\ (InHour(i, b) \cap counted)' = InHour(i, b) \cap counted
             /\ Early(i, b)' = Early(i, b)
             /\ Passed(i, b)' \subseteq Passed(i, b)
  <2>1. (InHour(i, b) \cap counted)' = InHour(i, b) \cap counted
    BY DEF InHour
  <2>2. Early(i, b)' = Early(i, b)
    BY <2>1 DEF Early
  <2> QED
    BY <2>1, <2>2 DEF Passed, Early
<1>2. ASSUME NEW i \in Ip, NEW b \in Bucket
      PROVE  Cardinality(Passed(i, b)') <= MaxPerWindow
  <2>1. Cardinality(Passed(i, b)') <= Cardinality(Passed(i, b))
    BY <1>1, FiniteCounts, FS_Subset
  <2>2. Cardinality(Passed(i, b)') \in Nat
    BY <1>1, FiniteCounts, FS_Subset, FS_CardinalityType
  <2>3. Cardinality(Passed(i, b)) <= MaxPerWindow /\ Cardinality(Passed(i, b)) \in Nat
    BY FiniteCounts DEF CounterInv
  <2> QED
    BY <2>1, <2>2, <2>3, WindowAssumption
<1>3. HourlyRefusal'
  <2> SUFFICES ASSUME NEW s \in Submission, stage'[s] = "refused"
               PROVE  Cardinality(((InHour(ip[s], now[s] \div Hour) \cap counted) \ {s})')
                        >= MaxPerWindow
    BY DEF HourlyRefusal
  <2>1. ip[s] \in Ip /\ now[s] \div Hour \in Bucket
    BY HourOfTime DEF TypeOK
  <2>2. now'[s] = now[s] /\ ip'[s] = ip[s] /\ stage[s] = "refused"
    OBVIOUS
  <2>3. ((InHour(ip[s], now[s] \div Hour) \cap counted) \ {s})'
          = (InHour(ip[s], now[s] \div Hour) \cap counted) \ {s}
    BY <2>2 DEF InHour
  <2> QED
    BY <2>2, <2>3 DEF CounterInv, HourlyRefusal
<1>4. ASSUME NEW i \in Ip, NEW b \in Bucket
      PROVE  /\ rate_limits'[i][b] <= Cardinality((InHour(i, b) \cap counted)')
             /\ clock' < (b + 1) * Hour => rate_limits'[i][b] = Cardinality(Early(i, b)')
  <2>1. clock' < (b + 1) * Hour => clock < (b + 1) * Hour
    <3>1. (b + 1) * Hour \in Nat /\ clock \in Nat /\ clock' \in Nat
      BY WindowAssumption, MaxClockAssumption DEF TypeOK, Time, Bucket
    <3> QED
      BY <3>1
  <2> QED
    BY <1>1, <2>1 DEF CounterInv
<1>5. \A s \in counted' :
        stage'[s] \notin {"idle", "register"} /\ registered_at'[s] <= clock'
  BY MaxClockAssumption DEF CounterInv, TypeOK, Time
<1> QED
  BY <1>2, <1>3, <1>4, <1>5 DEF CounterInv

\* A counted submission is the only one whose record changes.
LEMMA RegisterEffect ==
  ASSUME TypeOK, NEW s \in Submission, Register(s)
  PROVE  /\ stage[s] = "register"
         /\ UNCHANGED <<clock, ip, now, photos, reports>>
         /\ counted' = counted \cup {s}
         /\ registered_at' = [registered_at EXCEPT ![s] = clock]
         /\ rate_limits' = [rate_limits EXCEPT ![ip[s]][now[s] \div Hour] = @ + 1]
         /\ \A r \in Submission : r # s => stage'[r] = stage[r]
         /\ IF rate_limits[ip[s]][now[s] \div Hour] < MaxPerWindow
            THEN stage'[s] \in {"photo", "create", "failed"}
            ELSE stage'[s] \in {"refused", "failed"}
<1>1. ip[s] \in Ip /\ now[s] \div Hour \in Bucket
  BY HourOfTime DEF TypeOK
<1>2. /\ stage[s] = "register"
      /\ UNCHANGED <<clock, ip, now, photos, reports>>
      /\ counted' = counted \cup {s}
      /\ registered_at' = [registered_at EXCEPT ![s] = clock]
      /\ rate_limits' = [rate_limits EXCEPT ![ip[s]][now[s] \div Hour] = @ + 1]
  BY DEF Register, Count
<1>3. /\ rate_limits[ip[s]][now[s] \div Hour] \in Nat
      /\ rate_limits'[ip[s]][now[s] \div Hour] = rate_limits[ip[s]][now[s] \div Hour] + 1
  BY <1>1, <1>2 DEF TypeOK
<1>4. PICK next \in {"refused", "create", "photo"} :
        /\ Proceed(s, next)
        /\ next = "refused" <=> ~(rate_limits'[ip[s]][now[s] \div Hour] <= MaxPerWindow)
  BY DEF Register, AfterRegistration
<1>5. /\ stage'[s] \in {next, "failed"}
      /\ \A r \in Submission : r # s => stage'[r] = stage[r]
  BY <1>4, ProceedStep DEF Stage, Ended, TypeOK
<1> QED
  BY <1>2, <1>3, <1>4, <1>5, WindowAssumption

\* Counting and checking are one step, so the quota cannot be overrun.
LEMMA RegisterStep ==
  ASSUME TypeOK, TypeOK', StoreInv, CounterInv, NEW s \in Submission, Register(s)
  PROVE  CounterInv'
<1> DEFINE h == now[s] \div Hour
<1>1. ip[s] \in Ip /\ h \in Bucket /\ s \notin counted /\ clock \in Nat
  BY HourOfTime, RegisterEffect, MaxClockAssumption DEF TypeOK, CounterInv, Time
<1>2. /\ ~LetThrough(s)
      /\ \A r \in Submission : r # s => LetThrough(r)' = LetThrough(r)
  BY RegisterEffect DEF LetThrough, StoreInv
<1>3. ASSUME NEW i \in Ip, NEW b \in Bucket
      PROVE  (InHour(i, b) \cap counted)' =
               IF i = ip[s] /\ b = h
               THEN (InHour(i, b) \cap counted) \cup {s} ELSE InHour(i, b) \cap counted
  BY RegisterEffect DEF InHour
<1>4. ASSUME NEW i \in Ip, NEW b \in Bucket
      PROVE  Early(i, b)' =
               IF i = ip[s] /\ b = h /\ clock < (b + 1) * Hour
               THEN Early(i, b) \cup {s} ELSE Early(i, b)
  <2>1. registered_at'[s] = clock
        /\ \A r \in counted : registered_at'[r] = registered_at[r]
    BY RegisterEffect, <1>1 DEF TypeOK
  <2>2. s \notin Early(i, b)
    BY <1>1 DEF Early
  <2>3. CASE i = ip[s] /\ b = h
    BY <1>1, <1>3, <2>1, <2>2, <2>3 DEF Early
  <2>4. CASE ~(i = ip[s] /\ b = h)
    BY <1>1, <1>3, <2>1, <2>2, <2>4 DEF Early
  <2> QED
    BY <2>3, <2>4
<1>5. ASSUME NEW i \in Ip, NEW b \in Bucket
      PROVE  /\ rate_limits'[i][b] <= Cardinality((InHour(i, b) \cap counted)')
             /\ clock' < (b + 1) * Hour => rate_limits'[i][b] = Cardinality(Early(i, b)')
  <2>1. CASE i = ip[s] /\ b = h
    <3>1. rate_limits'[i][b] = rate_limits[i][b] + 1 /\ rate_limits[i][b] \in Nat
      BY RegisterEffect, <1>1, <2>1 DEF TypeOK
    <3>2. /\ s \notin InHour(i, b) \cap counted
          /\ s \notin Early(i, b)
      BY <1>1 DEF Early
    <3>3. Cardinality((InHour(i, b) \cap counted) \cup {s})
            = Cardinality(InHour(i, b) \cap counted) + 1
      BY <3>2, FiniteCounts, FS_AddElement
    <3>4. Cardinality(Early(i, b) \cup {s}) = Cardinality(Early(i, b)) + 1
      BY <3>2, FiniteCounts, FS_AddElement
    <3>5. /\ rate_limits[i][b] <= Cardinality(InHour(i, b) \cap counted)
          /\ clock < (b + 1) * Hour => rate_limits[i][b] = Cardinality(Early(i, b))
      BY DEF CounterInv
    <3>6. clock' = clock
      BY RegisterEffect
    <3>7. /\ Cardinality(InHour(i, b) \cap counted) \in Nat
          /\ Cardinality(Early(i, b)) \in Nat
      BY FiniteCounts
    <3>8. /\ (InHour(i, b) \cap counted)' = (InHour(i, b) \cap counted) \cup {s}
          /\ clock < (b + 1) * Hour => Early(i, b)' = Early(i, b) \cup {s}
      BY <1>3, <1>4, <2>1
    <3>9. rate_limits'[i][b] <= Cardinality((InHour(i, b) \cap counted)')
      <4>1. Cardinality((InHour(i, b) \cap counted)')
              = Cardinality((InHour(i, b) \cap counted) \cup {s})
        BY <3>8
      <4> QED
        BY <4>1, <3>1, <3>3, <3>5, <3>7
    <3>10. ASSUME clock' < (b + 1) * Hour
           PROVE  rate_limits'[i][b] = Cardinality(Early(i, b)')
      BY <3>1, <3>4, <3>5, <3>6, <3>8, <3>10
    <3> QED
      BY <3>9, <3>10
  <2>2. CASE ~(i = ip[s] /\ b = h)
    <3>1. rate_limits'[i][b] = rate_limits[i][b] /\ clock' = clock
      BY RegisterEffect, <1>1, <2>2 DEF TypeOK
    <3> QED
      BY <1>3, <1>4, <2>2, <3>1 DEF CounterInv
  <2> QED
    BY <2>1, <2>2
<1>6. ASSUME NEW i \in Ip, NEW b \in Bucket
      PROVE  Cardinality(Passed(i, b)') <= MaxPerWindow
  <2>1. CASE s \in Early(i, b)' /\ rate_limits[i][b] < MaxPerWindow
    <3>1. i = ip[s] /\ b = h /\ clock < (b + 1) * Hour
      BY <1>1, <1>4, <2>1 DEF Early
    <3>2. Cardinality(Early(i, b)') = rate_limits[i][b] + 1
      <4>1. rate_limits'[i][b] = rate_limits[i][b] + 1 /\ clock' = clock
        BY RegisterEffect, <1>1, <3>1 DEF TypeOK
      <4> QED
        BY <1>5, <3>1, <4>1
    <3>3. Passed(i, b)' \in SUBSET (Early(i, b)') /\ IsFiniteSet(Early(i, b)')
      <4>1. Early(i, b)' = Early(i, b) \cup {s}
        BY <1>4, <3>1
      <4>2. IsFiniteSet(Early(i, b)')
        <5>1. IsFiniteSet(Early(i, b))
          BY FiniteCounts
        <5>2. IsFiniteSet(Early(i, b) \cup {s})
          BY <5>1, FS_AddElement
        <5> QED
          BY <4>1, <5>2
      <4> QED
        BY <4>2 DEF Passed
    <3>4. Cardinality(Passed(i, b)') <= Cardinality(Early(i, b)')
      BY <3>3, FS_Subset
    <3>5. Cardinality(Passed(i, b)') \in Nat
      BY <3>3, FS_Subset, FS_CardinalityType
    <3>6. rate_limits[i][b] \in Nat
      BY DEF TypeOK
    <3> QED
      BY <2>1, <3>2, <3>4, <3>5, <3>6, WindowAssumption
  <2>2. CASE ~(s \in Early(i, b)' /\ rate_limits[i][b] < MaxPerWindow)
    <3>1. s \notin Passed(i, b)'
      <4>1. CASE s \notin Early(i, b)'
        BY <4>1 DEF Passed
      <4>2. CASE s \in Early(i, b)' /\ ~(rate_limits[i][b] < MaxPerWindow)
        <5>1. i = ip[s] /\ b = h
          BY <1>1, <1>4, <4>2 DEF Early
        <5>2. stage'[s] \in {"refused", "failed"} /\ UNCHANGED <<photos, reports>>
          BY RegisterEffect, <4>2, <5>1
        <5>3. ~LetThrough(s)'
          BY <1>2, <5>2 DEF LetThrough
        <5> QED
          BY <5>3 DEF Passed
      <4> QED
        BY <2>2, <4>1, <4>2
    <3>2. Passed(i, b)' \in SUBSET Passed(i, b)
      BY <1>2, <1>4, <3>1 DEF Passed, Early, InHour
    <3>3. Cardinality(Passed(i, b)') <= Cardinality(Passed(i, b))
      BY <3>2, FiniteCounts, FS_Subset
    <3>4. Cardinality(Passed(i, b)') \in Nat
      BY <3>2, FiniteCounts, FS_Subset, FS_CardinalityType
    <3>5. Cardinality(Passed(i, b)) <= MaxPerWindow /\ Cardinality(Passed(i, b)) \in Nat
      BY FiniteCounts DEF CounterInv
    <3> QED
      BY <3>3, <3>4, <3>5, WindowAssumption
  <2> QED
    BY <2>1, <2>2
<1>7. HourlyRefusal'
  <2> SUFFICES ASSUME NEW r \in Submission, stage'[r] = "refused"
               PROVE  Cardinality(((InHour(ip[r], now[r] \div Hour) \cap counted) \ {r})')
                        >= MaxPerWindow
    BY DEF HourlyRefusal
  <2> DEFINE C == InHour(ip[r], now[r] \div Hour) \cap counted
  <2>1. ip[r] \in Ip /\ now[r] \div Hour \in Bucket /\ ip'[r] = ip[r] /\ now'[r] = now[r]
    BY HourOfTime, RegisterEffect DEF TypeOK
  <2>2. IsFiniteSet(C') /\ C \subseteq C'
    <3>1. IsFiniteSet(C)
      BY <2>1, FiniteCounts
    <3>2. C' = IF ip[r] = ip[s] /\ now[r] \div Hour = h THEN C \cup {s} ELSE C
      BY <1>3, <2>1, RegisterEffect DEF InHour
    <3>3. IsFiniteSet(C \cup {s})
      BY <3>1, FS_AddElement
    <3> HIDE DEF C
    <3> QED
      BY <3>1, <3>2, <3>3
  <2>3. Cardinality(C \ {r}) >= MaxPerWindow
    <3>1. CASE r = s
      <4>1. ~(rate_limits[ip[s]][h] < MaxPerWindow)
        BY RegisterEffect, <3>1
      <4>2. rate_limits[ip[s]][h] <= Cardinality(C) /\ rate_limits[ip[s]][h] \in Nat
        <5>1. rate_limits[ip[s]][h] <= Cardinality(InHour(ip[s], h) \cap counted)
          BY <1>1 DEF CounterInv
        <5>2. rate_limits[ip[s]][h] \in Nat
          BY <1>1 DEF TypeOK
        <5> QED
          BY <3>1, <5>1, <5>2
      <4>3. C \ {r} = C /\ Cardinality(C) \in Nat
        BY <1>1, <2>1, <3>1, FiniteCounts
      <4>4. MaxPerWindow <= Cardinality(C)
        <5> HIDE DEF C, h
        <5> QED
          BY <4>1, <4>2, <4>3, WindowAssumption
      <4> HIDE DEF C
      <4> QED
        BY <4>3, <4>4, WindowAssumption
    <3>2. CASE r # s
      <4>1. stage[r] = "refused"
        BY RegisterEffect, <3>2
      <4> QED
        BY <4>1 DEF CounterInv, HourlyRefusal
    <3> QED
      BY <3>1, <3>2
  <2>4. /\ (C \ {r}) \in SUBSET (C' \ {r})
        /\ IsFiniteSet(C' \ {r})
    BY <2>2, FS_RemoveElement
  <2>5. Cardinality(C \ {r}) <= Cardinality(C' \ {r})
    BY <2>4, FS_Subset
  <2>6. Cardinality(C \ {r}) \in Nat /\ Cardinality(C' \ {r}) \in Nat
    BY <2>4, FS_Subset, FS_CardinalityType
  <2> QED
    BY <2>3, <2>5, <2>6, WindowAssumption
<1>8. \A r \in counted' :
        stage'[r] \notin {"idle", "register"} /\ registered_at'[r] <= clock'
  <2>1. stage'[s] \notin {"idle", "register"}
    BY RegisterEffect
  <2>2. registered_at'[s] = clock
        /\ \A r \in counted : registered_at'[r] = registered_at[r]
    BY RegisterEffect, <1>1 DEF TypeOK
  <2>3. counted' = counted \cup {s} /\ clock' = clock
        /\ \A r \in counted : stage'[r] = stage[r]
    BY RegisterEffect, <1>1 DEF TypeOK
  <2> QED
    BY <1>1, <2>1, <2>2, <2>3 DEF CounterInv
<1> QED
  BY <1>5, <1>6, <1>7, <1>8 DEF CounterInv

\* The TTL index resets counters of hours that are over, which no early
\* submission can join any more.
LEMMA ExpireStep ==
  ASSUME TypeOK, TypeOK', CounterInv, NEW i \in Ip, NEW b \in Bucket, Expire(i, b)
  PROVE  CounterInv'
<1>1. UNCHANGED <<clock, stage, ip, now, registered_at, counted, photos, reports>>
  BY DEF Expire, submissions
<1>2. ASSUME NEW a \in Ip, NEW c \in Bucket
      PROVE  /\ rate_limits'[a][c] <= Cardinality(InHour(a, c) \cap counted)
             /\ clock < (c + 1) * Hour => rate_limits'[a][c] = Cardinality(Early(a, c))
             /\ Cardinality(Passed(a, c)) <= MaxPerWindow
  <2>1. /\ rate_limits[a][c] <= Cardinality(InHour(a, c) \cap counted)
        /\ clock < (c + 1) * Hour => rate_limits[a][c] = Cardinality(Early(a, c))
        /\ Cardinality(Passed(a, c)) <= MaxPerWindow
    BY DEF CounterInv
  <2>2. CASE a = i /\ c = b
    <3>1. rate_limits'[a][c] = 0
      BY <2>2 DEF Expire, TypeOK
    <3>2. ~(clock < (c + 1) * Hour)
      <4>1. (c + 1) * Hour \in Nat /\ clock \in Nat /\ clock >= (c + 1) * Hour
        BY <2>2, WindowAssumption, MaxClockAssumption DEF Expire, TypeOK, Time, Bucket
      <4> QED
        BY <4>1
    <3>3. Cardinality(InHour(a, c) \cap counted) \in Nat
      BY FiniteCounts
    <3> QED
      BY <2>1, <3>1, <3>2, <3>3
  <2>3. CASE ~(a = i /\ c = b)
    <3>1. rate_limits'[a][c] = rate_limits[a][c]
      BY <2>3 DEF Expire, TypeOK
    <3> QED
      BY <2>1, <3>1
  <2> QED
    BY <2>2, <2>3
<1>3. ASSUME NEW a \in Ip, NEW c \in Bucket
      PROVE  /\ InHour(a, c)' = InHour(a, c)
             /\ Early(a, c)' = Early(a, c)
             /\ Passed(a, c)' = Passed(a, c)
  BY <1>1 DEF InHour, Early, Passed, LetThrough
<1>4. HourlyRefusal'
  BY <1>1 DEF CounterInv, HourlyRefusal, InHour
<1>5. \A s \in counted' :
        stage'[s] \notin {"idle", "register"} /\ registered_at'[s] <= clock'
  BY <1>1 DEF CounterInv
<1>6. ASSUME NEW a \in Ip, NEW c \in Bucket
      PROVE  /\ rate_limits'[a][c] <= Cardinality((InHour(a, c) \cap counted)')
             /\ clock' < (c + 1) * Hour => rate_limits'[a][c] = Cardinality(Early(a, c)')
             /\ Cardinality(Passed(a, c)') <= MaxPerWindow
  BY <1>1, <1>2, <1>3
<1> QED
  BY <1>4, <1>5, <1>6 DEF CounterInv

\* The process is configured with one backend.
LEMMA BackendStays == [Next]_vars => backend' = backend
BY DEF Next, vars, memory, Tick, Submit, Register, Count, RejectPhoto, SavePhoto, Create, Fail,
   SubmitInMemory, StoreInMemory, Expire, Open, Decide, CheckPhoto, StreamPhoto

\* The counter invariant holds with any interleaving and with expired counters.
THEOREM QuotaInductive == Spec => [](backend = "mongo" => CounterInv)
<1>1. Init => CounterInv
  <2> SUFFICES ASSUME Init
               PROVE  CounterInv
    OBVIOUS
  <2>1. counted = {} /\ HourlyRefusal
    BY DEF Init, HourlyRefusal
  <2>2. ASSUME NEW i \in Ip, NEW b \in Bucket
        PROVE  /\ rate_limits[i][b] = 0
               /\ InHour(i, b) \cap counted = {} /\ Early(i, b) = {} /\ Passed(i, b) = {}
    BY <2>1 DEF Init, Early, Passed
  <2>3. Cardinality({}) = 0 /\ 0 <= MaxPerWindow
    BY FS_EmptySet, WindowAssumption
  <2>4. ASSUME NEW i \in Ip, NEW b \in Bucket
        PROVE  /\ rate_limits[i][b] <= Cardinality(InHour(i, b) \cap counted)
               /\ clock < (b + 1) * Hour => rate_limits[i][b] = Cardinality(Early(i, b))
               /\ Cardinality(Passed(i, b)) <= MaxPerWindow
    BY <2>2, <2>3
  <2> QED
    BY <2>1, <2>4 DEF CounterInv
<1>2. TypeOK /\ TypeOK' /\ ReviewInv /\ (backend = "mongo" => CounterInv) /\ [Next]_vars
        => (backend = "mongo" => CounterInv)'
  <2> SUFFICES ASSUME TypeOK, TypeOK', StoreInv, ScreenInv, backend = "mongo", CounterInv,
                      [Next]_vars
               PROVE  CounterInv'
    BY BackendStays DEF ReviewInv
  <2>1. \A s \in counted : s \in Submission /\ stage[s] \notin {"idle", "register"}
    BY DEF TypeOK, CounterInv
  <2>2. clock \in Nat
    BY MaxClockAssumption DEF TypeOK, Time
  <2>3. CASE Tick \/ UNCHANGED vars
    <3>1. clock' >= clock /\ UNCHANGED <<submissions, rate_limits, photos, reports>>
      BY <2>2, <2>3 DEF Tick, vars
    <3> QED
      BY <2>1, <3>1, QuietStep DEF submissions, LetThrough
  <2>4. ASSUME NEW s \in Submission, NEW p \in {"none", "valid", "invalid"}, Submit(s, p)
        PROVE  CounterInv'
    <3>1. \A r \in Submission : r # s => stage'[r] = stage[r] /\ now'[r] = now[r]
      BY <2>4 DEF Submit, TypeOK
    <3>2. s \notin counted /\ stage'[s] = "register"
      BY <2>1, <2>4 DEF Submit, TypeOK
    <3> QED
      BY <2>1, <2>2, <2>4, <3>1, <3>2, QuietStep DEF Submit, LetThrough
  <2>5. ASSUME NEW s \in Submission, Register(s)
        PROVE  CounterInv'
    BY <2>5, RegisterStep
  <2>6. ASSUME NEW s \in Submission, RejectPhoto(s) \/ Fail(s)
        PROVE  CounterInv'
    <3>1. /\ \A r \in Submission : r # s => stage'[r] = stage[r]
          /\ stage'[s] \in {"rejected", "failed"}
          /\ UNCHANGED <<clock, ip, now, registered_at, counted, rate_limits, photos, reports>>
      BY <2>6 DEF RejectPhoto, Fail, TypeOK
    <3>2. \A r \in counted : LetThrough(r)' => LetThrough(r)
      BY <2>1, <3>1 DEF LetThrough
    <3> QED
      BY <2>1, <2>2, <3>1, <3>2, QuietStep
  <2>7. ASSUME NEW s \in Submission, SavePhoto(s) \/ Create(s)
        PROVE  CounterInv'
    <3>1. PICK next \in {"create", "created"} : Proceed(s, next)
      BY <2>7 DEF SavePhoto, Create
    <3>2. /\ stage'[s] \in {next, "failed"} /\ stage[s] \in {"photo", "create"}
          /\ \A r \in Submission : r # s => stage'[r] = stage[r]
      BY <2>7, <3>1, ProceedStep DEF Stage, Ended, TypeOK, SavePhoto, Create
    <3>3. /\ UNCHANGED <<clock, ip, now, registered_at, counted, rate_limits>>
          /\ photos' \subseteq photos \cup {s}
          /\ \A r \in Submission : r # s => reports'[r] = reports[r]
      BY <2>7 DEF SavePhoto, Create, TypeOK
    <3>4. \A r \in counted : LetThrough(r)' => LetThrough(r)
      BY <2>1, <3>2, <3>3 DEF LetThrough
    <3> QED
      BY <2>1, <2>2, <3>2, <3>3, <3>4, QuietStep
  <2>8. ASSUME NEW i \in Ip, NEW b \in Bucket, Expire(i, b)
        PROVE  CounterInv'
    BY <2>8, ExpireStep
  <2>9. ASSUME NEW m \in Moderator, NEW d \in {"approved", "rejected"}, Decide(m, d)
        PROVE  CounterInv'
    <3>1. UNCHANGED <<clock, submissions, rate_limits, photos>>
      BY <2>9 DEF Decide
    <3>2. \A s \in Submission : reports'[s] # "absent" => reports[s] # "absent"
      BY <2>9 DEF Decide, TypeOK, ScreenInv
    <3> QED
      BY <2>1, <2>2, <3>1, <3>2, QuietStep DEF submissions, LetThrough
  <2>10. CASE UNCHANGED <<clock, submissions, rate_limits, photos, reports>>
    BY <2>1, <2>2, <2>10, QuietStep DEF submissions, LetThrough
  <2> QED
    BY <2>3, <2>4, <2>5, <2>6, <2>7, <2>8, <2>9, <2>10
    DEF Next, Open, CheckPhoto, StreamPhoto, SubmitInMemory, StoreInMemory
<1> QED
  BY <1>1, <1>2, TypeCorrect, ReviewInductive, PTL DEF Spec

-----------------------------------------------------------------------------
(* The quota in memory. *)

\* The submissions let through are the counted ones, and those whose hour is not
\* over have their stamp kept.
WindowInv ==
  /\ \A s \in Submission :
       /\ stage[s] # "idle" => now[s] <= clock
       /\ s \in counted <=> stage[s] \notin {"idle", "refused"}
       /\ s \in counted /\ clock < now[s] + Hour => s \in recent[ip[s]]
  /\ \A i \in Ip : \A s \in recent[i] : s \in counted /\ ip[s] = i
  /\ \A i \in Ip, t \in Time : Cardinality(Trailing(i, t) \cap counted) <= MaxPerWindow
  /\ \A s \in Submission : stage[s] = "refused" =>
       Cardinality((Trailing(ip[s], now[s]) \cap counted) \ {s}) >= MaxPerWindow

\* A set of submissions has no more members than one that contains it.
LEMMA Smaller ==
  ASSUME NEW T \in SUBSET Submission, NEW S \in SUBSET T
  PROVE  /\ Cardinality(S) \in Nat /\ Cardinality(T) \in Nat
         /\ Cardinality(S) <= Cardinality(T)
BY FS_Subset, FS_CardinalityType, SubmissionAssumption

\* The clock, moderators and readers leave the window alone; a photo is sanitized
\* after its submission was let through.
LEMMA WindowQuietStep ==
  ASSUME TypeOK, TypeOK', WindowInv, clock' >= clock, UNCHANGED <<ip, now, counted, recent>>,
         \A s \in Submission :
           \/ stage'[s] = stage[s]
           \/ {stage[s], stage'[s]} \cap {"idle", "refused"} = {}
  PROVE  WindowInv'
<1>1. \A i \in Ip, t \in Time : Trailing(i, t)' = Trailing(i, t)
  BY DEF Trailing
<1>2. clock \in Nat /\ clock' \in Nat /\ Hour \in Nat /\ \A s \in Submission : now[s] \in Nat
  BY MaxClockAssumption, WindowAssumption DEF TypeOK, Time
<1>3. ASSUME NEW s \in Submission
      PROVE  /\ stage'[s] # "idle" => now'[s] <= clock'
             /\ s \in counted' <=> stage'[s] \notin {"idle", "refused"}
             /\ s \in counted' /\ clock' < now'[s] + Hour => s \in recent'[ip'[s]]
  <2>1. /\ stage[s] # "idle" => now[s] <= clock
        /\ s \in counted <=> stage[s] \notin {"idle", "refused"}
        /\ s \in counted /\ clock < now[s] + Hour => s \in recent[ip[s]]
    BY DEF WindowInv
  <2>2. /\ stage'[s] = "idle" <=> stage[s] = "idle"
        /\ stage'[s] = "refused" <=> stage[s] = "refused"
    OBVIOUS
  <2>3. now[s] \in Nat /\ now'[s] = now[s] /\ ip'[s] = ip[s]
    BY <1>2
  <2>4. /\ stage'[s] # "idle" => now'[s] <= clock'
        /\ clock' < now'[s] + Hour => clock < now[s] + Hour
    BY <1>2, <2>1, <2>2, <2>3
  <2> QED
    BY <2>1, <2>2, <2>3, <2>4
<1>4. ASSUME NEW s \in Submission, stage'[s] = "refused"
      PROVE  Cardinality(((Trailing(ip[s], now[s]) \cap counted) \ {s})') >= MaxPerWindow
  <2>1. stage[s] = "refused" /\ Trailing(ip[s], now[s])' = Trailing(ip[s], now[s])
    BY <1>4 DEF Trailing
  <2> QED
    BY <2>1 DEF WindowInv
<1> QED
  BY <1>1, <1>3, <1>4 DEF WindowInv

\* The stamps kept at the clock are the counted submissions of any window that is
\* not over.
LEMMA WindowKept ==
  ASSUME TypeOK, WindowInv, NEW i \in Ip
  PROVE  /\ SlidingWindow(i) = Trailing(i, clock) \cap counted
         /\ \A t \in Time : clock <= t => Trailing(i, t) \cap counted \subseteq SlidingWindow(i)
<1>1. clock \in Nat /\ Hour \in Nat /\ \A s \in Submission : now[s] \in Nat
  BY MaxClockAssumption, WindowAssumption DEF TypeOK, Time
<1>2. \A s \in counted : now[s] <= clock /\ (clock < now[s] + Hour => s \in recent[ip[s]])
  BY DEF WindowInv, TypeOK
<1>3. \A s \in recent[i] : s \in counted /\ s \in Submission /\ ip[s] = i
  BY DEF WindowInv, TypeOK
<1>4. SlidingWindow(i) = Trailing(i, clock) \cap counted
  BY <1>1, <1>2, <1>3 DEF SlidingWindow, Trailing
<1>5. ASSUME NEW t \in Time, clock <= t, NEW s \in Trailing(i, t) \cap counted
      PROVE  s \in SlidingWindow(i)
  <2>1. t \in Nat /\ s \in Submission /\ ip[s] = i /\ t < now[s] + Hour /\ s \in counted
    BY <1>5, MaxClockAssumption DEF Trailing, Time
  <2>2. clock < now[s] + Hour
    BY <1>1, <1>5, <2>1
  <2> QED
    BY <1>2, <2>1, <2>2 DEF SlidingWindow
<1> QED
  BY <1>4, <1>5

\* Checking the window and keeping the stamp are one step.
LEMMA WindowSubmitStep ==
  ASSUME TypeOK, TypeOK', WindowInv, NEW s \in Submission,
         NEW p \in {"none", "valid", "invalid"}, SubmitInMemory(s, p)
  PROVE  WindowInv'
<1> DEFINE W == SlidingWindow(ip[s])
<1>1. /\ clock \in Nat /\ Hour \in Nat \ {0}
      /\ \A r \in Submission : now[r] \in Nat /\ now'[r] \in Nat
  BY MaxClockAssumption, WindowAssumption DEF TypeOK, Time
<1>2. /\ clock' = clock /\ ip' = ip
      /\ stage[s] = "idle" /\ s \notin counted /\ ip[s] \in Ip
      /\ now'[s] = clock
      /\ \A r \in Submission : r # s => now'[r] = now[r] /\ stage'[r] = stage[r]
  BY DEF SubmitInMemory, TypeOK, WindowInv
<1>3. /\ W = Trailing(ip[s], clock) \cap counted
      /\ \A t \in Time : clock <= t => Trailing(ip[s], t) \cap counted \subseteq W
      /\ W \in SUBSET Submission
  BY <1>2, WindowKept DEF SlidingWindow, TypeOK
<1>4. /\ recent'[ip[s]] = IF Cardinality(W) < MaxPerWindow THEN W \cup {s} ELSE W
      /\ \A i \in Ip : i # ip[s] => recent'[i] = recent[i]
      /\ counted' = IF Cardinality(W) < MaxPerWindow THEN counted \cup {s} ELSE counted
      /\ IF Cardinality(W) < MaxPerWindow THEN stage'[s] \in {"created", "photo"}
                                          ELSE stage'[s] = "refused"
  BY <1>2 DEF SubmitInMemory, TypeOK
<1> HIDE DEF W
<1>5. ASSUME NEW r \in Submission
      PROVE  /\ stage'[r] # "idle" => now'[r] <= clock'
             /\ r \in counted' <=> stage'[r] \notin {"idle", "refused"}
             /\ r \in counted' /\ clock' < now'[r] + Hour => r \in recent'[ip'[r]]
  <2>1. CASE r = s
    BY <1>1, <1>2, <1>4, <2>1
  <2>2. CASE r # s
    <3>1. /\ stage'[r] = stage[r] /\ now'[r] = now[r] /\ ip'[r] = ip[r] /\ clock' = clock
          /\ r \in counted' <=> r \in counted
      BY <1>2, <1>4, <2>2
    <3>2. ASSUME r \in counted, clock < now[r] + Hour
          PROVE  r \in recent'[ip[r]]
      <4>1. r \in recent[ip[r]] /\ ip[r] \in Ip
        BY <3>2 DEF WindowInv, TypeOK
      <4>2. CASE ip[r] = ip[s]
        BY <1>4, <3>2, <4>1, <4>2 DEF W, SlidingWindow
      <4>3. CASE ip[r] # ip[s]
        BY <1>4, <4>1, <4>3
      <4> QED
        BY <4>2, <4>3
    <3> QED
      BY <3>1, <3>2 DEF WindowInv
  <2> QED
    BY <2>1, <2>2
<1>6. ASSUME NEW i \in Ip, NEW r \in recent'[i]
      PROVE  r \in counted' /\ ip'[r] = i
  <2>1. \A q \in recent[i] : q \in counted /\ ip[q] = i
    BY DEF WindowInv
  <2>2. CASE i = ip[s]
    <3>1. W \subseteq recent[i]
      BY <2>2 DEF W, SlidingWindow
    <3> QED
      BY <1>2, <1>4, <1>6, <2>1, <2>2, <3>1
  <2>3. CASE i # ip[s]
    BY <1>2, <1>4, <1>6, <2>1, <2>3
  <2> QED
    BY <2>2, <2>3
<1>7. \A i \in Ip, t \in Time :
        Trailing(i, t)' \cap counted = Trailing(i, t) \cap counted
  BY <1>2 DEF Trailing
<1>8. ASSUME NEW i \in Ip, NEW t \in Time
      PROVE  Cardinality((Trailing(i, t) \cap counted)') <= MaxPerWindow
  <2>1. Cardinality(Trailing(i, t) \cap counted) <= MaxPerWindow
    BY DEF WindowInv
  <2>2. CASE s \notin (Trailing(i, t) \cap counted)'
    <3>1. (Trailing(i, t) \cap counted)' = Trailing(i, t) \cap counted
      BY <1>4, <1>7, <2>2
    <3> QED
      BY <2>1, <3>1
  <2>3. CASE s \in (Trailing(i, t) \cap counted)'
    <3>1. Cardinality(W) < MaxPerWindow /\ i = ip[s] /\ clock <= t
      BY <1>2, <1>4, <2>3 DEF Trailing
    <3>2. (Trailing(i, t) \cap counted)' \in SUBSET (W \cup {s})
      BY <1>3, <1>4, <1>7, <3>1
    <3>3. /\ Cardinality(W \cup {s}) = Cardinality(W) + 1
          /\ Cardinality(W) \in Nat
      <4>1. IsFiniteSet(W) /\ s \notin W
        BY <1>2, <1>3, FS_Subset, SubmissionAssumption
      <4> QED
        BY <4>1, FS_AddElement, FS_CardinalityType
    <3>4. /\ Cardinality((Trailing(i, t) \cap counted)') \in Nat
          /\ Cardinality((Trailing(i, t) \cap counted)') <= Cardinality(W \cup {s})
      <4>1. (W \cup {s}) \in SUBSET Submission
        BY <1>3
      <4> QED
        BY <3>2, <4>1, Smaller
    <3> QED
      BY <3>1, <3>3, <3>4, WindowAssumption
  <2> QED
    BY <2>2, <2>3
<1>9. ASSUME NEW r \in Submission, stage'[r] = "refused"
      PROVE  Cardinality(((Trailing(ip[r], now[r]) \cap counted) \ {r})') >= MaxPerWindow
  <2> DEFINE new == ((Trailing(ip[r], now[r]) \cap counted) \ {r})'
  <2>1. CASE r = s
    <3>1. ~(Cardinality(W) < MaxPerWindow) /\ counted' = counted
      BY <1>4, <1>9, <2>1
    <3>2. new = W
      <4>1. new = (Trailing(ip[s], clock)' \cap counted) \ {s}
        BY <1>2, <2>1, <3>1 DEF Trailing
      <4>2. Trailing(ip[s], clock)' \cap counted = Trailing(ip[s], clock) \cap counted
        BY <1>2 DEF Trailing
      <4> QED
        BY <1>2, <1>3, <4>1, <4>2
    <3>3. Cardinality(W) \in Nat
      BY <1>3, Smaller
    <3> HIDE DEF new
    <3>4. Cardinality(new) >= MaxPerWindow
      BY <3>1, <3>2, <3>3, WindowAssumption
    <3> QED
      BY <3>4 DEF new
  <2>2. CASE r # s
    <3> DEFINE old == (Trailing(ip[r], now[r]) \cap counted) \ {r}
    <3>1. Cardinality(old) >= MaxPerWindow
      BY <1>2, <1>9, <2>2 DEF WindowInv
    <3>2. old \subseteq new /\ new \subseteq Submission
      BY <1>2, <1>4, <2>2 DEF Trailing
    <3> HIDE DEF old, new
    <3>3. Cardinality(new) >= MaxPerWindow
      BY <3>1, <3>2, Smaller, WindowAssumption
    <3> QED
      BY <3>3 DEF new
  <2> QED
    BY <2>1, <2>2
<1> QED
  BY <1>5, <1>6, <1>8, <1>9 DEF WindowInv

\* The window invariant holds in memory however submissions follow one another.
THEOREM WindowInductive == Spec => [](backend = "memory" => WindowInv)
<1>1. Init => WindowInv
  <2> SUFFICES ASSUME Init
               PROVE  WindowInv
    OBVIOUS
  <2>1. counted = {} /\ \A i \in Ip : recent[i] = {}
    BY DEF Init
  <2>2. \A i \in Ip, t \in Time : Cardinality(Trailing(i, t) \cap counted) <= MaxPerWindow
    BY <2>1, FS_EmptySet, WindowAssumption
  <2> QED
    BY <2>1, <2>2 DEF Init, WindowInv
<1>2. TypeOK /\ TypeOK' /\ ReviewInv /\ (backend = "memory" => WindowInv) /\ [Next]_vars
        => (backend = "memory" => WindowInv)'
  <2> SUFFICES ASSUME TypeOK, TypeOK', StoreInv, backend = "memory", WindowInv, [Next]_vars
               PROVE  WindowInv'
    BY BackendStays DEF ReviewInv
  <2>1. clock \in Nat /\ clock + 1 >= clock
    BY MaxClockAssumption DEF TypeOK, Time
  <2>2. CASE Tick \/ UNCHANGED vars
    <3>1. clock' >= clock /\ UNCHANGED <<submissions, memory>>
      BY <2>1, <2>2 DEF Tick, vars
    <3> QED
      BY <3>1, WindowQuietStep DEF submissions, memory
  <2>3. ASSUME NEW s \in Submission, NEW p \in {"none", "valid", "invalid"},
               SubmitInMemory(s, p)
        PROVE  WindowInv'
    BY <2>3, WindowSubmitStep
  <2>4. ASSUME NEW s \in Submission, RejectPhoto(s) \/ StoreInMemory(s)
        PROVE  WindowInv'
    <3>1. /\ \A r \in Submission : r # s => stage'[r] = stage[r]
          /\ stage[s] = "photo" /\ stage'[s] \in {"rejected", "created"}
          /\ UNCHANGED <<clock, ip, now, counted, recent>>
      BY <2>4 DEF RejectPhoto, StoreInMemory, memory, TypeOK
    <3> QED
      BY <2>1, <3>1, WindowQuietStep
  <2>5. CASE UNCHANGED <<clock, submissions, memory>>
    BY <2>1, <2>5, WindowQuietStep DEF submissions, memory
  <2>6. ~ \E s \in Submission : Register(s) \/ Create(s)
    BY DEF Register, Count, Create, StoreInv
  <2> QED
    BY <2>2, <2>3, <2>4, <2>5, <2>6
    DEF Next, Submit, SavePhoto, Fail, Expire, Open, Decide, CheckPhoto, StreamPhoto
<1> QED
  BY <1>1, <1>2, TypeCorrect, ReviewInductive, PTL DEF Spec

-----------------------------------------------------------------------------
(* The quota over either backend. *)

\* Over MongoDB, of the submissions of one address and clock hour that reach the
\* limiter in time, at most MaxPerWindow leave anything behind; in memory, of those
\* of any trailing hour, at most MaxPerWindow are let through.
THEOREM QuotaPerHourAlways == Spec => []QuotaPerHour
<1>1. TypeOK /\ (backend = "mongo" => CounterInv) /\ (backend = "memory" => WindowInv)
        => QuotaPerHour
  <2> SUFFICES ASSUME TypeOK, backend = "mongo" => CounterInv,
                      backend = "memory" => WindowInv, NEW i \in Ip
               PROVE  /\ backend = "mongo" => \A b \in Bucket :
                           Cardinality({s \in InHour(i, b) \cap counted :
                                          /\ registered_at[s] < (b + 1) * Hour
                                          /\ s \in photos \/ reports[s] # "absent"})
                             <= MaxPerWindow
                      /\ backend = "memory" => \A t \in Time :
                           Cardinality(Trailing(i, t)
                                       \ {s \in Submission : stage[s] \in {"idle", "refused"}})
                             <= MaxPerWindow
    BY DEF QuotaPerHour
  <2>1. ASSUME backend = "mongo", NEW b \in Bucket
        PROVE  Cardinality({s \in InHour(i, b) \cap counted :
                              /\ registered_at[s] < (b + 1) * Hour
                              /\ s \in photos \/ reports[s] # "absent"}) <= MaxPerWindow
    <3> DEFINE T == {s \in InHour(i, b) \cap counted :
                       /\ registered_at[s] < (b + 1) * Hour
                       /\ s \in photos \/ reports[s] # "absent"}
    <3>1. T \in SUBSET Passed(i, b)
      BY DEF Passed, Early, LetThrough
    <3>2. Cardinality(T) <= Cardinality(Passed(i, b)) /\ Cardinality(T) \in Nat
      BY <3>1, FiniteCounts, FS_Subset, FS_CardinalityType
    <3>3. Cardinality(Passed(i, b)) <= MaxPerWindow /\ Cardinality(Passed(i, b)) \in Nat
      BY <2>1, FiniteCounts DEF CounterInv
    <3> HIDE DEF T
    <3>4. Cardinality(T) <= MaxPerWindow
      BY <3>2, <3>3, WindowAssumption
    <3> QED
      BY <3>4 DEF T
  <2>2. ASSUME backend = "memory", NEW t \in Time
        PROVE  Cardinality(Trailing(i, t)
                           \ {s \in Submission : stage[s] \in {"idle", "refused"}})
                 <= MaxPerWindow
    <3>1. Trailing(i, t) \ {s \in Submission : stage[s] \in {"idle", "refused"}}
            = Trailing(i, t) \cap counted
      BY <2>2 DEF WindowInv, Trailing
    <3> QED
      BY <2>2, <3>1 DEF WindowInv
  <2> QED
    BY <2>1, <2>2
<1> QED
  BY <1>1, QuotaInductive, WindowInductive, TypeCorrect, PTL

\* Nobody is refused for what others did, or for another hour, over either backend.
THEOREM RefusalJustifiedAlways == Spec => []RefusalJustified
<1>1. TypeOK /\ (backend = "mongo" => CounterInv) /\ (backend = "memory" => WindowInv)
        => RefusalJustified
  BY DEF TypeOK, CounterInv, HourlyRefusal, WindowInv, RefusalJustified, Beside
<1> QED
  BY <1>1, QuotaInductive, WindowInductive, TypeCorrect, PTL
===============================================================================
