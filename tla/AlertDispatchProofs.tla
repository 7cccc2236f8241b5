------------------------- MODULE AlertDispatchProofs -------------------------
(***************************************************************************)
(* Proofs about AlertDispatch, for any set of executions and any cooldown. *)
(***************************************************************************)
EXTENDS AlertDispatch, TLAPS

USE DEF Channel

\* Audit records are well formed.
LEMMA LogType ==
  ASSUME TypeOK, NEW j \in Job, NEW o \in DeliveryOutcome, Log(j, o)
  PROVE  audit' \in [Channel -> [Job -> DeliveryOutcome]]
BY DEF TypeOK, Log

\* The end of a dispatch call moves an execution to its next call.
LEMMA ReturnType ==
  ASSUME TypeOK, NEW j \in Job, Return(j)
  PROVE  /\ stage' \in [Job -> Stage]
         /\ channel' \in [Job -> Channel]
         /\ evaluated_at' \in [Channel -> [Job -> Time]]
BY DEF TypeOK, Return, Goto, Stage, Active

\* A copy of a state document is a state document.
LEMMA ReadStateType ==
  ASSUME TypeOK, NEW j \in Job, ReadState(j)
  PROVE  state' \in [Channel -> [Job -> AlertState \cup {NoState}]]
BY DEF TypeOK, ReadState

\* Outcomes are well formed.
LEMMA ResolveType ==
  ASSUME TypeOK, NEW j \in Job, NEW o \in Outcome, Resolve(j, o)
  PROVE  outcome' \in [Channel -> [Job -> Outcome]]
BY DEF TypeOK, Resolve

\* Every variable keeps its type: the locals of an execution, the alert_state
\* documents and the audit records are well formed in every reachable state.
THEOREM TypeCorrect == Spec => []TypeOK
<1>1. Init => TypeOK
  BY MaxClockAssumption
  DEF Init, TypeOK, Time, Stage, Level, Outcome, DeliveryOutcome
<1>2. TypeOK /\ [Next]_vars => TypeOK'
  <2> SUFFICES ASSUME TypeOK, [Next]_vars
               PROVE  TypeOK'
    OBVIOUS
  <2>1. CASE UNCHANGED vars
    BY <2>1 DEF TypeOK, vars
  <2>2. CASE Tick
    BY <2>2, MaxClockAssumption DEF TypeOK, Tick, Time
  <2>3. ASSUME NEW j \in Job, NEW l \in BasinLevels, Evaluate(j, l)
        PROVE  TypeOK'
    BY <2>3, BasinLevelsAssumption DEF TypeOK, Evaluate, Goto, Stage, Active
  <2>4. ASSUME NEW j \in Job, SkipEvaluation(j)
        PROVE  TypeOK'
    BY <2>4 DEF TypeOK, SkipEvaluation, Goto, Stage
  <2>5. ASSUME NEW j \in Job, Suppress(j)
        PROVE  TypeOK'
    <3>1. "suppressed" \in Outcome /\ "skipped_cooldown" \in DeliveryOutcome
      BY DEF Outcome, DeliveryOutcome
    <3> QED
      BY <2>5, <3>1, LogType, ReturnType, ReadStateType, ResolveType
      DEF TypeOK, Suppress, ReadState
  <2>6. ASSUME NEW j \in Job, SkipUnconfigured(j)
        PROVE  TypeOK'
    <3>1. "no_token" \in Outcome /\ "skipped_no_token" \in DeliveryOutcome
      BY DEF Outcome, DeliveryOutcome
    <3> QED
      BY <2>6, <3>1, LogType, ReturnType, ReadStateType, ResolveType
      DEF TypeOK, SkipUnconfigured, ReadState
  <2>7. ASSUME NEW j \in Job, Decide(j)
        PROVE  TypeOK'
    BY <2>7, ReadStateType DEF TypeOK, Decide, ReadState, Goto, Stage, Active
  <2>8. ASSUME NEW j \in Job, NEW o \in Answered, SendAnswered(j, o)
        PROVE  TypeOK'
    BY <2>8, ResolveType DEF TypeOK, SendAnswered, Goto, Stage, Active, Outcome, Attempted
  <2>9. ASSUME NEW j \in Job, NEW o \in Raised, LineSendRaised(j, o)
        PROVE  TypeOK'
    <3>1. o \in Outcome /\ "failed" \in DeliveryOutcome
      BY DEF Outcome, Attempted, DeliveryOutcome
    <3> QED
      BY <2>9, <3>1, LogType, ReturnType, ResolveType DEF TypeOK, LineSendRaised
  <2>10. ASSUME NEW j \in Job, NEW o \in Raised, WebSendRaised(j, o)
         PROVE  TypeOK'
    BY <2>10, ResolveType DEF TypeOK, WebSendRaised, Goto, Stage, Outcome, Attempted
  <2>11. ASSUME NEW j \in Job, SaveState(j)
         PROVE  TypeOK'
    <3>1. "sent" \in DeliveryOutcome
      BY DEF DeliveryOutcome
    <3>2. /\ alert_state' \in [Channel -> AlertState \cup {NoState}]
          /\ saved' \in [Channel -> SUBSET Job]
      BY <2>11 DEF TypeOK, SaveState, AlertState, Time
    <3> QED
      BY <2>11, <3>1, <3>2, LogType, ReturnType DEF TypeOK, SaveState
  <2>12. ASSUME NEW j \in Job, DatabaseError(j) \/ Crash(j)
         PROVE  TypeOK'
    BY <2>12 DEF TypeOK, DatabaseError, Crash, Goto, Stage
  <2> QED
    BY <2>1, <2>2, <2>3, <2>4, <2>5, <2>6, <2>7, <2>8, <2>9, <2>10, <2>11,
       <2>12 DEF Next
<1> QED
  BY <1>1, <1>2, PTL DEF Spec

-----------------------------------------------------------------------------
(* The inductive invariant of the safety properties that hold with          *)
(* overlapping executions.                                                  *)

\* Execution j has not reached the transport of channel c.
Unsent(j, c) ==
  \/ stage[j] = "idle"
  \/ c = "web" /\ channel[j] = "line"
  \/ stage[j] \in {"read", "send"} /\ channel[j] = c

\* Execution j has not got past write_alert_state of channel c.
Unsaved(j, c) ==
  \/ Unsent(j, c)
  \/ stage[j] = "save" /\ channel[j] = c

ProgressInv ==
  \A j \in Job :
    /\ stage[j] = "idle" => channel[j] = "line"
    /\ stage[j] = "save" => outcome[channel[j]][j] \in Answered
    /\ \A c \in Channel :
         /\ Unsent(j, c) => outcome[c][j] = "none"
         /\ Unsaved(j, c) => j \notin saved[c]

SavedInv == \A c \in Channel : \A j \in saved[c] : outcome[c][j] \in Answered

BackedInv ==
  \A c \in Channel :
    /\ alert_state[c] # NoState =>
         \E i \in saved[c] : Announced(c, i, alert_state[c])
    /\ \A j \in Job : state[c][j] # NoState =>
         \E i \in saved[c] : Announced(c, i, state[c][j])

Decided(j, c) == ShouldSend(level[j], state[c][j], evaluated_at[c][j])

DecisionInv ==
  \A c \in Channel, j \in Job :
    /\ outcome[c][j] = "suppressed" => ~Decided(j, c)
    /\ outcome[c][j] \in Attempted => Decided(j, c)
    /\ stage[j] \in {"send", "save"} /\ channel[j] = c => Decided(j, c)

IInv == TypeOK /\ ProgressInv /\ SavedInv /\ BackedInv /\ DecisionInv

\* What an execution did on a channel is final once it has left the transport:
\* no later step rewrites the locals or the outcome of that call.
Frozen(j, c) ==
  /\ level'[j] = level[j]
  /\ evaluated_at'[c][j] = evaluated_at[c][j]
  /\ state'[c][j] = state[c][j]
  /\ outcome'[c][j] = outcome[c][j]

\* What was announced is not changed once it is saved.
LEMMA FrozenStep ==
  ASSUME TypeOK, ProgressInv, [Next]_vars,
         NEW j \in Job, NEW c \in Channel, ~Unsent(j, c)
  PROVE  Frozen(j, c)
<1> USE DEF Frozen, TypeOK
<1>1. CASE UNCHANGED vars
  BY <1>1 DEF vars
<1>2. CASE Tick
  BY <1>2 DEF Tick
<1>3. ASSUME NEW i \in Job, NEW l \in BasinLevels, Evaluate(i, l)
      PROVE  Frozen(j, c)
  BY <1>3 DEF Evaluate, Unsent
<1>4. ASSUME NEW i \in Job, SkipEvaluation(i)
      PROVE  Frozen(j, c)
  BY <1>4 DEF SkipEvaluation
<1>5. ASSUME NEW i \in Job, Suppress(i)
      PROVE  Frozen(j, c)
  BY <1>5 DEF Suppress, ReadState, Resolve, Return, Unsent
<1>6. ASSUME NEW i \in Job, SkipUnconfigured(i)
      PROVE  Frozen(j, c)
  BY <1>6 DEF SkipUnconfigured, ReadState, Resolve, Return, Unsent
<1>7. ASSUME NEW i \in Job, Decide(i)
      PROVE  Frozen(j, c)
  BY <1>7 DEF Decide, ReadState, Unsent
<1>8. ASSUME NEW i \in Job, NEW o \in Answered, SendAnswered(i, o)
      PROVE  Frozen(j, c)
  BY <1>8 DEF SendAnswered, Resolve, Unsent
<1>9. ASSUME NEW i \in Job, NEW o \in Raised, LineSendRaised(i, o)
      PROVE  Frozen(j, c)
  BY <1>9 DEF LineSendRaised, Resolve, Return, Unsent
<1>10. ASSUME NEW i \in Job, NEW o \in Raised, WebSendRaised(i, o)
       PROVE  Frozen(j, c)
  BY <1>10 DEF WebSendRaised, Resolve, Unsent
<1>11. ASSUME NEW i \in Job, SaveState(i)
       PROVE  Frozen(j, c)
  BY <1>11 DEF SaveState, Return, Unsent
<1>12. ASSUME NEW i \in Job, DatabaseError(i) \/ Crash(i)
       PROVE  Frozen(j, c)
  BY <1>12 DEF DatabaseError, Crash
<1> QED
  BY <1>1, <1>2, <1>3, <1>4, <1>5, <1>6, <1>7, <1>8, <1>9, <1>10, <1>11,
     <1>12 DEF Next

\* An execution goes through its calls in order.
LEMMA ProgressStep ==
  ASSUME TypeOK, ProgressInv, [Next]_vars
  PROVE  ProgressInv'
<1> USE DEF ProgressInv, TypeOK, Unsaved, Unsent
<1>1. CASE UNCHANGED vars
  BY <1>1 DEF vars
<1>2. CASE Tick
  BY <1>2 DEF Tick
<1>3. ASSUME NEW i \in Job, NEW l \in BasinLevels, Evaluate(i, l)
      PROVE  ProgressInv'
  BY <1>3 DEF Evaluate, Goto
<1>4. ASSUME NEW i \in Job, SkipEvaluation(i)
      PROVE  ProgressInv'
  BY <1>4 DEF SkipEvaluation, Goto
<1>5. ASSUME NEW i \in Job, Suppress(i)
      PROVE  ProgressInv'
  BY <1>5 DEF Suppress, ReadState, Resolve, Return, Goto
<1>6. ASSUME NEW i \in Job, SkipUnconfigured(i)
      PROVE  ProgressInv'
  BY <1>6 DEF SkipUnconfigured, ReadState, Resolve, Return, Goto
<1>7. ASSUME NEW i \in Job, Decide(i)
      PROVE  ProgressInv'
  BY <1>7 DEF Decide, ReadState, Goto
<1>8. ASSUME NEW i \in Job, NEW o \in Answered, SendAnswered(i, o)
      PROVE  ProgressInv'
  BY <1>8 DEF SendAnswered, Resolve, Goto
<1>9. ASSUME NEW i \in Job, NEW o \in Raised, LineSendRaised(i, o)
      PROVE  ProgressInv'
  BY <1>9 DEF LineSendRaised, Resolve, Return, Goto
<1>10. ASSUME NEW i \in Job, NEW o \in Raised, WebSendRaised(i, o)
       PROVE  ProgressInv'
  BY <1>10 DEF WebSendRaised, Resolve, Goto
<1>11. ASSUME NEW i \in Job, SaveState(i)
       PROVE  ProgressInv'
  BY <1>11 DEF SaveState, Return, Goto
<1>12. ASSUME NEW i \in Job, DatabaseError(i) \/ Crash(i)
       PROVE  ProgressInv'
  BY <1>12 DEF DatabaseError, Crash, Goto, Active
<1> QED
  BY <1>1, <1>2, <1>3, <1>4, <1>5, <1>6, <1>7, <1>8, <1>9, <1>10, <1>11,
     <1>12 DEF Next

\* Only write_alert_state changes the persisted documents, only
\* read_alert_state the local copies.
LEMMA WhoWrites ==
  ASSUME [Next]_vars
  PROVE  /\ UNCHANGED <<alert_state, saved>> \/ \E j \in Job : SaveState(j)
         /\ UNCHANGED state \/ \E j \in Job : ReadState(j)
BY DEF Next, vars, Tick, Evaluate, SkipEvaluation, Suppress, SkipUnconfigured,
       Decide, ReadState, SendAnswered, LineSendRaised, WebSendRaised, SaveState,
       DatabaseError, Crash

\* What is saved was answered.
LEMMA SavedStep ==
  ASSUME TypeOK, ProgressInv, SavedInv, [Next]_vars
  PROVE  SavedInv'
<1> SUFFICES ASSUME NEW c \in Channel, NEW j \in saved'[c]
             PROVE  outcome'[c][j] \in Answered
  BY DEF SavedInv
<1>1. CASE j \in saved[c]
  <2>1. j \in Job /\ ~Unsent(j, c)
    BY <1>1 DEF TypeOK, ProgressInv, Unsaved
  <2> QED
    BY <1>1, <2>1, FrozenStep DEF Frozen, SavedInv
<1>2. CASE j \notin saved[c]
  <2>1. PICK i \in Job : SaveState(i)
    BY <1>2, WhoWrites
  <2>2. i = j /\ c = channel[i] /\ outcome' = outcome /\ stage[i] = "save"
    BY <1>2, <2>1 DEF SaveState, TypeOK
  <2> QED
    BY <2>2 DEF ProgressInv
<1> QED
  BY <1>1, <1>2

\* The announcement of a saved execution is never rewritten or forgotten.
LEMMA AnnouncementStays ==
  ASSUME TypeOK, ProgressInv, [Next]_vars,
         NEW c \in Channel, NEW i \in saved[c], NEW s, Announced(c, i, s)
  PROVE  /\ i \in saved'[c]
         /\ s = [level |-> level'[i], at |-> evaluated_at'[c][i]]
<1>1. i \in Job /\ ~Unsent(i, c)
  BY DEF TypeOK, ProgressInv, Unsaved
<1>2. i \in saved'[c]
  <2>1. ASSUME NEW j \in Job, SaveState(j)
        PROVE  i \in saved'[c]
    BY <2>1 DEF TypeOK, SaveState
  <2> QED
    BY <2>1, WhoWrites
<1> QED
  BY <1>1, <1>2, FrozenStep DEF Frozen, Announced

\* The documents, and the copies read from them, are backed by announcements.
LEMMA BackedStep ==
  ASSUME TypeOK, ProgressInv, BackedInv, [Next]_vars
  PROVE  BackedInv'
<1> SUFFICES ASSUME NEW c \in Channel
             PROVE  /\ alert_state'[c] # NoState =>
                         \E i \in saved'[c] : Announced(c, i, alert_state[c])'
                    /\ \A j \in Job : state'[c][j] # NoState =>
                         \E i \in saved'[c] : Announced(c, i, state[c][j])'
  BY DEF BackedInv
<1>1. ASSUME alert_state'[c] # NoState
      PROVE  \E i \in saved'[c] : Announced(c, i, alert_state[c])'
  <2>1. CASE alert_state'[c] = alert_state[c]
    <3>1. PICK i \in saved[c] : Announced(c, i, alert_state[c])
      BY <1>1, <2>1 DEF BackedInv
    <3>2. /\ i \in saved'[c]
          /\ alert_state[c] = [level |-> level'[i], at |-> evaluated_at'[c][i]]
      BY <3>1, AnnouncementStays
    <3> QED
      BY <2>1, <3>2 DEF Announced
  <2>2. CASE alert_state'[c] # alert_state[c]
    <3>1. PICK j \in Job : SaveState(j)
      BY <2>2, WhoWrites
    <3>2. /\ c = channel[j] /\ j \in saved'[c]
          /\ Announced(c, j, alert_state'[c])
      BY <2>2, <3>1 DEF SaveState, TypeOK, Announced
    <3>3. ~Unsent(j, c)
      BY <3>1, <3>2 DEF SaveState, Unsent
    <3> QED
      BY <3>2, <3>3, FrozenStep DEF Frozen, Announced
  <2> QED
    BY <2>1, <2>2
<1>2. ASSUME NEW j \in Job, state'[c][j] # NoState
      PROVE  \E i \in saved'[c] : Announced(c, i, state[c][j])'
  <2>1. CASE state'[c][j] = state[c][j]
    <3>1. PICK i \in saved[c] : Announced(c, i, state[c][j])
      BY <1>2, <2>1 DEF BackedInv
    <3>2. /\ i \in saved'[c]
          /\ state[c][j] = [level |-> level'[i], at |-> evaluated_at'[c][i]]
      BY <3>1, AnnouncementStays
    <3> QED
      BY <2>1, <3>2 DEF Announced
  <2>2. CASE state'[c][j] # state[c][j]
    <3>1. PICK k \in Job : ReadState(k)
      BY <2>2, WhoWrites
    <3>2. state'[c][j] = alert_state[c]
      BY <2>2, <3>1 DEF ReadState, TypeOK
    <3>3. PICK i \in saved[c] : Announced(c, i, alert_state[c])
      BY <1>2, <3>2 DEF BackedInv
    <3>4. /\ i \in saved'[c]
          /\ alert_state[c] = [level |-> level'[i], at |-> evaluated_at'[c][i]]
      BY <3>3, AnnouncementStays
    <3> QED
      BY <3>2, <3>4 DEF Announced
  <2> QED
    BY <2>1, <2>2
<1> QED
  BY <1>1, <1>2

\* A decision fits the copy it was made on.
LEMMA DecisionStep ==
  ASSUME TypeOK, ProgressInv, DecisionInv, [Next]_vars
  PROVE  DecisionInv'
<1> USE DEF DecisionInv, ProgressInv, TypeOK, Decided, Unsent
<1>1. CASE UNCHANGED vars
  BY <1>1 DEF vars
<1>2. CASE Tick
  BY <1>2 DEF Tick
<1>3. ASSUME NEW i \in Job, NEW l \in BasinLevels, Evaluate(i, l)
      PROVE  DecisionInv'
  BY <1>3 DEF Evaluate, Goto, Attempted, Answered, Raised
<1>4. ASSUME NEW i \in Job, SkipEvaluation(i)
      PROVE  DecisionInv'
  BY <1>4 DEF SkipEvaluation, Goto
<1>5. ASSUME NEW i \in Job, Suppress(i)
      PROVE  DecisionInv'
  BY <1>5 DEF Suppress, ReadState, Decision, Resolve, Return, Goto, Attempted, Answered, Raised
<1>6. ASSUME NEW i \in Job, SkipUnconfigured(i)
      PROVE  DecisionInv'
  BY <1>6 DEF SkipUnconfigured, ReadState, Resolve, Return, Goto, Attempted, Answered, Raised
<1>7. ASSUME NEW i \in Job, Decide(i)
      PROVE  DecisionInv'
  BY <1>7 DEF Decide, ReadState, Decision, Goto, Attempted, Answered, Raised
<1>8. ASSUME NEW i \in Job, NEW o \in Answered, SendAnswered(i, o)
      PROVE  DecisionInv'
  BY <1>8 DEF SendAnswered, Resolve, Goto, Answered
<1>9. ASSUME NEW i \in Job, NEW o \in Raised, LineSendRaised(i, o)
      PROVE  DecisionInv'
  BY <1>9 DEF LineSendRaised, Resolve, Return, Goto, Attempted, Answered, Raised
<1>10. ASSUME NEW i \in Job, NEW o \in Raised, WebSendRaised(i, o)
       PROVE  DecisionInv'
  BY <1>10 DEF WebSendRaised, Resolve, Goto, Raised
<1>11. ASSUME NEW i \in Job, SaveState(i)
       PROVE  DecisionInv'
  BY <1>11 DEF SaveState, Return, Goto, Attempted, Answered, Raised
<1>12. ASSUME NEW i \in Job, DatabaseError(i) \/ Crash(i)
       PROVE  DecisionInv'
  BY <1>12 DEF DatabaseError, Crash, Goto
<1> QED
  BY <1>1, <1>2, <1>3, <1>4, <1>5, <1>6, <1>7, <1>8, <1>9, <1>10, <1>11,
     <1>12 DEF Next

\* The invariant the safety theorems rest on.
THEOREM Inductive == Spec => []IInv
<1>1. Init => IInv
  <2> SUFFICES ASSUME Init
               PROVE  IInv
    OBVIOUS
  <2>1. TypeOK
    BY MaxClockAssumption
    DEF Init, TypeOK, Time, Stage, Level, Outcome, DeliveryOutcome
  <2>2. ProgressInv /\ SavedInv /\ BackedInv
    BY DEF Init, ProgressInv, Unsent, Unsaved, SavedInv, BackedInv
  <2>3. DecisionInv
    BY DEF Init, DecisionInv, Attempted, Answered, Raised
  <2> QED
    BY <2>1, <2>2, <2>3 DEF IInv
<1>2. TypeOK /\ TypeOK' /\ IInv /\ [Next]_vars => IInv'
  BY ProgressStep, SavedStep, BackedStep, DecisionStep DEF IInv
<1> QED
  BY <1>1, <1>2, TypeCorrect, PTL DEF Spec

\* The state of every channel names an announcement the transport answered.
THEOREM PersistedWasAnsweredAlways == Spec => []PersistedWasAnswered
<1>1. IInv => PersistedWasAnswered
  BY DEF IInv, SavedInv, BackedInv, PersistedWasAnswered
<1> QED
  BY <1>1, Inductive, PTL

\* The levels are ordered by their ranks.
LEMMA RankOfLevels ==
  ASSUME NEW l \in Level, NEW m \in Level
  PROVE  /\ Rank[l] \in 0 .. 3
         /\ Rank[l] = Rank[m] => l = m
BY DEF Level, Rank

\* No orange or red evaluation is suppressed without an answered announcement
\* of a higher level, or of that level within the cooldown.
THEOREM SuppressionJustifiedAlways == Spec => []SuppressionJustified
<1>1. IInv => SuppressionJustified
  <2> SUFFICES ASSUME IInv, NEW c \in Channel, NEW j \in Job,
                      outcome[c][j] = "suppressed", level[j] \in AlertingLevels
               PROVE  \E i \in saved[c] :
                        /\ outcome[c][i] \in Answered
                        /\ \/ Rank[level[i]] > Rank[level[j]]
                           \/ /\ level[i] = level[j]
                              /\ evaluated_at[c][j] < evaluated_at[c][i] + Cooldown
    BY DEF SuppressionJustified
  <2>1. ~Decided(j, c)
    BY DEF IInv, DecisionInv
  <2>2. state[c][j] # NoState
    BY <2>1 DEF Decided, ShouldSend
  <2>3. PICK i \in saved[c] : Announced(c, i, state[c][j])
    BY <2>2 DEF IInv, BackedInv
  <2>4. /\ i \in Job /\ level[i] \in Level /\ level[j] \in Level
        /\ evaluated_at[c][i] \in Nat /\ evaluated_at[c][j] \in Nat
        /\ state[c][j].level = level[i] /\ state[c][j].at = evaluated_at[c][i]
    BY <2>3 DEF IInv, TypeOK, Time, Announced
  <2>5. \/ Rank[level[i]] > Rank[level[j]]
        \/ level[i] = level[j] /\ ~(evaluated_at[c][j] >= evaluated_at[c][i] + Cooldown)
    BY <2>1, <2>4, RankOfLevels DEF Decided, ShouldSend, Escalates, CooldownElapsed
  <2>6. outcome[c][i] \in Answered
    BY DEF IInv, SavedInv
  <2> QED
    BY <2>4, <2>5, <2>6, CooldownAssumption
<1> QED
  BY <1>1, Inductive, PTL

\* A push that repeats the persisted level follows an answered push of that
\* level by at least the cooldown.
THEOREM RepeatNeedsCooldownAlways == Spec => []RepeatNeedsCooldown
<1>1. IInv => RepeatNeedsCooldown
  <2> SUFFICES ASSUME IInv, NEW c \in Channel, NEW j \in Job,
                      outcome[c][j] \in Attempted, state[c][j] # NoState,
                      state[c][j].level = level[j]
               PROVE  \E i \in saved[c] :
                        /\ level[i] = level[j]
                        /\ outcome[c][i] \in Answered
                        /\ evaluated_at[c][i] + Cooldown <= evaluated_at[c][j]
    BY DEF RepeatNeedsCooldown
  <2>1. Decided(j, c)
    BY DEF IInv, DecisionInv
  <2>2. PICK i \in saved[c] : Announced(c, i, state[c][j])
    BY DEF IInv, BackedInv
  <2>3. /\ i \in Job /\ level[i] \in Level /\ level[j] \in Level
        /\ evaluated_at[c][i] \in Nat /\ evaluated_at[c][j] \in Nat
        /\ state[c][j].level = level[i] /\ state[c][j].at = evaluated_at[c][i]
    BY <2>2 DEF IInv, TypeOK, Time, Announced
  <2>4. evaluated_at[c][j] >= evaluated_at[c][i] + Cooldown
    BY <2>1, <2>3, RankOfLevels DEF Decided, ShouldSend, Escalates, CooldownElapsed
  <2>5. outcome[c][i] \in Answered
    BY DEF IInv, SavedInv
  <2> QED
    BY <2>3, <2>4, <2>5, CooldownAssumption
<1> QED
  BY <1>1, Inductive, PTL

-----------------------------------------------------------------------------
(* The audit trail. *)

\* A record of a push belongs to a call that is past its transport.
AuditInv ==
  \A c \in Channel, j \in Job :
    audit[c][j] \in {"sent", "failed"} =>
      /\ ~Unsent(j, c)
      /\ audit[c][j] = "sent" => j \in saved[c]
      /\ audit[c][j] = "failed" => outcome[c][j] \in Raised

\* A call never comes back to its transport.
LEMMA SentStays ==
  ASSUME TypeOK, [Next]_vars, NEW j \in Job, NEW c \in Channel, ~Unsent(j, c)
  PROVE  ~Unsent(j, c)'
<1> USE DEF TypeOK, Unsent, Goto
<1>1. CASE UNCHANGED vars \/ Tick
  BY <1>1 DEF vars, Tick
<1>2. ASSUME NEW i \in Job,
             \/ SkipEvaluation(i) \/ \E l \in BasinLevels : Evaluate(i, l)
             \/ DatabaseError(i) \/ Crash(i)
      PROVE  ~Unsent(j, c)'
  BY <1>2 DEF SkipEvaluation, Evaluate, DatabaseError, Crash
<1>3. ASSUME NEW i \in Job, Suppress(i) \/ SkipUnconfigured(i) \/ Decide(i)
      PROVE  ~Unsent(j, c)'
  BY <1>3 DEF Suppress, SkipUnconfigured, Decide, ReadState, Return
<1>4. ASSUME NEW i \in Job, SaveState(i) \/ \E o \in Raised : LineSendRaised(i, o)
      PROVE  ~Unsent(j, c)'
  BY <1>4 DEF LineSendRaised, SaveState, Return, Channel
<1>5. ASSUME NEW i \in Job,
             \/ \E o \in Answered : SendAnswered(i, o)
             \/ \E o \in Raised : WebSendRaised(i, o)
      PROVE  ~Unsent(j, c)'
  BY <1>5 DEF SendAnswered, WebSendRaised
<1> QED
  BY <1>1, <1>2, <1>3, <1>4, <1>5 DEF Next

\* A record of a push is made by the step that ends the push.
LEMMA WhoLogs ==
  ASSUME TypeOK, [Next]_vars, NEW c \in Channel, NEW j \in Job,
         audit'[c][j] # audit[c][j], audit'[c][j] \in {"sent", "failed"}
  PROVE  \/ audit'[c][j] = "sent" /\ SaveState(j) /\ channel[j] = c
         \/ /\ audit'[c][j] = "failed" /\ channel[j] = c
            /\ \E o \in Raised : LineSendRaised(j, o)
<1> USE DEF TypeOK
<1>1. ASSUME NEW i \in Job, Suppress(i) \/ SkipUnconfigured(i)
      PROVE  FALSE
  BY <1>1 DEF Suppress, SkipUnconfigured, Log
<1>2. ASSUME NEW i \in Job, SaveState(i)
      PROVE  audit'[c][j] = "sent" /\ SaveState(j) /\ channel[j] = c
  <2>1. audit' = [audit EXCEPT ![channel[i]][i] = "sent"]
    BY <1>2 DEF SaveState, Log
  <2>2. i = j /\ channel[i] = c
    BY <2>1
  <2> QED
    BY <1>2, <2>1, <2>2
<1>3. ASSUME NEW i \in Job, NEW o \in Raised, LineSendRaised(i, o)
      PROVE  audit'[c][j] = "failed" /\ channel[j] = c /\ LineSendRaised(j, o)
  BY <1>3 DEF LineSendRaised, Log
<1>4. \/ UNCHANGED audit
      \/ \E i \in Job : Suppress(i) \/ SkipUnconfigured(i) \/ SaveState(i)
      \/ \E i \in Job : \E o \in Raised : LineSendRaised(i, o)
  BY DEF Next, vars, Tick, Evaluate, SkipEvaluation, Decide, ReadState, SendAnswered,
         WebSendRaised, DatabaseError, Crash
<1> QED
  BY <1>1, <1>2, <1>3, <1>4

\* The audit trail never runs ahead of the state.
THEOREM AuditAgreesWithStateAlways == Spec => []AuditAgreesWithState
<1>1. Init => AuditInv
  BY DEF Init, AuditInv
<1>2. IInv /\ AuditInv /\ [Next]_vars => AuditInv'
  <2> SUFFICES ASSUME IInv, AuditInv, [Next]_vars, NEW c \in Channel, NEW j \in Job,
                      audit'[c][j] \in {"sent", "failed"}
               PROVE  /\ ~Unsent(j, c)'
                      /\ audit'[c][j] = "sent" => j \in saved'[c]
                      /\ audit'[c][j] = "failed" => outcome'[c][j] \in Raised
    BY DEF AuditInv
  <2> USE DEF IInv, TypeOK
  <2>1. CASE audit'[c][j] = audit[c][j]
    <3>1. ~Unsent(j, c)
      BY <2>1 DEF AuditInv
    <3>2. ~Unsent(j, c)'
      BY <3>1, SentStays
    <3>3. outcome'[c][j] = outcome[c][j]
      BY <3>1, FrozenStep DEF Frozen
    <3>4. saved[c] \subseteq saved'[c]
      <4>1. ASSUME NEW i \in Job, SaveState(i)
            PROVE  saved[c] \subseteq saved'[c]
        BY <4>1 DEF SaveState
      <4> QED
        BY <4>1, WhoWrites
    <3> QED
      BY <2>1, <3>1, <3>2, <3>3, <3>4 DEF AuditInv
  <2>2. CASE SaveState(j) /\ channel[j] = c /\ audit'[c][j] = "sent"
    BY <2>2 DEF SaveState, Return, Goto, Unsent, Channel
  <2>3. CASE \E o \in Raised : LineSendRaised(j, o) /\ channel[j] = c
             /\ audit'[c][j] = "failed"
    BY <2>3 DEF LineSendRaised, Resolve, Return, Goto, Unsent, Channel
  <2> QED
    BY <2>1, <2>2, <2>3, WhoLogs
<1>3. IInv /\ AuditInv => AuditAgreesWithState
  <2> SUFFICES ASSUME IInv, AuditInv, NEW c \in Channel, NEW j \in Job
               PROVE  /\ audit[c][j] = "sent" => j \in saved[c] /\ outcome[c][j] \in Answered
                      /\ audit[c][j] = "failed" => j \notin saved[c]
    BY DEF AuditAgreesWithState
  <2> QED
    BY DEF IInv, AuditInv, SavedInv, Answered, Raised
<1> QED
  BY <1>1, <1>2, <1>3, Inductive, PTL DEF Spec

-----------------------------------------------------------------------------
(* Executions that do not overlap.                                          *)

OneActive ==
  \A i, j \in Job : stage[i] \in Active /\ stage[j] \in Active => i = j

\* Between its read and its write an execution's copy is the document.
InSync ==
  \A j \in Job : stage[j] \in {"send", "save"} =>
    state[channel[j]][j] = alert_state[channel[j]]

TimesInv ==
  /\ \A c \in Channel, j \in Job : evaluated_at[c][j] <= clock
  /\ \A c \in Channel : alert_state[c] # NoState =>
       /\ alert_state[c].at <= clock
       /\ \A j \in Job : stage[j] \in Active /\ channel[j] = c =>
            alert_state[c].at <= evaluated_at[c][j]

\* The document is the highest announcement, and the latest of its level.
LatestInv ==
  \A c \in Channel : \A i \in saved[c] :
    /\ alert_state[c] # NoState
    /\ Rank[level[i]] <= Rank[alert_state[c].level]
    /\ level[i] = alert_state[c].level => evaluated_at[c][i] <= alert_state[c].at

SerialInv == OneActive /\ InSync /\ TimesInv /\ LatestInv /\ SavedSpacing

\* Without overlap one execution is active at most.
LEMMA OneActiveStep ==
  ASSUME Serial, TypeOK, OneActive, [Next]_vars
  PROVE  OneActive'
<1>1. \A j \in Job : stage'[j] \in Active /\ stage[j] \notin Active =>
        \A i \in Job : stage[i] \notin Active /\ (i # j => stage'[i] = stage[i])
  <2> USE DEF TypeOK, Active
  <2>1. ASSUME NEW k \in Job, NEW l \in BasinLevels, Evaluate(k, l)
        PROVE  \A j \in Job : stage'[j] \in Active /\ stage[j] \notin Active =>
                 \A i \in Job : stage[i] \notin Active /\ (i # j => stage'[i] = stage[i])
    BY <2>1 DEF Evaluate, Goto
  <2>2. CASE UNCHANGED vars \/ Tick
    BY <2>2 DEF vars, Tick
  <2>3. ASSUME NEW k \in Job, SkipEvaluation(k) \/ DatabaseError(k) \/ Crash(k)
        PROVE  \A j \in Job : stage'[j] \in Active => stage[j] \in Active
    BY <2>3 DEF SkipEvaluation, DatabaseError, Crash, Goto
  <2>4. ASSUME NEW k \in Job, Suppress(k) \/ SkipUnconfigured(k) \/ Decide(k)
        PROVE  \A j \in Job : stage'[j] \in Active => stage[j] \in Active
    BY <2>4 DEF Suppress, SkipUnconfigured, Decide, ReadState, Return, Goto
  <2>5. ASSUME NEW k \in Job, NEW o \in Outcome,
               SendAnswered(k, o) \/ LineSendRaised(k, o) \/ WebSendRaised(k, o)
        PROVE  \A j \in Job : stage'[j] \in Active => stage[j] \in Active
    BY <2>5 DEF SendAnswered, LineSendRaised, WebSendRaised, Return, Goto
  <2>6. ASSUME NEW k \in Job, SaveState(k)
        PROVE  \A j \in Job : stage'[j] \in Active => stage[j] \in Active
    BY <2>6 DEF SaveState, Return, Goto
  <2> QED
    BY <2>1, <2>2, <2>3, <2>4, <2>5, <2>6 DEF Next, Outcome, Attempted
<1> QED
  BY <1>1 DEF OneActive

\* Without overlap the copy an execution holds is the document.
LEMMA InSyncStep ==
  ASSUME TypeOK, OneActive, InSync, [Next]_vars
  PROVE  InSync'
<1> USE DEF TypeOK, InSync
<1>1. CASE UNCHANGED vars
  BY <1>1 DEF vars
<1>2. CASE Tick
  BY <1>2 DEF Tick
<1>3. ASSUME NEW i \in Job, NEW l \in BasinLevels, Evaluate(i, l)
      PROVE  InSync'
  BY <1>3 DEF Evaluate, Goto
<1>4. ASSUME NEW i \in Job, SkipEvaluation(i)
      PROVE  InSync'
  BY <1>4 DEF SkipEvaluation, Goto
<1>5. ASSUME NEW i \in Job, Suppress(i)
      PROVE  InSync'
  BY <1>5 DEF Suppress, ReadState, Return, Goto
<1>6. ASSUME NEW i \in Job, SkipUnconfigured(i)
      PROVE  InSync'
  BY <1>6 DEF SkipUnconfigured, ReadState, Return, Goto
<1>7. ASSUME NEW i \in Job, Decide(i)
      PROVE  InSync'
  BY <1>7 DEF Decide, ReadState, Goto
<1>8. ASSUME NEW i \in Job, NEW o \in Answered, SendAnswered(i, o)
      PROVE  InSync'
  BY <1>8 DEF SendAnswered, Goto
<1>9. ASSUME NEW i \in Job, NEW o \in Raised, LineSendRaised(i, o)
      PROVE  InSync'
  BY <1>9 DEF LineSendRaised, Return, Goto
<1>10. ASSUME NEW i \in Job, NEW o \in Raised, WebSendRaised(i, o)
       PROVE  InSync'
  BY <1>10 DEF WebSendRaised, Goto
<1>11. ASSUME NEW i \in Job, SaveState(i)
       PROVE  InSync'
  BY <1>11 DEF SaveState, Return, Goto, OneActive, Active
<1>12. ASSUME NEW i \in Job, DatabaseError(i) \/ Crash(i)
       PROVE  InSync'
  BY <1>12 DEF DatabaseError, Crash, Goto
<1> QED
  BY <1>1, <1>2, <1>3, <1>4, <1>5, <1>6, <1>7, <1>8, <1>9, <1>10, <1>11,
     <1>12 DEF Next

\* Without overlap announcements are not newer than the evaluation.
LEMMA TimesStep ==
  ASSUME TypeOK, ProgressInv, OneActive, TimesInv, [Next]_vars
  PROVE  TimesInv'
<1> USE DEF TypeOK, TimesInv, Active
<1>0. /\ clock \in Nat
      /\ \A c \in Channel, j \in Job : evaluated_at[c][j] \in Nat
      /\ \A c \in Channel : alert_state[c] # NoState => alert_state[c].at \in Nat
  BY MaxClockAssumption DEF Time, AlertState
<1>1. CASE UNCHANGED vars
  BY <1>0, <1>1 DEF vars
<1>2. CASE Tick
  BY <1>0, <1>2 DEF Tick
<1>3. ASSUME NEW i \in Job, NEW l \in BasinLevels, Evaluate(i, l)
      PROVE  TimesInv'
  <2>1. /\ clock' = clock /\ alert_state' = alert_state /\ channel' = channel
        /\ evaluated_at' = [evaluated_at EXCEPT !["line"][i] = clock]
        /\ \A j \in Job : j # i => stage'[j] = stage[j]
    BY <1>3 DEF Evaluate, Goto
  <2>2. \A c \in Channel, j \in Job :
          \/ evaluated_at'[c][j] = evaluated_at[c][j] /\ (c = "line" => j # i)
          \/ evaluated_at'[c][j] = clock
    BY <2>1
  <2>3. channel[i] = "line"
    BY <1>3 DEF Evaluate, ProgressInv
  <2> QED
    BY <1>0, <2>1, <2>2, <2>3
<1>4. ASSUME NEW i \in Job, SkipEvaluation(i)
      PROVE  TimesInv'
  BY <1>0, <1>4 DEF SkipEvaluation, Goto
<1>5. ASSUME NEW i \in Job, Suppress(i)
      PROVE  TimesInv'
  BY <1>0, <1>5 DEF Suppress, ReadState, Return, Goto
<1>6. ASSUME NEW i \in Job, SkipUnconfigured(i)
      PROVE  TimesInv'
  BY <1>0, <1>6 DEF SkipUnconfigured, ReadState, Return, Goto
<1>7. ASSUME NEW i \in Job, Decide(i)
      PROVE  TimesInv'
  BY <1>0, <1>7 DEF Decide, ReadState, Goto
<1>8. ASSUME NEW i \in Job, NEW o \in Answered, SendAnswered(i, o)
      PROVE  TimesInv'
  BY <1>0, <1>8 DEF SendAnswered, Goto
<1>9. ASSUME NEW i \in Job, NEW o \in Raised, LineSendRaised(i, o)
      PROVE  TimesInv'
  BY <1>0, <1>9 DEF LineSendRaised, Return, Goto
<1>10. ASSUME NEW i \in Job, NEW o \in Raised, WebSendRaised(i, o)
       PROVE  TimesInv'
  BY <1>0, <1>10 DEF WebSendRaised, Goto
<1>11. ASSUME NEW i \in Job, SaveState(i)
       PROVE  TimesInv'
  <2>1. PICK c \in Channel : c = channel[i]
    OBVIOUS
  <2>2. /\ clock' = clock /\ stage[i] = "save" /\ Return(i)
        /\ alert_state'[c].at = evaluated_at[c][i]
        /\ \A d \in Channel : d # c => alert_state'[d] = alert_state[d]
    BY <1>11, <2>1 DEF SaveState
  <2>3. \A d \in Channel, j \in Job :
          \/ evaluated_at'[d][j] = evaluated_at[d][j]
          \/ evaluated_at'[d][j] = clock
    BY <2>2 DEF Return
  <2>4. \A j \in Job : stage'[j] \in Active =>
          j = i /\ channel'[i] = "web" /\ evaluated_at'["web"][i] = clock /\ c = "line"
    BY <2>1, <2>2 DEF Return, Goto, OneActive
  <2>5. \A d \in Channel, j \in Job : evaluated_at'[d][j] <= clock'
    BY <1>0, <2>2, <2>3
  <2>6. \A d \in Channel : alert_state'[d] # NoState => alert_state'[d].at <= clock'
    BY <1>0, <2>2
  <2> QED
    BY <2>2, <2>4, <2>5, <2>6
<1>12. ASSUME NEW i \in Job, DatabaseError(i) \/ Crash(i)
       PROVE  TimesInv'
  BY <1>0, <1>12 DEF DatabaseError, Crash, Goto
<1> QED
  BY <1>1, <1>2, <1>3, <1>4, <1>5, <1>6, <1>7, <1>8, <1>9, <1>10, <1>11,
     <1>12 DEF Next

\* What a write does to the ledger of its channel when executions do not
\* overlap: it opens the ledger, escalates, or repeats after the cooldown.
SaveAllowed(j, c) ==
  /\ level[j] \in AlertingLevels
  /\ \/ alert_state[c] = NoState
     \/ /\ Escalates(level[j], alert_state[c])
        /\ evaluated_at[c][j] >= alert_state[c].at
     \/ /\ level[j] = alert_state[c].level
        /\ CooldownElapsed(alert_state[c], evaluated_at[c][j])

\* A save that is about to happen escalates or waited for its cooldown.
LEMMA SaveIsAllowed ==
  ASSUME IInv, InSync, TimesInv, NEW j \in Job, SaveState(j)
  PROVE  SaveAllowed(j, channel[j])
<1> DEFINE c == channel[j]
<1>1. stage[j] = "save" /\ c \in Channel /\ level[j] \in Level
  BY DEF SaveState, IInv, TypeOK
<1>2. ShouldSend(level[j], alert_state[c], evaluated_at[c][j])
  BY <1>1 DEF IInv, DecisionInv, Decided, InSync
<1>3. CASE alert_state[c] = NoState
  BY <1>2, <1>3 DEF SaveAllowed, ShouldSend
<1>4. CASE alert_state[c] # NoState
  <2>1. alert_state[c].level \in Level
    BY <1>1, <1>4 DEF IInv, TypeOK, AlertState
  <2>2. evaluated_at[c][j] >= alert_state[c].at
    BY <1>1, <1>4 DEF TimesInv, Active, IInv, TypeOK, AlertState, Time
  <2> QED
    BY <1>1, <1>2, <1>4, <2>1, <2>2, RankOfLevels DEF SaveAllowed, ShouldSend
<1> QED
  BY <1>3, <1>4

\* The document is the latest announcement, and announcements are spaced.
LEMMA LatestAndSpacingStep ==
  ASSUME Serial, IInv, SerialInv, [Next]_vars
  PROVE  LatestInv' /\ SavedSpacing'
<1> USE DEF IInv
<1>1. \A c \in Channel : \A i \in saved[c] :
        /\ i \in Job /\ level'[i] = level[i] /\ evaluated_at'[c][i] = evaluated_at[c][i]
        /\ level[i] \in Level /\ evaluated_at[c][i] \in Nat
  <2> SUFFICES ASSUME NEW c \in Channel, NEW i \in saved[c]
               PROVE  /\ i \in Job /\ level'[i] = level[i]
                      /\ evaluated_at'[c][i] = evaluated_at[c][i]
                      /\ level[i] \in Level /\ evaluated_at[c][i] \in Nat
    OBVIOUS
  <2>1. i \in Job /\ ~Unsent(i, c)
    BY DEF TypeOK, ProgressInv, Unsaved
  <2> QED
    BY <2>1, FrozenStep DEF Frozen, TypeOK, Time
<1>2. CASE UNCHANGED <<alert_state, saved>>
  BY <1>1, <1>2 DEF SerialInv, LatestInv, SavedSpacing
<1>3. ASSUME NEW j \in Job, SaveState(j)
      PROVE  LatestInv' /\ SavedSpacing'
  <2> DEFINE c == channel[j]
  <2>1. /\ c \in Channel /\ level[j] \in Level /\ evaluated_at[c][j] \in Nat
        /\ stage[j] = "save" /\ level' = level
        /\ evaluated_at'[c][j] = evaluated_at[c][j]
        /\ alert_state'[c] = [level |-> level[j], at |-> evaluated_at[c][j]]
        /\ saved'[c] = saved[c] \cup {j}
        /\ \A d \in Channel : d # c =>
             alert_state'[d] = alert_state[d] /\ saved'[d] = saved[d]
    BY <1>3 DEF SaveState, TypeOK, Time, Return
  <2>2. alert_state'[c] # NoState
    BY <2>1, NoStateAssumption DEF AlertState
  <2>3. SaveAllowed(j, c)
    BY <1>3, SaveIsAllowed DEF SerialInv
  <2>4. \A i \in saved[c] :
          /\ Rank[level[i]] <= Rank[level[j]]
          /\ level[i] = level[j] => evaluated_at[c][i] + Cooldown <= evaluated_at[c][j]
    <3> SUFFICES ASSUME NEW i \in saved[c]
                 PROVE  /\ Rank[level[i]] <= Rank[level[j]]
                        /\ level[i] = level[j] =>
                             evaluated_at[c][i] + Cooldown <= evaluated_at[c][j]
      OBVIOUS
    <3>1. /\ alert_state[c] # NoState
          /\ Rank[level[i]] <= Rank[alert_state[c].level]
          /\ level[i] = alert_state[c].level => evaluated_at[c][i] <= alert_state[c].at
      BY <2>1 DEF SerialInv, LatestInv
    <3>2. alert_state[c].level \in Level /\ alert_state[c].at \in Nat
      BY <2>1, <3>1 DEF TypeOK, AlertState
    <3>3. /\ Rank[level[i]] \in 0 .. 3 /\ Rank[level[j]] \in 0 .. 3
          /\ Rank[alert_state[c].level] \in 0 .. 3
      BY <1>1, <2>1, <3>2, RankOfLevels
    <3>4. evaluated_at[c][i] \in Nat
      BY <1>1, <2>1
    <3> QED
      BY <2>1, <2>3, <3>1, <3>2, <3>3, <3>4, CooldownAssumption
      DEF SaveAllowed, Escalates, CooldownElapsed
  <2>5. LatestInv'
    <3> SUFFICES ASSUME NEW d \in Channel, NEW i \in saved'[d]
                 PROVE  /\ alert_state'[d] # NoState
                        /\ Rank[level'[i]] <= Rank[alert_state'[d].level]
                        /\ level'[i] = alert_state'[d].level =>
                             evaluated_at'[d][i] <= alert_state'[d].at
      BY DEF LatestInv
    <3>1. CASE d # c
      BY <1>1, <2>1, <3>1 DEF SerialInv, LatestInv
    <3>2. CASE d = c /\ i \in saved[c]
      BY <1>1, <2>1, <2>2, <2>4, <3>2, CooldownAssumption
    <3>3. CASE d = c /\ i = j
      <4>1. Rank[level[j]] \in 0 .. 3
        BY <2>1, RankOfLevels
      <4> QED
        BY <2>1, <2>2, <3>3, <4>1
    <3> QED
      BY <2>1, <3>1, <3>2, <3>3
  <2>6. SavedSpacing'
    <3> SUFFICES ASSUME NEW d \in Channel, NEW i \in saved'[d], NEW k \in saved'[d],
                        i # k, level'[i] = level'[k]
                 PROVE  \/ evaluated_at'[d][i] + Cooldown <= evaluated_at'[d][k]
                        \/ evaluated_at'[d][k] + Cooldown <= evaluated_at'[d][i]
      BY DEF SavedSpacing
    <3>1. CASE i \in saved[d] /\ k \in saved[d]
      BY <1>1, <3>1 DEF SerialInv, SavedSpacing
    <3>2. CASE d = c /\ i \in saved[c] /\ k = j
      BY <1>1, <2>1, <2>4, <3>2
    <3>3. CASE d = c /\ k \in saved[c] /\ i = j
      BY <1>1, <2>1, <2>4, <3>3
    <3> QED
      BY <2>1, <3>1, <3>2, <3>3
  <2> QED
    BY <2>5, <2>6
<1> QED
  BY <1>2, <1>3, WhoWrites

\* Without overlap the copy of the state an execution decides on is the latest
\* announcement, so what it saves is allowed by the ledger.
THEOREM SerialInductive ==
  ASSUME Serial
  PROVE  Spec => []SerialInv
<1>1. Init => SerialInv
  BY DEF Init, SerialInv, OneActive, Active, InSync, TimesInv, LatestInv, SavedSpacing
<1>2. IInv /\ SerialInv /\ [Next]_vars => SerialInv'
  BY OneActiveStep, InSyncStep, TimesStep, LatestAndSpacingStep DEF SerialInv, IInv
<1> QED
  BY <1>1, <1>2, Inductive, PTL DEF Spec

\* Without overlap two persisted announcements of one level are a cooldown apart.
THEOREM SavedSpacingAlways == Spec => []SavedSpacing
<1>1. CASE Serial
  <2>1. SerialInv => SavedSpacing
    BY DEF SerialInv
  <2> QED
    BY <1>1, <2>1, SerialInductive, PTL
<1>2. CASE ~Serial
  <2>1. SavedSpacing
    BY <1>2 DEF SavedSpacing
  <2> QED
    BY <2>1, PTL
<1> QED
  BY <1>1, <1>2

\* Without overlap the dispatchers implement the abstract ledger.
THEOREM ImplementsLedger ==
  ASSUME Serial
  PROVE  Spec => LedgerSpec
<1>1. Init => Ledger!Init
  BY DEF Init, Ledger!Init
<1>2. IInv /\ SerialInv /\ [Next]_vars => [Ledger!Next]_alert_state
  <2> SUFFICES ASSUME IInv, SerialInv, [Next]_vars, alert_state' # alert_state
               PROVE  Ledger!Next
    OBVIOUS
  <2>1. PICK j \in Job : SaveState(j)
    BY WhoWrites
  <2>2. /\ channel[j] \in Channel /\ evaluated_at[channel[j]][j] \in Time
        /\ SaveAllowed(j, channel[j])
    BY <2>1, SaveIsAllowed DEF SerialInv, IInv, TypeOK
  <2>3. Ledger!Record(channel[j], level[j], evaluated_at[channel[j]][j])
    BY <2>1, <2>2 DEF SaveState, SaveAllowed, Ledger!Record, Escalates, CooldownElapsed,
       Ledger!Escalates, Ledger!CooldownElapsed, Rank, Ledger!Rank
  <2> QED
    BY <2>2, <2>3 DEF Ledger!Next, SaveAllowed, AlertingLevels, Ledger!AlertingLevels
<1> QED
  BY <1>1, <1>2, Inductive, SerialInductive, PTL DEF Spec, LedgerSpec, Ledger!Spec

\* The last alerted level only ever rises, and no message is sent below the highest
\* one announced on its channel: alert_state is never lowered or removed when the
\* flood recedes, so once red was announced an orange level is announced never again,
\* however long ago that was and however green the levels between were.
THEOREM AnnouncedLevelNeverFalls ==
  ASSUME Serial, NEW c \in Channel
  PROVE  Spec =>
    /\ [](\A i \in saved[c], j \in Job : stage[j] \in {"send", "save"} /\ channel[j] = c =>
            Rank[level[j]] >= Rank[level[i]])
    /\ [][alert_state[c] # NoState =>
            /\ alert_state'[c] # NoState
            /\ Rank[alert_state'[c].level] >= Rank[alert_state[c].level]]_vars
<1> DEFINE NoneBelow == \A i \in saved[c], j \in Job :
             stage[j] \in {"send", "save"} /\ channel[j] = c => Rank[level[j]] >= Rank[level[i]]
           Rises == alert_state[c] # NoState =>
             /\ alert_state'[c] # NoState
             /\ Rank[alert_state'[c].level] >= Rank[alert_state[c].level]
<1>1. IInv /\ SerialInv => NoneBelow
  <2> SUFFICES ASSUME IInv, SerialInv, NEW i \in saved[c], NEW j \in Job,
                      stage[j] \in {"send", "save"}, channel[j] = c
               PROVE  Rank[level[j]] >= Rank[level[i]]
    OBVIOUS
  <2>1. ShouldSend(level[j], alert_state[c], evaluated_at[c][j])
    BY DEF IInv, DecisionInv, Decided, SerialInv, InSync
  <2>2. alert_state[c] # NoState /\ Rank[level[i]] <= Rank[alert_state[c].level]
    BY DEF SerialInv, LatestInv
  <2>3. i \in Job /\ level[i] \in Level /\ level[j] \in Level /\ alert_state[c].level \in Level
    BY <2>2 DEF IInv, TypeOK, AlertState
  <2>4. /\ Rank[level[i]] \in 0 .. 3 /\ Rank[level[j]] \in 0 .. 3
        /\ Rank[alert_state[c].level] \in 0 .. 3
    BY <2>3, RankOfLevels
  <2> QED
    BY <2>1, <2>2, <2>4 DEF ShouldSend, Escalates
<1>2. IInv /\ SerialInv /\ [Next]_vars => [Rises]_vars
  <2> SUFFICES ASSUME IInv, SerialInv, [Next]_vars, alert_state[c] # NoState
               PROVE  /\ alert_state'[c] # NoState
                      /\ Rank[alert_state'[c].level] >= Rank[alert_state[c].level]
    OBVIOUS
  <2>1. alert_state[c].level \in Level /\ Rank[alert_state[c].level] \in 0 .. 3
    BY RankOfLevels DEF IInv, TypeOK, AlertState
  <2>2. CASE alert_state'[c] = alert_state[c]
    BY <2>1, <2>2
  <2>3. CASE alert_state'[c] # alert_state[c]
    <3>1. PICK j \in Job : SaveState(j)
      BY <2>3, WhoWrites DEF IInv
    <3>2. /\ channel[j] = c /\ level[j] \in Level /\ evaluated_at[c][j] \in Nat
          /\ alert_state'[c] = [level |-> level[j], at |-> evaluated_at[c][j]]
      BY <2>3, <3>1 DEF SaveState, IInv, TypeOK, Time
    <3>3. SaveAllowed(j, c)
      BY <3>1, <3>2, SaveIsAllowed DEF SerialInv
    <3>4. alert_state'[c] # NoState /\ alert_state'[c].level = level[j]
      BY <3>2, NoStateAssumption DEF AlertState
    <3>5. Rank[level[j]] \in 0 .. 3
      BY <3>2, RankOfLevels
    <3> QED
      BY <2>1, <3>3, <3>4, <3>5 DEF SaveAllowed, Escalates
  <2> QED
    BY <2>2, <2>3
<1> HIDE DEF NoneBelow, Rises
<1>3. Spec => []NoneBelow /\ [][Rises]_vars
  BY <1>1, <1>2, Inductive, SerialInductive, PTL DEF Spec
<1> QED
  BY <1>3 DEF NoneBelow, Rises
=============================================================================
