------------------------ MODULE WebPushBroadcastProofs ------------------------
(***************************************************************************)
(* Proofs about WebPushBroadcast, for any finite sets of endpoints and of  *)
(* overlapping executions, and any number of failed ones.                  *)
(***************************************************************************)
EXTENDS WebPushBroadcast, OrderFacts, FiniteSetTheorems, TLAPS

\* Every variable keeps its type, through any interleaving of the broadcasts with
\* each other and with the subscription API.
THEOREM TypeCorrect == Spec => []TypeOK
<1>1. Init => TypeOK
  <2> SUFFICES ASSUME Init
               PROVE  TypeOK
    OBVIOUS
  <2>1. received \in [Endpoint -> Nat] /\ faults \in 0 .. MaxFaults /\ overlaps \in 0 .. MaxOverlaps
    BY BoundsAssumption DEF Init
  <2>2. \A j \in Job : dead[j] = {} /\ stage[j] = "idle"
    BY DEF Init
  <2> QED
    BY <2>1, <2>2 DEF Init, TypeOK, Ended
<1>2. TypeOK /\ [Next]_vars => TypeOK'
  <2> SUFFICES ASSUME TypeOK, [Next]_vars
               PROVE  TypeOK'
    OBVIOUS
  <2> USE BoundsAssumption DEF TypeOK, Ended, browsers
  <2>1. CASE UNCHANGED vars
    BY <2>1 DEF vars
  <2>2. ASSUME NEW e \in Endpoint, Subscribe(e) \/ Unsubscribe(e) \/ Expire(e)
        PROVE  TypeOK'
    BY <2>2 DEF Subscribe, Unsubscribe, Expire
  <2>3. ASSUME NEW j \in Job, Start(j)
        PROVE  TypeOK'
    BY <2>3 DEF Start
  <2>4. ASSUME NEW j \in Job, List(j) \/ EndLoop(j) \/ Save(j)
        PROVE  TypeOK'
    BY <2>4 DEF List, EndLoop, Save
  <2>5. ASSUME NEW j \in Job, NEW e \in Endpoint,
               PushAccepted(j, e) \/ PushFailed(j, e) \/ PushGone(j, e)
        PROVE  TypeOK'
    BY <2>5 DEF PushAccepted, PushFailed, PushGone, Sending
  <2>6. ASSUME NEW j \in Job, Prune(j)
        PROVE  TypeOK'
    BY <2>6 DEF Prune
  <2>7. ASSUME NEW j \in Job, NEW s \in {"failed", "crashed"}, Abort(j, s)
        PROVE  TypeOK'
    BY <2>7 DEF Abort
  <2> QED
    BY <2>1, <2>2, <2>3, <2>4, <2>5, <2>6, <2>7 DEF Next, Step
<1> QED
  BY <1>1, <1>2, PTL DEF Spec

-----------------------------------------------------------------------------

\* What is about to be pruned was reported gone by the push service.
PruneInv == (\A j \in Job : dead[j] \subseteq expired) /\ LiveSubscribersKept

\* No interleaving of pruning with re-registration removes a live subscriber.
THEOREM LiveSubscribersKeptAlways == Spec => []LiveSubscribersKept
<1>1. Init => PruneInv
  BY DEF Init, PruneInv, LiveSubscribersKept
<1>2. TypeOK /\ PruneInv /\ [Next]_vars => PruneInv'
  <2> SUFFICES ASSUME TypeOK, PruneInv, [Next]_vars
               PROVE  PruneInv'
    OBVIOUS
  <2> USE DEF PruneInv, LiveSubscribersKept, TypeOK, browsers
  <2>1. CASE UNCHANGED vars
    BY <2>1 DEF vars
  <2>2. ASSUME NEW e \in Endpoint, Subscribe(e) \/ Unsubscribe(e) \/ Expire(e)
        PROVE  PruneInv'
    BY <2>2 DEF Subscribe, Unsubscribe, Expire
  <2>3. ASSUME NEW j \in Job, Start(j) \/ List(j) \/ EndLoop(j) \/ Save(j)
        PROVE  PruneInv'
    BY <2>3 DEF Start, List, EndLoop, Save
  <2>4. ASSUME NEW j \in Job, Prune(j)
        PROVE  PruneInv'
    BY <2>4 DEF Prune
  <2>5. ASSUME NEW j \in Job, NEW e \in Endpoint,
               PushAccepted(j, e) \/ PushFailed(j, e) \/ PushGone(j, e)
        PROVE  PruneInv'
    BY <2>5 DEF PushAccepted, PushFailed, PushGone, Sending
  <2>6. ASSUME NEW j \in Job, NEW s \in {"failed", "crashed"}, Abort(j, s)
        PROVE  PruneInv'
    BY <2>6 DEF Abort
  <2> QED
    BY <2>1, <2>2, <2>3, <2>4, <2>5, <2>6 DEF Next, Step
<1>3. PruneInv => LiveSubscribersKept
  BY DEF PruneInv
<1> QED
  BY <1>1, <1>2, <1>3, TypeCorrect, PTL DEF Spec

-----------------------------------------------------------------------------

\* The running executions that may still push to e: an execution that starts owes
\* everyone one push, and pays it, finds e gone or unlisted, or ends without.
Owed(e) ==
  {j \in Running : stage[j] = "list" \/ (stage[j] \in {"send", "prune"} /\ e \in pending[j])}

\* Every push to e, made or owed, is the first one, or is accounted for by a fault
\* or an overlap; and as long as nothing is announced, by a fault or by a running
\* execution: a start that finds none running replaces one that failed.
CountInv ==
  \A e \in Endpoint :
    /\ received[e] + Cardinality(Owed(e)) <= 1 + faults + overlaps
    /\ ~announced => received[e] + Cardinality(Owed(e)) <= faults + Cardinality(Running)

\* How the number of executions in a set changes with one of them.
LEMMA CountOfJobs ==
  ASSUME NEW S \in SUBSET Job, NEW T \in SUBSET Job
  PROVE  /\ Cardinality(S) \in Nat /\ Cardinality(T) \in Nat
         /\ T \subseteq S => Cardinality(T) <= Cardinality(S)
         /\ \A j \in Job : T \subseteq S \cup {j} => Cardinality(T) <= Cardinality(S) + 1
         /\ \A j \in S : T \subseteq S \ {j} => Cardinality(T) <= Cardinality(S) - 1
         /\ \A j \in T : S = T \ {j} => Cardinality(T) = Cardinality(S) + 1
         /\ S = {} => Cardinality(S) = 0
<1>1. \A U \in SUBSET Job : IsFiniteSet(U) /\ Cardinality(U) \in Nat
  BY JobAssumption, FS_Subset, FS_CardinalityType
<1>2. \A U, V \in SUBSET Job : U \subseteq V => Cardinality(U) <= Cardinality(V)
  BY <1>1, FS_Subset
<1>3. \A U \in SUBSET Job : \A j \in U : Cardinality(U \ {j}) = Cardinality(U) - 1
  BY <1>1, FS_RemoveElement
<1>4. ASSUME NEW j \in Job, T \subseteq S \cup {j}
      PROVE  Cardinality(T) <= Cardinality(S) + 1
  <2>1. CASE j \in T
    <3>1. T \ {j} \subseteq S /\ T \ {j} \in SUBSET Job
      BY <1>4
    <3>2. Cardinality(T \ {j}) <= Cardinality(S) /\ Cardinality(T \ {j}) = Cardinality(T) - 1
      BY <1>2, <1>3, <2>1, <3>1
    <3> QED
      BY <1>1, <3>2
  <2>2. CASE j \notin T
    <3>1. T \subseteq S
      BY <1>4, <2>2
    <3> QED
      BY <1>1, <1>2, <3>1
  <2> QED
    BY <2>1, <2>2
<1>5. ASSUME NEW j \in S, T \subseteq S \ {j}
      PROVE  Cardinality(T) <= Cardinality(S) - 1
  <2>1. Cardinality(T) <= Cardinality(S \ {j})
    BY <1>2, <1>5
  <2> QED
    BY <1>3, <2>1
<1>6. ASSUME NEW j \in T, S = T \ {j}
      PROVE  Cardinality(T) = Cardinality(S) + 1
  BY <1>1, <1>3, <1>6
<1>7. S = {} => Cardinality(S) = 0
  BY FS_EmptySet
<1> QED
  BY <1>1, <1>2, <1>4, <1>5, <1>6, <1>7

LEMMA CountInductive == Spec => []CountInv
<1>1. Init => CountInv
  <2> SUFFICES ASSUME Init, NEW e \in Endpoint
               PROVE  /\ received[e] = 0 /\ Owed(e) = {} /\ Running = {}
                      /\ faults = 0 /\ overlaps = 0 /\ Cardinality(Owed(e)) = 0
                      /\ Cardinality(Running) = 0
    BY DEF CountInv
  <2>1. Running = {} /\ Owed(e) = {}
    BY DEF Init, Running, Owed, Ended
  <2> QED
    BY <2>1, FS_EmptySet DEF Init
<1>2. TypeOK /\ CountInv /\ [Next]_vars => CountInv'
  <2> SUFFICES ASSUME TypeOK, CountInv, [Next]_vars, NEW e \in Endpoint
               PROVE  /\ (received[e] + Cardinality(Owed(e)) <= 1 + faults + overlaps)'
                      /\ (~announced => received[e] + Cardinality(Owed(e)) <= faults + Cardinality(Running))'
    BY DEF CountInv
  <2> DEFINE Kept == /\ (received[e] + Cardinality(Owed(e)) <= 1 + faults + overlaps)'
                     /\ (~announced => received[e] + Cardinality(Owed(e)) <= faults + Cardinality(Running))'
             w == Cardinality(Owed(e))
             r == Cardinality(Running)
  <2>1. Running \in SUBSET Job /\ Running' \in SUBSET Job /\ Owed(e) \in SUBSET Running /\ Owed(e)' \in SUBSET Running'
    BY DEF Running, Owed
  <2>2. /\ w \in Nat /\ w' \in Nat /\ r \in Nat /\ r' \in Nat
        /\ received[e] \in Nat /\ faults \in Nat /\ overlaps \in Nat
    <3>1. w \in Nat /\ w' \in Nat /\ r \in Nat /\ r' \in Nat
      BY <2>1, CountOfJobs
    <3> QED
      BY <3>1, BoundsAssumption DEF TypeOK
  <2>3. /\ received[e] + w <= 1 + faults + overlaps
        /\ ~announced => received[e] + w <= faults + r
    BY DEF CountInv
  <2>4. ASSUME UNCHANGED <<stage, pending, announced, received, faults, overlaps>>
        PROVE  Kept
    BY <2>4, <2>3 DEF Owed, Running
  <2>5. ASSUME NEW f \in Endpoint, Subscribe(f) \/ Unsubscribe(f) \/ Expire(f)
        PROVE  Kept
    BY <2>4, <2>5 DEF Subscribe, Unsubscribe, Expire
  <2>6. ASSUME NEW j \in Job, Start(j)
        PROVE  Kept
    <3>1. /\ stage' = [stage EXCEPT ![j] = "list"] /\ stage[j] \in Ended /\ ~announced
          /\ UNCHANGED <<announced, pending, received, faults>>
          /\ Running = {} => overlaps' = overlaps
          /\ Running # {} => overlaps' = overlaps + 1
      BY <2>6 DEF Start
    <3>2. Running' = Running \cup {j} /\ j \notin Running
      BY <3>1 DEF Running, Ended, TypeOK
    <3>3. Owed(e)' \subseteq Owed(e) \cup {j}
      BY <3>1, <3>2 DEF Owed, Running, Ended, TypeOK
    <3>4. r' = r + 1
      <4>1. Running = Running' \ {j} /\ j \in Running'
        BY <3>2
      <4> QED
        BY <2>1, <4>1, CountOfJobs
    <3>5. w' <= w + 1
      BY <2>1, <3>3, CountOfJobs
    <3>6. Running = {} => r = 0
      BY <2>1, CountOfJobs
    <3> HIDE DEF w, r
    <3>7. /\ received'[e] + w' <= 1 + faults' + overlaps'
          /\ received'[e] + w' <= faults' + r'
      <4>1. CASE Running = {}
        BY <2>2, <2>3, <3>1, <3>4, <3>5, <3>6, <4>1
      <4>2. CASE Running # {}
        BY <2>2, <2>3, <3>1, <3>4, <3>5, <4>2
      <4> QED
        BY <4>1, <4>2
    <3> QED
      BY <3>7 DEF w, r
  <2>7. ASSUME NEW j \in Job, List(j) \/ EndLoop(j) \/ Prune(j)
        PROVE  Kept
    <3>1. /\ UNCHANGED <<announced, received, faults, overlaps>>
          /\ Running' = Running
          /\ Owed(e)' \subseteq Owed(e)
      BY <2>7 DEF List, EndLoop, Prune, Owed, Running, Ended, TypeOK
    <3>2. w' <= w
      BY <2>1, <3>1, CountOfJobs
    <3> HIDE DEF w
    <3>3. /\ received'[e] + w' <= 1 + faults' + overlaps'
          /\ ~announced' => received'[e] + w' <= faults' + r'
      BY <2>2, <2>3, <3>1, <3>2
    <3> QED
      BY <3>3 DEF w
  <2>8. ASSUME NEW j \in Job, NEW f \in Endpoint,
               PushAccepted(j, f) \/ PushFailed(j, f) \/ PushGone(j, f)
        PROVE  Kept
    <3>1. /\ UNCHANGED <<announced, faults, overlaps>>
          /\ stage[j] = "send" /\ f \in pending[j]
          /\ stage' \in {stage, [stage EXCEPT ![j] = "prune"]}
          /\ pending' = [pending EXCEPT ![j] = @ \ {f}]
          /\ received'[e] <= received[e] + 1 /\ received'[e] \in Nat
          /\ e # f => received'[e] = received[e]
      BY <2>8 DEF PushAccepted, PushFailed, PushGone, Sending, TypeOK
    <3>2. Running' = Running
      BY <3>1 DEF Running, Ended, TypeOK
    <3>3. Owed(e)' \subseteq Owed(e)
      BY <3>1, <3>2 DEF Owed, Running, Ended, TypeOK
    <3>4. received'[e] + w' <= received[e] + w
      <4>1. CASE e # f
        <5>1. w' <= w
          BY <2>1, <3>3, CountOfJobs
        <5> QED
          BY <2>2, <3>1, <4>1, <5>1
      <4>2. CASE e = f
        <5>1. j \in Owed(e) /\ Owed(e)' \subseteq Owed(e) \ {j}
          BY <3>1, <3>2, <3>3, <4>2 DEF Owed, Running, Ended, TypeOK
        <5>2. w' <= w - 1
          BY <2>1, <5>1, CountOfJobs
        <5> QED
          BY <2>2, <3>1, <5>2
      <4> QED
        BY <4>1, <4>2
    <3> HIDE DEF w
    <3>5. /\ received'[e] + w' <= 1 + faults' + overlaps'
          /\ ~announced' => received'[e] + w' <= faults' + r'
      BY <2>2, <2>3, <3>1, <3>2, <3>4
    <3> QED
      BY <3>5 DEF w
  <2>9. ASSUME NEW j \in Job, Save(j)
        PROVE  Kept
    <3>1. announced' /\ UNCHANGED <<received, faults, overlaps>> /\ Owed(e)' \subseteq Owed(e)
      BY <2>9 DEF Save, Owed, Running, Ended, TypeOK
    <3>2. w' <= w
      BY <2>1, <3>1, CountOfJobs
    <3> HIDE DEF w
    <3>3. received'[e] + w' <= 1 + faults' + overlaps'
      BY <2>2, <2>3, <3>1, <3>2
    <3> QED
      BY <3>1, <3>3 DEF w
  <2>10. ASSUME NEW j \in Job, NEW s \in {"failed", "crashed"}, Abort(j, s)
         PROVE  Kept
    <3>1. /\ UNCHANGED <<announced, received, overlaps>> /\ faults' = faults + 1
          /\ stage[j] \notin Ended /\ stage' = [stage EXCEPT ![j] = s]
          /\ pending' = [pending EXCEPT ![j] = {}]
      BY <2>10 DEF Abort
    <3>2. Running' = Running \ {j} /\ j \in Running
      BY <3>1 DEF Running, Ended, TypeOK
    <3>3. Owed(e)' \subseteq Owed(e)
      BY <3>1, <3>2 DEF Owed, Running, Ended, TypeOK
    <3>4. r = r' + 1
      BY <2>1, <3>2, CountOfJobs
    <3>5. w' <= w
      BY <2>1, <3>3, CountOfJobs
    <3> HIDE DEF w, r
    <3>6. /\ received'[e] + w' <= 1 + faults' + overlaps'
          /\ ~announced' => received'[e] + w' <= faults' + r'
      BY <2>2, <2>3, <3>1, <3>4, <3>5
    <3> QED
      BY <3>6 DEF w, r
  <2> QED
    <3>1. CASE UNCHANGED vars
      BY <2>4, <3>1 DEF vars
    <3> QED
      BY <2>5, <2>6, <2>7, <2>8, <2>9, <2>10, <3>1 DEF Next, Step
<1> QED
  BY <1>1, <1>2, TypeCorrect, PTL DEF Spec

\* A browser gets an alert again only after a fault or beside an overlap.
THEOREM DuplicatesNeedFaultOrOverlapAlways == Spec => []DuplicatesNeedFaultOrOverlap
<1>1. TypeOK /\ CountInv => DuplicatesNeedFaultOrOverlap
  <2> SUFFICES ASSUME TypeOK, CountInv, NEW e \in Endpoint
               PROVE  received[e] <= 1 + faults + overlaps
    BY DEF DuplicatesNeedFaultOrOverlap
  <2>1. Cardinality(Owed(e)) \in Nat
    BY CountOfJobs DEF Owed, Running
  <2>2. received[e] + Cardinality(Owed(e)) <= 1 + faults + overlaps
    BY DEF CountInv
  <2> QED
    BY <2>1, <2>2, BoundsAssumption DEF TypeOK
<1> QED
  BY <1>1, CountInductive, TypeCorrect, PTL

-----------------------------------------------------------------------------
(* StandingSubscriberTried, but for its fairness: an announced alert was sent  *)
(* to every standing subscriber, and a broadcast that is not interrupted gets  *)
(* nearer to its announcement with every step and is never stuck before it.    *)

\* Where a browser that was stored all along is, in the loops of the executions.
SubscriberInv(e) ==
  /\ \A j \in Job : stage[j] \in {"send", "prune", "save"} => e \in pending[j] \cup tried
  /\ \A j \in Job : stage[j] = "save" => e \in tried
  /\ announced => e \in tried

\* While a browser stays subscribed, the alert is announced only when it was tried:
\* no list, failed push, pruned neighbour, overlap or restart of a broadcast skips
\* it.
THEOREM AnnouncedToStandingSubscriber ==
  ASSUME NEW e \in Endpoint
  PROVE  Spec /\ [](e \in store) => [](announced => e \in tried)
<1>1. Init => SubscriberInv(e)
  BY DEF Init, SubscriberInv
<1>2. TypeOK /\ SubscriberInv(e) /\ e \in store /\ [Next]_vars => SubscriberInv(e)'
  <2> SUFFICES ASSUME TypeOK, SubscriberInv(e), e \in store, [Next]_vars
               PROVE  SubscriberInv(e)'
    OBVIOUS
  <2> USE DEF SubscriberInv, Ended, TypeOK, browsers
  <2>1. CASE UNCHANGED vars
    BY <2>1 DEF vars
  <2>2. ASSUME NEW f \in Endpoint, Subscribe(f) \/ Unsubscribe(f) \/ Expire(f)
        PROVE  SubscriberInv(e)'
    BY <2>2 DEF Subscribe, Unsubscribe, Expire
  <2>3. ASSUME NEW j \in Job, Start(j) \/ List(j) \/ EndLoop(j) \/ Save(j) \/ Prune(j)
        PROVE  SubscriberInv(e)'
    BY <2>3 DEF Start, List, EndLoop, Save, Prune
  <2>4. ASSUME NEW j \in Job, NEW f \in Endpoint,
               PushAccepted(j, f) \/ PushFailed(j, f) \/ PushGone(j, f)
        PROVE  SubscriberInv(e)'
    BY <2>4 DEF PushAccepted, PushFailed, PushGone, Sending
  <2>5. ASSUME NEW j \in Job, NEW s \in {"failed", "crashed"}, Abort(j, s)
        PROVE  SubscriberInv(e)'
    BY <2>5 DEF Abort
  <2> QED
    BY <2>1, <2>2, <2>3, <2>4, <2>5 DEF Next, Step
<1>3. SubscriberInv(e) => (announced => e \in tried)
  BY DEF SubscriberInv
<1> QED
  BY <1>1, <1>2, <1>3, TypeCorrect, PTL DEF Spec

\* The steps an execution is at most away from its end.
Distance(j) ==
  CASE stage[j] \in Ended -> 0
    [] stage[j] = "list"  -> 2 * Cardinality(Endpoint) + 3
    [] stage[j] = "send"  -> 2 * Cardinality(pending[j]) + 2
    [] stage[j] = "prune" -> 2 * Cardinality(pending[j]) + 3
    [] stage[j] = "save"  -> 1

\* The part of a list that is still to be sent to is counted.
LEMMA PendingCounted ==
  /\ Cardinality(Endpoint) \in Nat
  /\ \A S \in SUBSET Endpoint :
       /\ Cardinality(S) \in Nat
       /\ Cardinality(S) <= Cardinality(Endpoint)
       /\ \A e \in S : Cardinality(S \ {e}) = Cardinality(S) - 1
<1>1. ASSUME NEW S \in SUBSET Endpoint
      PROVE  IsFiniteSet(S) /\ Cardinality(S) <= Cardinality(Endpoint) /\ Cardinality(S) \in Nat
  BY EndpointAssumption, FS_Subset, FS_CardinalityType
<1>2. ASSUME NEW S \in SUBSET Endpoint, NEW e \in S
      PROVE  Cardinality(S \ {e}) = Cardinality(S) - 1
  BY <1>1, FS_RemoveElement
<1> QED
  BY <1>1, <1>2, EndpointAssumption, FS_CardinalityType

\* Every step of an execution brings it nearer to its end; no browser,
\* no API call, no answer and no other execution puts it off; and it ends by
\* announcing the alert or by a fault.
THEOREM BroadcastProgresses ==
  Spec => /\ [](\A j \in Job : Distance(j) \in Nat)
          /\ [][\A j \in Job :
                  /\ Step(j) => Distance(j)' < Distance(j)
                  /\ j \in Running /\ ~ Step(j) => Distance(j)' = Distance(j) \/ faults' = faults + 1
                  /\ j \in Running /\ j \notin Running' => announced' \/ faults' = faults + 1]_vars
<1> DEFINE Near(j) == /\ Step(j) => Distance(j)' < Distance(j)
                      /\ j \in Running /\ ~ Step(j) => Distance(j)' = Distance(j) \/ faults' = faults + 1
                      /\ j \in Running /\ j \notin Running' => announced' \/ faults' = faults + 1
<1>1. TypeOK => \A j \in Job : Distance(j) \in Nat
  <2> SUFFICES ASSUME TypeOK, NEW j \in Job
               PROVE  Distance(j) \in Nat
    OBVIOUS
  <2>1. Cardinality(Endpoint) \in Nat /\ Cardinality(pending[j]) \in Nat
    BY PendingCounted DEF TypeOK
  <2>2. stage[j] \in Ended \cup {"list", "send", "prune", "save"}
    BY DEF TypeOK
  <2> QED
    BY <2>1, <2>2 DEF Distance, Ended
<1>2. TypeOK /\ [Next]_vars => [\A j \in Job : Near(j)]_vars
  <2> SUFFICES ASSUME TypeOK, Next, NEW j \in Job
               PROVE  Near(j)
    OBVIOUS
  <2> DEFINE C == Cardinality(Endpoint)
             n == Cardinality(pending[j])
  <2>1. /\ C \in Nat /\ n \in Nat /\ n <= C
        /\ Cardinality(store) \in Nat /\ Cardinality(store) <= C
        /\ \A e \in pending[j] : Cardinality(pending[j] \ {e}) = n - 1
    <3>1. pending[j] \in SUBSET Endpoint /\ store \in SUBSET Endpoint
      BY DEF TypeOK
    <3> QED
      BY <3>1, PendingCounted
  <2>2. Step(j) => Distance(j)' < Distance(j)
    <3> HIDE DEF C, n
    <3> USE DEF Ended
    <3>1. CASE List(j)
      <4>1. stage[j] = "list" /\ stage'[j] = "send" /\ pending'[j] = store
        BY <3>1 DEF List, TypeOK
      <4>2. Distance(j) = 2 * C + 3 /\ Distance(j)' = 2 * Cardinality(store) + 2
        BY <4>1 DEF Distance, C
      <4> QED
        BY <2>1, <4>2
    <3>2. ASSUME NEW e \in Endpoint, PushAccepted(j, e) \/ PushFailed(j, e) \/ PushGone(j, e)
          PROVE  Distance(j)' < Distance(j)
      <4>1. /\ stage[j] = "send" /\ stage'[j] \in {"send", "prune"}
            /\ e \in pending[j] /\ pending'[j] = pending[j] \ {e}
        BY <3>2 DEF PushAccepted, PushFailed, PushGone, Sending, TypeOK
      <4>2. Distance(j) = 2 * n + 2
        BY <4>1 DEF Distance, n
      <4>3. Distance(j)' \in {2 * Cardinality(pending'[j]) + 2, 2 * Cardinality(pending'[j]) + 3}
        BY <4>1 DEF Distance
      <4>4. Cardinality(pending'[j]) = n - 1
        BY <2>1, <4>1
      <4> QED
        BY <2>1, <4>2, <4>3, <4>4
    <3>3. CASE Prune(j)
      <4>1. stage[j] = "prune" /\ stage'[j] = "send" /\ pending' = pending
        BY <3>3 DEF Prune, TypeOK
      <4>2. Distance(j) = 2 * n + 3 /\ Distance(j)' = 2 * n + 2
        BY <4>1 DEF Distance, n
      <4> QED
        BY <2>1, <4>2
    <3>4. CASE EndLoop(j)
      <4>1. stage[j] = "send" /\ stage'[j] = "save"
        BY <3>4 DEF EndLoop, TypeOK
      <4>2. Distance(j) = 2 * n + 2 /\ Distance(j)' = 1
        BY <4>1 DEF Distance, n
      <4> QED
        BY <2>1, <4>2
    <3>5. CASE Save(j)
      <4>1. stage[j] = "save" /\ stage'[j] = "idle"
        BY <3>5 DEF Save, TypeOK
      <4> QED
        BY <4>1 DEF Distance
    <3> QED
      BY <3>1, <3>2, <3>3, <3>4, <3>5 DEF Step
  <2>3. ASSUME stage'[j] = stage[j], pending'[j] = pending[j]
        PROVE  Distance(j)' = Distance(j) /\ (j \in Running' <=> j \in Running)
    BY <2>3 DEF Distance, Running
  <2>4. ASSUME j \in Running
        PROVE  /\ ~ Step(j) => Distance(j)' = Distance(j) \/ faults' = faults + 1
               /\ j \notin Running' => announced' \/ faults' = faults + 1
    <3>1. CASE Step(j)
      <4>1. j \notin Running' => announced'
        BY <3>1, <2>4 DEF Step, List, PushAccepted, PushFailed, PushGone, Sending, Prune, EndLoop, Save,
                          Running, Ended, TypeOK
      <4> QED
        BY <3>1, <4>1
    <3>2. ASSUME NEW s \in {"failed", "crashed"}, Abort(j, s)
          PROVE  faults' = faults + 1
      BY <3>2 DEF Abort
    <3>3. ~ Start(j)
      BY <2>4 DEF Start, Running
    <3>4. ASSUME NEW i \in Job, i # j,
                 Start(i) \/ Step(i) \/ Abort(i, "failed") \/ Abort(i, "crashed")
          PROVE  stage'[j] = stage[j] /\ pending'[j] = pending[j]
      BY <3>4 DEF Start, Step, Abort, List, PushAccepted, PushFailed, PushGone, Sending, Prune,
                  EndLoop, Save, TypeOK
    <3>5. ASSUME NEW e \in Endpoint, Subscribe(e) \/ Unsubscribe(e) \/ Expire(e)
          PROVE  stage'[j] = stage[j] /\ pending'[j] = pending[j]
      BY <3>5 DEF Subscribe, Unsubscribe, Expire
    <3>6. CASE stage'[j] = stage[j] /\ pending'[j] = pending[j]
      BY <2>3, <2>4, <3>6
    <3>7. CASE \E s \in {"failed", "crashed"} : Abort(j, s)
      BY <3>2, <3>7
    <3> QED
      BY <3>1, <3>3, <3>4, <3>5, <3>6, <3>7 DEF Next
  <2> QED
    BY <2>2, <2>4
<1> QED
  BY <1>1, <1>2, TypeCorrect, PTL DEF Spec

\* A guard of Step(j) holds.
CanStep(j) ==
  \/ stage[j] \in {"list", "prune", "save"}
  \/ stage[j] = "send" /\ (pending[j] = {} \/ \E e \in pending[j] : \A f \in pending[j] : e <= f)

\* A running execution has a step of its own to take, whatever the stored
\* subscriptions are and whatever the other executions do.
THEOREM BroadcastIsNeverStuck == Spec => [](\A j \in Running : CanStep(j))
<1>1. TypeOK => \A j \in Running : CanStep(j)
  <2> SUFFICES ASSUME TypeOK, NEW j \in Running, stage[j] = "send", pending[j] # {}
               PROVE  \E e \in pending[j] : \A f \in pending[j] : e <= f
    BY DEF TypeOK, CanStep, Running, Ended
  <2>1. pending[j] \subseteq Nat
    BY EndpointAssumption DEF TypeOK, Running
  <2> QED
    BY <2>1, LeastNat
<1> QED
  BY <1>1, TypeCorrect, PTL
===============================================================================
