------------------------ MODULE InMemoryQueue_proofs ------------------------
(***************************************************************************)
(* Proofs about InMemoryQueue, for every set of jobs, names, delays and    *)
(* every ring size: type correctness, the bookkeeping invariants, how long *)
(* a job may oversleep, and that the queue implements QueueAdapter.        *)
(***************************************************************************)
EXTENDS InMemoryQueue, FiniteSetTheorems, TLAPS

-----------------------------------------------------------------------------
(* Timers, the ring and the counter.                                       *)

\* kick() and Rearm leave a well-formed timer.
LEMMA KickType ==
    ASSUME TypeOK, Kick
    PROVE  timer' \in Nat \cup {NoTimer}
BY DEF TypeOK, Kick

LEMMA RearmType ==
    ASSUME TypeOK, NEW rest \in SUBSET Jobs, Rearm(rest)
    PROVE  timer' \in Nat \cup {NoTimer}
BY DelaysAssumption DEF TypeOK, Rearm, NoTimer

\* Recording a failure keeps the ring a sequence of jobs, no longer than its size.
LEMMA RecordedType ==
    ASSUME TypeOK, NEW j \in Jobs
    PROVE  Recorded(j) \in Seq(Jobs) /\ Len(Recorded(j)) <= FailureRingSize
<1> DEFINE longer == Append(failures, j)
<1>1. longer \in Seq(Jobs) /\ longer # <<>> /\ Len(longer) = Len(failures) + 1
  BY DEF TypeOK
<1>2. Tail(longer) \in Seq(Jobs) /\ Len(Tail(longer)) = Len(longer) - 1
  BY <1>1
<1>3. Len(failures) \in Nat /\ Len(failures) <= FailureRingSize /\ FailureRingSize \in Nat
  BY RingAssumption DEF TypeOK
<1>4. Len(longer) > FailureRingSize => Len(Tail(longer)) <= FailureRingSize
  BY <1>1, <1>2, <1>3
<1>5. ~ (Len(longer) > FailureRingSize) => Len(longer) <= FailureRingSize
  BY <1>1, <1>3
<1> QED
  BY <1>1, <1>2, <1>4, <1>5 DEF Recorded

(* The counters agree with what really runs.                               *)

LEMMA InitInflight == Init => InflightExact
BY FS_EmptySet DEF Init, InflightExact

LEMMA NextInflight ==
    TypeOK /\ Conservation /\ InflightExact /\ [Next]_vars => InflightExact'
<1> SUFFICES ASSUME TypeOK, Conservation, InflightExact, [Next]_vars
             PROVE  InflightExact'
  OBVIOUS
<1>0. /\ IsFiniteSet(running)
      /\ IsFiniteSet(Due)
      /\ running \cap Due = {}
  BY JobsAssumption, FS_Subset DEF TypeOK, Due, Conservation
<1>1. CASE Tick
  <2>1. Cardinality(running \cup Due) = Cardinality(running) + Cardinality(Due)
    <3>1. Cardinality(running \cap Due) = 0
      BY <1>0, FS_EmptySet
    <3>2. Cardinality(running) \in Nat /\ Cardinality(Due) \in Nat
      BY <1>0, FS_CardinalityType
    <3>3. Cardinality(running \cup Due)
            = Cardinality(running) + Cardinality(Due) - Cardinality(running \cap Due)
      BY <1>0, FS_Union
    <3> QED
      BY <3>1, <3>2, <3>3
  <2> QED
    BY <1>1, <2>1 DEF Tick, InflightExact
<1>2. ASSUME NEW j \in Jobs, Leave(j), closed' = closed
      PROVE  InflightExact'
  <2>1. Cardinality(running \ {j}) = Cardinality(running) - 1
    BY <1>0, <1>2, FS_RemoveElement DEF Leave
  <2> QED
    BY <1>2, <2>1 DEF Leave, InflightExact
<1>3. CASE Close
  BY <1>3 DEF Close, InflightExact
<1>4. ASSUME UNCHANGED <<running, inflight, inflightJobs, closed>>
      PROVE  InflightExact'
  BY <1>4 DEF InflightExact
<1> QED
  BY <1>1, <1>2, <1>3, <1>4
     DEF Next, vars, Enqueue, Process, Resolve, Reject, Leave, Elapse

\* The running handlers are counted by a number no larger than that of the jobs.
LEMMA RunningIsCounted ==
    ASSUME NEW S \in SUBSET Jobs
    PROVE  Cardinality(S) \in 0 .. Cardinality(Jobs)
<1>1. IsFiniteSet(S) /\ Cardinality(S) <= Cardinality(Jobs)
  BY JobsAssumption, FS_Subset
<1>2. Cardinality(S) \in Nat /\ Cardinality(Jobs) \in Nat
  BY <1>1, JobsAssumption, FS_CardinalityType
<1> QED
  BY <1>1, <1>2

-----------------------------------------------------------------------------
(* Type correctness.                                                       *)

LEMMA InitTypeOK == Init => TypeOK
<1> SUFFICES ASSUME Init
             PROVE  TypeOK
  OBVIOUS
<1>1. failures \in Seq(Jobs)
  BY DEF Init
<1>2. settled \in [Jobs -> Ending] /\ wait \in [Jobs -> Nat]
  BY DEF Init, Ending
<1>3. timer \in Nat \cup {NoTimer} /\ inflight \in 0 .. Cardinality(Jobs)
  <2>1. Cardinality(Jobs) \in Nat
    BY JobsAssumption, FS_CardinalityType
  <2> QED
    BY <2>1 DEF Init
<1>4. closed \in BOOLEAN
  BY DEF Init
<1>5. Len(failures) <= FailureRingSize
  BY RingAssumption DEF Init
<1> QED
  BY <1>1, <1>2, <1>3, <1>4, <1>5 DEF Init, TypeOK

LEMMA NextTypeOK ==
    TypeOK /\ Conservation /\ InflightExact /\ [Next]_vars => TypeOK'
<1> SUFFICES ASSUME TypeOK, Conservation, InflightExact, [Next]_vars
             PROVE  TypeOK'
  OBVIOUS
<1> USE DEF TypeOK
<1>1. running' \in SUBSET Jobs
  BY DEF Next, vars, Enqueue, Process, Tick, Due, Resolve, Reject, Leave, Close, Elapse
<1>2. inflight' \in 0 .. Cardinality(Jobs)
  BY <1>1, NextInflight, RunningIsCounted DEF InflightExact
<1>3. failures' \in Seq(Jobs) /\ Len(failures') <= FailureRingSize
  BY RecordedType
     DEF Next, vars, Enqueue, Process, Tick, Resolve, Reject, Leave, Close, Elapse
<1>4. timer' \in Nat \cup {NoTimer}
  <2>1. Tick => timer' \in Nat \cup {NoTimer}
    BY RearmType DEF Tick
  <2>2. Elapse => timer' \in Nat \cup {NoTimer}
    BY DEF Elapse, Less, NoTimer
  <2> QED
    BY <2>1, <2>2, KickType
       DEF Next, vars, Enqueue, Process, Resolve, Reject, Leave, Close
<1>5. wait' \in [Jobs -> Nat]
  BY DelaysAssumption
     DEF Next, vars, Enqueue, Process, Tick, Resolve, Reject, Leave, Close, Elapse, Less
<1>6. settled' \in [Jobs -> Ending]
  BY DEF Next, vars, Enqueue, Process, Tick, Resolve, Reject, Leave, Close, Elapse, Ending
<1>7. /\ pending' \in SUBSET Jobs
      /\ inflightJobs' \in SUBSET Jobs
      /\ behind' \in SUBSET Jobs
      /\ handlers' \in SUBSET Names
      /\ closed' \in BOOLEAN
  BY DEF Next, vars, Enqueue, Process, Tick, Due, Resolve, Reject, Leave, Close, Elapse
<1> QED
  BY <1>1, <1>2, <1>3, <1>4, <1>5, <1>6, <1>7

-----------------------------------------------------------------------------
-----------------------------------------------------------------------------
(* The bookkeeping of waiting, running and ended jobs, and the wake-up.    *)

LEMMA InitBookkeeping == Init => Conservation /\ NoLostWakeup
BY DEF Init, Conservation, NoLostWakeup, NoTimer

LEMMA NextBookkeeping ==
    TypeOK /\ Conservation /\ NoLostWakeup /\ [Next]_vars
        => (Conservation /\ NoLostWakeup)'
<1> SUFFICES ASSUME TypeOK, Conservation, NoLostWakeup, [Next]_vars
             PROVE  Conservation' /\ NoLostWakeup'
  OBVIOUS
<1> USE DEF Conservation, NoLostWakeup, TypeOK
<1>1. ASSUME NEW j \in Jobs, NEW d \in Delays, Enqueue(j, d)
      PROVE  Conservation' /\ NoLostWakeup'
  BY <1>1 DEF Enqueue, Fresh, Kick, NoTimer
<1>2. ASSUME NEW n \in Names, Process(n)
      PROVE  Conservation' /\ NoLostWakeup'
  BY <1>2 DEF Process, Kick, NoTimer
<1>3. CASE Tick
  <2>1. pending' # {} => timer' # NoTimer
    BY <1>3, DelaysAssumption DEF Tick, Rearm, NoTimer
  <2> QED
    BY <1>3, <2>1 DEF Tick, Due
<1>4. ASSUME NEW j \in Jobs, Resolve(j) \/ Reject(j)
      PROVE  Conservation' /\ NoLostWakeup'
  BY <1>4 DEF Resolve, Reject, Leave
<1>5. CASE Close
  BY <1>5 DEF Close
<1>6. CASE Elapse
  BY <1>6 DEF Elapse, Less, NoTimer
<1>7. CASE UNCHANGED vars
  BY <1>7 DEF vars
<1> QED
  BY <1>1, <1>2, <1>3, <1>4, <1>5, <1>6, <1>7 DEF Next

-----------------------------------------------------------------------------
(* The shared timer is never later than the jobs it was armed for.         *)

LEMMA InitWoken == Init => WokenInTime
BY DEF Init, WokenInTime, NoTimer

LEMMA NextWoken ==
    TypeOK /\ Conservation /\ WokenInTime /\ [Next]_vars => WokenInTime'
<1> SUFFICES ASSUME TypeOK, Conservation, WokenInTime, [Next]_vars
             PROVE  WokenInTime'
  OBVIOUS
<1> USE DEF TypeOK, WokenInTime
<1>1. ASSUME NEW j \in Jobs, NEW d \in Delays, Enqueue(j, d)
      PROVE  WokenInTime'
  <2>1. CASE timer = NoTimer
    BY <1>1, <2>1, DelaysAssumption DEF Enqueue, Kick
  <2>2. CASE timer # NoTimer
    BY <1>1, <2>2 DEF Enqueue, Kick, Fresh
  <2> QED
    BY <2>1, <2>2
<1>2. ASSUME NEW n \in Names, Process(n)
      PROVE  WokenInTime'
  <2>1. CASE timer = NoTimer
    BY <1>2, <2>1, DelaysAssumption DEF Process, Kick, NoTimer
  <2>2. CASE timer # NoTimer
    BY <1>2, <2>2 DEF Process, Kick
  <2> QED
    BY <2>1, <2>2
<1>3. CASE Tick
  <2>1. wait' = wait /\ behind' = {} /\ pending' = pending \ Due
    BY <1>3 DEF Tick
  <2>2. CASE pending' = {} /\ timer' = NoTimer
    BY <2>2, DelaysAssumption DEF NoTimer
  <2>3. CASE \E j \in pending' :
               /\ \A k \in pending' : wait[j] <= wait[k]
               /\ timer' = IF wait[j] < MinWait THEN MinWait ELSE wait[j]
    BY <2>1, <2>3, DelaysAssumption
  <2> QED
    BY <1>3, <2>1, <2>2, <2>3 DEF Tick, Rearm
<1>4. ASSUME NEW j \in Jobs, Resolve(j) \/ Reject(j)
      PROVE  WokenInTime'
  BY <1>4 DEF Resolve, Reject, Leave
<1>5. CASE Close
  BY <1>5 DEF Close, NoTimer
<1>6. CASE Elapse
  <2>1. timer' = (IF timer > 0 THEN timer - 1 ELSE timer) /\ pending' = pending /\ behind' = behind
    BY <1>6 DEF Elapse, Less
  <2>2. \A j \in pending : wait'[j] = IF wait[j] > 0 THEN wait[j] - 1 ELSE wait[j]
    BY <1>6 DEF Elapse, Less
  <2>3. timer' > 0 => timer > 0
    BY <2>1
  <2>4. ASSUME NEW j \in pending \ behind
        PROVE  timer' <= MinWait \/ timer' <= wait'[j]
    <3>1. timer <= MinWait \/ timer <= wait[j]
      OBVIOUS
    <3>2. wait[j] \in Nat /\ timer \in Int /\ MinWait \in Nat
      BY DelaysAssumption DEF NoTimer
    <3> QED
      BY <2>1, <2>2, <3>1, <3>2
  <2> QED
    BY <2>1, <2>3, <2>4
<1>7. CASE UNCHANGED vars
  BY <1>7 DEF vars
<1> QED
  BY <1>1, <1>2, <1>3, <1>4, <1>5, <1>6, <1>7 DEF Next

-----------------------------------------------------------------------------
(* The invariants, proved together.                                        *)

\* The types bound the counter only because the counter is exact, and it is
\* exact only because a job that waits does not run.
QueueInv ==
    /\ TypeOK
    /\ Conservation
    /\ NoLostWakeup
    /\ InflightExact
    /\ WokenInTime

LEMMA QueueInvariant == Spec => []QueueInv
<1>1. Init => QueueInv
  BY InitTypeOK, InitBookkeeping, InitInflight, InitWoken DEF QueueInv
<1>2. QueueInv /\ [Next]_vars => QueueInv'
  BY NextTypeOK, NextBookkeeping, NextInflight, NextWoken DEF QueueInv
<1> QED
  BY <1>1, <1>2, PTL DEF Spec

\* Every reachable state of the queue is well typed, its counter of running
\* handlers and its ring of failures within their bounds.
THEOREM TypeCorrect == Spec => []TypeOK
<1>1. QueueInv => TypeOK
  BY DEF QueueInv
<1> QED
  BY <1>1, QueueInvariant, PTL

\* A job is in one place only, and a closed queue is quiet.
THEOREM JobsConserved == Spec => []Conservation
<1>1. QueueInv => Conservation
  BY DEF QueueInv
<1> QED
  BY <1>1, QueueInvariant, PTL

\* While a job is pending the timer is armed.
THEOREM WakeupNotLost == Spec => []NoLostWakeup
<1>1. QueueInv => NoLostWakeup
  BY DEF QueueInv
<1> QED
  BY <1>1, QueueInvariant, PTL

\* health() never reports a number of running handlers that is not theirs.
THEOREM InflightIsExact == Spec => []InflightExact
<1>1. QueueInv => InflightExact
  BY DEF QueueInv
<1> QED
  BY <1>1, QueueInvariant, PTL

\* A job that arrives behind an armed timer sleeps no longer than the soonest
\* of the jobs that timer was armed for, or the floor.
THEOREM SleepIsBounded == Spec => []WokenInTime
<1>1. QueueInv => WokenInTime
  BY DEF QueueInv
<1> QED
  BY <1>1, QueueInvariant, PTL

-----------------------------------------------------------------------------
(* Refinement.                                                             *)

LEMMA InitRefines == Init => Adapter!AdapterInit
BY DEF Init, Adapter!AdapterInit, PhaseOf, AttemptsOf

LEMMA NextRefines ==
    TypeOK /\ Conservation /\ [Next]_vars
        => [Adapter!AdapterNext]_(Adapter!adapterVars)
<1> SUFFICES ASSUME TypeOK, Conservation, [Next]_vars
             PROVE  Adapter!AdapterNext \/ UNCHANGED Adapter!adapterVars
  OBVIOUS
<1> USE DEF TypeOK, Conservation, PhaseOf, AttemptsOf, Ending
<1>1. ASSUME NEW j \in Jobs, NEW d \in Delays, Enqueue(j, d)
      PROVE  Adapter!Submit(j)
  BY <1>1 DEF Enqueue, Fresh, Adapter!Submit
<1>2. CASE Tick
  <2>1. Due \subseteq pending /\ Due \in SUBSET Jobs
    BY DEF Due
  <2>2. \A j \in Due : PhaseOf(j) = "queued" /\ AttemptsOf(j) = 0
    BY <2>1
  <2>3. \A j \in Jobs : /\ PhaseOf(j)' = IF j \in Due THEN "running" ELSE PhaseOf(j)
                        /\ AttemptsOf(j)' = IF j \in Due THEN AttemptsOf(j) + 1 ELSE AttemptsOf(j)
    BY <1>2, <2>1, <2>2 DEF Tick
  <2>4. Adapter!Start(Due)
    BY <1>2, <2>1, <2>2, <2>3 DEF Tick, Adapter!Start
  <2>5. \E S \in SUBSET Jobs : Adapter!Start(S)
    BY <2>1, <2>4 DEF Adapter!Start
  <2> QED
    BY <2>5 DEF Adapter!AdapterNext
<1>3. ASSUME NEW j \in Jobs, Resolve(j)
      PROVE  Adapter!Finish(j)
  BY <1>3 DEF Resolve, Leave, Adapter!Finish
<1>4. ASSUME NEW j \in Jobs, Reject(j)
      PROVE  Adapter!Fail(j)
  BY <1>4 DEF Reject, Leave, Adapter!Fail
<1>5. CASE Close
  <2>1. \A j \in Jobs : /\ PhaseOf(j)' = IF PhaseOf(j) = "queued" THEN "dropped" ELSE PhaseOf(j)
                        /\ AttemptsOf(j)' = AttemptsOf(j)
    BY <1>5 DEF Close
  <2>2. Adapter!Shut
    BY <1>5, <2>1 DEF Close, Adapter!Shut
  <2> QED
    BY <2>2 DEF Adapter!AdapterNext
<1>6. ASSUME UNCHANGED <<pending, running, settled, closed>>
      PROVE  UNCHANGED Adapter!adapterVars
  BY <1>6 DEF Adapter!adapterVars
<1> QED
  BY <1>1, <1>2, <1>3, <1>4, <1>5, <1>6
     DEF Next, vars, Process, Elapse, Adapter!AdapterNext

\* Without Redis the server's queue keeps the promise of QueueAdapter, with
\* one attempt per job.
THEOREM QueueImplementsAdapter == Spec => ImplementsAdapter
<1> QED
  BY TypeCorrect, JobsConserved, InitRefines, NextRefines, PTL
     DEF Spec, ImplementsAdapter, Adapter!AdapterSpec
=============================================================================
