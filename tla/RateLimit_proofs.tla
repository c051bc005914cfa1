-------------------------- MODULE RateLimit_proofs --------------------------
(***************************************************************************)
(* The quotas of RateLimit, for every number of requests and replicas,     *)
(* every budget, window, skew and delay.  The argument is one for all      *)
(* three buckets: a hit stays in its bucket for as long as a later check   *)
(* could need it, so a check that finds room adds to a window that is not  *)
(* full (WindowGrows); nothing else adds to a window.  A refusal rests     *)
(* on the converse: a bucket holds nothing but hits of its own.            *)
(***************************************************************************)
EXTENDS RateLimit, FiniteSetTheorems, TLAPS

-----------------------------------------------------------------------------
\* A set of numbers has a least one, so Retry-After is a number.
LEMMA RetryAfterType ==
    ASSUME NEW live \in SUBSET Requests, live # {},
           NEW time \in [Requests -> Nat], NEW t \in Nat
    PROVE  RetryAfter(live, time, t) \in Nat
<1> DEFINE T == {time[p] : p \in live}
           R == {ss \in Nat \X Nat : ss[1] < ss[2]}
<1>1. T \subseteq Nat /\ T # {}
  OBVIOUS
<1>2. \E s \in T : \A u \in T : s <= u
  <2>1. IsWellFoundedOn(R, Nat)
    BY NatLessThanWellFounded DEF OpToRel
  <2> HIDE DEF T
  <2>2. PICK s \in T : \A u \in T : ~(<<u, s>> \in R)
    <3> HIDE DEF R
    <3> QED BY <1>1, <2>1, WFMin
  <2>3. \A u \in T : ~(u < s) /\ u \in Nat /\ s \in Nat
    BY <1>1, <2>2
  <2>4. \A u \in T : s <= u
    BY <2>3
  <2> QED BY <2>4
<1>3. Oldest(live, time) \in T
  BY <1>2 DEF Oldest
<1>4. Oldest(live, time) \in Nat
  BY <1>1, <1>3
<1> QED BY <1>4, RateAssumption DEF RetryAfter

\* What a check counts is part of a finite bucket.
LEMMA LiveIsPart ==
    ASSUME NEW bucket \in SUBSET Requests, NEW time, NEW t
    PROVE  /\ Live(bucket, time, t) \in SUBSET Requests
           /\ Live(bucket, time, t) \subseteq bucket
           /\ IsFiniteSet(Live(bucket, time, t))
           /\ Cardinality(Live(bucket, time, t)) \in Nat
           /\ Cardinality(Live(bucket, time, t)) <= Cardinality(bucket)
           /\ Cardinality(bucket) \in Nat
<1>1. IsFiniteSet(bucket)
  BY RateAssumption, FS_Subset
<1>2. Live(bucket, time, t) \in SUBSET bucket
  BY DEF Live
<1> QED BY <1>1, <1>2, FS_Subset, FS_CardinalityType

\* Room for one hit is room for one hit.
LEMMA RoomForOne ==
    ASSUME NEW live \in SUBSET Requests, NEW q \in Requests, NEW budget \in Nat \ {0}
    PROVE  /\ HasRoom(live, budget) => Cardinality(live \cup {q}) <= budget
           /\ ~HasRoom(live, budget) => live # {}
<1>1. IsFiniteSet(live) /\ Cardinality(live) \in Nat
  BY RateAssumption, FS_Subset, FS_CardinalityType
<1>2. /\ q \in live => Cardinality(live \cup {q}) = Cardinality(live)
      /\ q \notin live => Cardinality(live \cup {q}) = Cardinality(live) + 1
  BY <1>1, FS_AddElement
<1>3. live = {} => Cardinality(live) = 0
  BY FS_EmptySet
<1> QED BY <1>1, <1>2, <1>3 DEF HasRoom

-----------------------------------------------------------------------------
\* Settling a request keeps the types.
LEMMA SettleType ==
    ASSUME TypeOK, NEW q \in Requests, NEW outcome \in {"ok", "refused"},
           NEW limiter \in Limiters, NEW seconds \in Nat,
           Settle(q, outcome, limiter, seconds)
    PROVE  /\ state' \in [Requests -> {"new", "asked", "ok", "refused"}]
           /\ by' \in [Requests -> Limiters \cup {Nobody}]
           /\ settled' \in [Requests -> Nat]
           /\ retry' \in [Requests -> Nat]
BY RateAssumption DEF TypeOK, Settle

\* A check in the process keeps the types and the size of the bucket.
LEMMA InProcessType ==
    ASSUME TypeOK, NEW q \in Requests, NEW r \in Replicas, InProcess(q, r)
    PROVE  /\ state' \in [Requests -> {"new", "asked", "ok", "refused"}]
           /\ by' \in [Requests -> Limiters \cup {Nobody}]
           /\ settled' \in [Requests -> Nat]
           /\ retry' \in [Requests -> Nat]
           /\ local' \in [Replicas -> SUBSET Requests]
           /\ \A s \in Replicas : Cardinality(local'[s]) <= Budget
<1> DEFINE live == Live(local[r], settled, now)
<1>1. live \in SUBSET Requests /\ Cardinality(live) <= Cardinality(local[r])
      /\ Cardinality(live) \in Nat /\ Cardinality(local[r]) \in Nat
  BY LiveIsPart DEF TypeOK
<1>2. Budget \in Nat \ {0} /\ now \in Nat
  BY RateAssumption DEF TypeOK
<1>3. CASE HasRoom(live, Budget)
  <2>1. Settle(q, "ok", "memory", 0) /\ local' = [local EXCEPT ![r] = live \cup {q}]
    BY <1>3 DEF InProcess
  <2>2. Cardinality(live \cup {q}) <= Budget
    BY <1>1, <1>2, <1>3, RoomForOne
  <2>3. /\ local' \in [Replicas -> SUBSET Requests]
        /\ \A s \in Replicas : Cardinality(local'[s]) <= Budget
    <3>1. \A s \in Replicas : local'[s] = IF s = r THEN live \cup {q} ELSE local[s]
      BY <2>1 DEF TypeOK
    <3> QED BY <1>1, <2>1, <2>2, <3>1 DEF TypeOK
  <2> QED BY <2>1, <2>3, SettleType DEF Limiters
<1>4. CASE ~HasRoom(live, Budget)
  <2>1. /\ Settle(q, "refused", "memory", RetryAfter(live, settled, now))
        /\ local' = [local EXCEPT ![r] = live]
    BY <1>4 DEF InProcess
  <2>2. RetryAfter(live, settled, now) \in Nat
    BY <1>1, <1>2, <1>4, RoomForOne, RetryAfterType DEF TypeOK
  <2>3. /\ local' \in [Replicas -> SUBSET Requests]
        /\ \A s \in Replicas : Cardinality(local'[s]) <= Budget
    <3>1. \A s \in Replicas : local'[s] = IF s = r THEN live ELSE local[s]
      BY <2>1 DEF TypeOK
    <3>2. Cardinality(local[r]) <= Budget
      BY DEF TypeOK
    <3>3. Cardinality(live) <= Budget
      BY <1>1, <1>2, <3>2
    <3> QED BY <1>1, <2>1, <3>1, <3>3 DEF TypeOK
  <2> QED BY <2>1, <2>2, <2>3, SettleType DEF Limiters
<1> QED BY <1>3, <1>4

\* The first hook refuses: the types of what it changes.
LEMMA ThrottleType ==
    ASSUME TypeOK, NEW q \in Requests, NEW r \in Replicas, Throttle(q, r)
    PROVE  /\ state' \in [Requests -> {"new", "asked", "ok", "refused"}]
           /\ by' \in [Requests -> Limiters \cup {Nobody}]
           /\ settled' \in [Requests -> Nat]
           /\ retry' \in [Requests -> Nat]
           /\ poll' \in [Replicas -> SUBSET Requests]
           /\ \A s \in Replicas : Cardinality(poll'[s]) <= PollBudget
<1> DEFINE live == Live(poll[r], asked, now)
<1>1. live \in SUBSET Requests /\ Cardinality(live) <= Cardinality(poll[r])
      /\ Cardinality(live) \in Nat /\ Cardinality(poll[r]) \in Nat
  BY LiveIsPart DEF TypeOK
<1>2. PollBudget \in Nat \ {0} /\ now \in Nat
  BY RateAssumption DEF TypeOK
<1>3. /\ ~HasRoom(live, PollBudget)
      /\ Settle(q, "refused", "poll", RetryAfter(live, asked, now))
      /\ poll' = [poll EXCEPT ![r] = live]
  BY DEF Throttle
<1>4. RetryAfter(live, asked, now) \in Nat
  BY <1>1, <1>2, <1>3, RoomForOne, RetryAfterType DEF TypeOK
<1>5. Cardinality(poll[r]) <= PollBudget
  BY DEF TypeOK
<1>6. Cardinality(live) <= PollBudget
  BY <1>1, <1>2, <1>5
<1>7. \A s \in Replicas : poll'[s] = IF s = r THEN live ELSE poll[s]
  BY <1>3 DEF TypeOK
<1>8. /\ poll' \in [Replicas -> SUBSET Requests]
      /\ \A s \in Replicas : Cardinality(poll'[s]) <= PollBudget
  BY <1>1, <1>3, <1>6, <1>7 DEF TypeOK
<1> QED BY <1>3, <1>4, <1>8, SettleType DEF Limiters

\* The first hook lets pass: the types of its buckets.
LEMMA PassPollType ==
    ASSUME TypeOK, NEW q \in Requests, NEW r \in Replicas, NEW k \in Kinds,
           PassPoll(q, r, k)
    PROVE  /\ poll' \in [Replicas -> SUBSET Requests]
           /\ \A s \in Replicas : Cardinality(poll'[s]) <= PollBudget
<1> DEFINE live == Live(poll[r], asked, now)
<1>1. CASE poll' = poll
  BY <1>1 DEF TypeOK
<1>2. CASE HasRoom(live, PollBudget) /\ poll' = [poll EXCEPT ![r] = live \cup {q}]
  <2>1. live \in SUBSET Requests
    BY LiveIsPart DEF TypeOK
  <2>2. Cardinality(live \cup {q}) <= PollBudget
    BY <1>2, <2>1, RoomForOne, RateAssumption
  <2>3. \A s \in Replicas : poll'[s] = IF s = r THEN live \cup {q} ELSE poll[s]
    BY <1>2 DEF TypeOK
  <2> QED BY <1>2, <2>1, <2>2, <2>3 DEF TypeOK
<1> QED BY <1>1, <1>2 DEF PassPoll

\* What the script leaves in Redis.
LEMMA ScriptType ==
    ASSUME TypeOK, NEW q \in Requests, Script(q)
    PROVE  shared' \in SUBSET Requests /\ touched' \in Nat /\ Cardinality(shared') <= Budget
<1> DEFINE live == Live(shared, stamp, stamp[q])
<1>1. live \in SUBSET Requests /\ Cardinality(live) <= Cardinality(shared)
      /\ Cardinality(live) \in Nat /\ Cardinality(shared) \in Nat
  BY LiveIsPart DEF TypeOK
<1>2. Cardinality(shared) <= Budget /\ Budget \in Nat \ {0} /\ now \in Nat
  BY RateAssumption DEF TypeOK
<1>3. CASE HasRoom(live, Budget) /\ shared' = live \cup {q} /\ touched' = now
  BY <1>1, <1>2, <1>3, RoomForOne
<1>4. CASE shared' = live /\ touched' = touched
  BY <1>1, <1>2, <1>4 DEF TypeOK
<1> QED BY <1>3, <1>4 DEF Script

LEMMA TypeInit == Init => TypeOK
<1> SUFFICES ASSUME Init PROVE TypeOK
  OBVIOUS
<1>1. Cardinality({}) = 0
  BY FS_EmptySet
<1>2. (CHOOSE r \in Replicas : TRUE) \in Replicas
  BY RateAssumption
<1> QED BY <1>1, <1>2, RateAssumption DEF Init, TypeOK, Kinds

\* The types survive every step.
LEMMA TypeStep == TypeOK /\ [Next]_vars => TypeOK'
<1> SUFFICES ASSUME TypeOK, [Next]_vars PROVE TypeOK'
  OBVIOUS
<1> USE DEF vars, decided, arrived
<1>1. ASSUME NEW q \in Requests, NEW r \in Replicas, NEW k \in Kinds, Arrive(q, r, k)
      PROVE  TypeOK'
  <2>1. /\ kind' \in [Requests -> Kinds] /\ via' \in [Requests -> Replicas]
        /\ asked' \in [Requests -> Nat] /\ stamp' \in [Requests -> Nat]
    BY <1>1, RateAssumption DEF Arrive, TypeOK
  <2>2. CASE Throttle(q, r)
    BY <1>1, <2>1, <2>2, ThrottleType DEF Arrive, Throttle, TypeOK
  <2>3. CASE PassPoll(q, r, k) /\ r \in attached /\ Ask(q, r)
    <3>1. /\ state' = [state EXCEPT ![q] = "asked"]
          /\ UNCHANGED <<by, settled, retry, local>>
      BY <2>3 DEF Ask, InProcess
    <3> QED BY <1>1, <2>1, <2>3, <3>1, PassPollType DEF Arrive, TypeOK
  <2>4. CASE PassPoll(q, r, k) /\ InProcess(q, r)
    BY <1>1, <2>1, <2>4, PassPollType, InProcessType DEF Arrive, TypeOK
  <2> QED BY <1>1, <2>2, <2>3, <2>4 DEF Arrive, Ask
<1>2. ASSUME NEW q \in Requests, Answer(q) PROVE TypeOK'
  <2> DEFINE live == Live(shared, stamp, stamp[q])
  <2>1. shared' \in SUBSET Requests /\ touched' \in Nat /\ Cardinality(shared') <= Budget
    BY <1>2, ScriptType DEF Answer
  <2>2. CASE HasRoom(live, Budget)
    <3>1. Settle(q, "ok", "redis", 0)
      BY <1>2, <2>2 DEF Answer
    <3> QED BY <1>2, <2>1, <3>1, SettleType DEF Answer, TypeOK, Limiters
  <2>3. CASE ~HasRoom(live, Budget)
    <3>1. Settle(q, "refused", "redis", RetryAfter(live, stamp, stamp[q]))
      BY <1>2, <2>3 DEF Answer
    <3>2. RetryAfter(live, stamp, stamp[q]) \in Nat
      BY <2>3, LiveIsPart, RoomForOne, RetryAfterType, RateAssumption DEF TypeOK
    <3> QED BY <1>2, <2>1, <3>1, <3>2, SettleType DEF Answer, TypeOK, Limiters
  <2> QED BY <2>2, <2>3
<1>3. ASSUME NEW q \in Requests, LoseReply(q) PROVE TypeOK'
  <2>1. shared' \in SUBSET Requests /\ touched' \in Nat /\ Cardinality(shared') <= Budget
    BY <1>3, ScriptType DEF LoseReply
  <2>2. faults' \in 0 .. MaxFaults
    BY <1>3, RateAssumption DEF LoseReply, TypeOK
  <2> QED BY <1>3, <2>1, <2>2 DEF LoseReply, TypeOK
<1>4. ASSUME NEW q \in Requests, Fallback(q) PROVE TypeOK'
  <2>1. faults' \in 0 .. MaxFaults
    BY <1>4, RateAssumption DEF Fallback, TypeOK
  <2>2. via[q] \in Replicas
    BY DEF TypeOK
  <2> QED BY <1>4, <2>1, <2>2, InProcessType DEF Fallback, TypeOK
<1>5. ASSUME NEW r \in Replicas, Sweep(r) \/ SweepPoll(r) PROVE TypeOK'
  <2>1. Cardinality({}) = 0
    BY FS_EmptySet
  <2>2. CASE Sweep(r)
    <3>1. /\ local' \in [Replicas -> SUBSET Requests]
          /\ \A s \in Replicas : local'[s] = IF s = r THEN {} ELSE local[s]
      BY <2>2 DEF Sweep, TypeOK
    <3>2. ASSUME NEW s \in Replicas PROVE Cardinality(local'[s]) <= Budget
      <4>1. CASE s = r
        BY <2>1, <3>1, <4>1, RateAssumption
      <4>2. CASE s # r
        BY <3>1, <4>2 DEF TypeOK
      <4> QED BY <4>1, <4>2
    <3> QED BY <2>2, <3>1, <3>2 DEF Sweep, TypeOK
  <2>3. CASE SweepPoll(r)
    <3>1. /\ poll' \in [Replicas -> SUBSET Requests]
          /\ \A s \in Replicas : poll'[s] = IF s = r THEN {} ELSE poll[s]
      BY <2>3 DEF SweepPoll, TypeOK
    <3>2. ASSUME NEW s \in Replicas PROVE Cardinality(poll'[s]) <= PollBudget
      <4>1. CASE s = r
        BY <2>1, <3>1, <4>1, RateAssumption
      <4>2. CASE s # r
        BY <3>1, <4>2 DEF TypeOK
      <4> QED BY <4>1, <4>2
    <3> QED BY <2>3, <3>1, <3>2 DEF SweepPoll, TypeOK
  <2> QED BY <1>5, <2>2, <2>3
<1>6. CASE Expire
  <2>1. Cardinality({}) = 0
    BY FS_EmptySet
  <2> QED BY <1>6, <2>1, RateAssumption DEF Expire, TypeOK
<1>7. CASE Elapse
  BY <1>7, RateAssumption DEF Elapse, TypeOK
<1>8. CASE UNCHANGED vars
  BY <1>8 DEF TypeOK
<1> QED BY <1>1, <1>2, <1>3, <1>4, <1>5, <1>6, <1>7, <1>8 DEF Next, Idle

\* Every reachable state has the types of the code, and no bucket outgrows its budget.
THEOREM TypeCorrect == Spec => []TypeOK
BY TypeInit, TypeStep, PTL DEF Spec

-----------------------------------------------------------------------------
\* A stretch of time that gains one hit of a set stays within the budget, if all
\* the hits it already had were still counted by the check that found room.
LEMMA WindowGrows ==
    ASSUME NEW set \in SUBSET Requests, NEW time, NEW q \in Requests,
           NEW t \in Int, NEW d \in Nat,
           NEW live \in SUBSET Requests, NEW budget \in Nat \ {0}, HasRoom(live, budget),
           time[q] \in Nat,
           t <= time[q] /\ time[q] < t + d => From(set, time, t, d) \subseteq live,
           Cardinality(From(set, time, t, d)) <= budget
    PROVE  Cardinality(From(set \cup {q}, time, t, d)) <= budget
<1>1. CASE t <= time[q] /\ time[q] < t + d
  <2>1. From(set \cup {q}, time, t, d) \in SUBSET (live \cup {q})
    BY <1>1 DEF From
  <2>2. IsFiniteSet(live \cup {q})
    BY RateAssumption, FS_Subset
  <2>3. /\ Cardinality(From(set \cup {q}, time, t, d)) <= Cardinality(live \cup {q})
        /\ IsFiniteSet(From(set \cup {q}, time, t, d))
    BY <2>1, <2>2, FS_Subset
  <2>4. Cardinality(live \cup {q}) <= budget
    BY RoomForOne
  <2> QED BY <2>2, <2>3, <2>4, FS_CardinalityType
<1>2. CASE ~(t <= time[q] /\ time[q] < t + d)
  <2>1. From(set \cup {q}, time, t, d) = From(set, time, t, d)
    BY <1>2 DEF From
  <2> QED BY <2>1
<1> QED BY <1>1, <1>2

\* A stretch of time does not change while the times of its hits do not.
LEMMA WindowStays ==
    ASSUME NEW set, NEW time, NEW later, NEW t, NEW d, \A p \in set : later[p] = time[p]
    PROVE  From(set, later, t, d) = From(set, time, t, d)
BY DEF From

\* Whom settling an undecided request admits.
LEMMA SettleAdmits ==
    ASSUME TypeOK, NEW q \in Requests, state[q] \in {"new", "asked"},
           NEW outcome, NEW limiter, NEW seconds, Settle(q, outcome, limiter, seconds)
    PROVE  /\ \A l \in Limiters :
                  AdmittedBy(l)' = IF outcome = "ok" /\ limiter = l
                                   THEN AdmittedBy(l) \cup {q} ELSE AdmittedBy(l)
           /\ \A l \in Limiters : q \notin AdmittedBy(l)
           /\ settled' = [settled EXCEPT ![q] = now]
BY DEF TypeOK, Settle, AdmittedBy

-----------------------------------------------------------------------------
\* How the clocks of the replicas and of the requests relate to the true time.
Timely ==
    /\ touched <= now
    /\ \A q \in Requests :
          /\ asked[q] <= now /\ settled[q] <= now
          /\ asked[q] <= stamp[q] /\ stamp[q] <= asked[q] + MaxSkew
          /\ state[q] = "asked" => now <= asked[q] + MaxDelay

LEMMA TimelyInit == Init => Timely
BY RateAssumption DEF Init, Timely

LEMMA TimelyStep == TypeOK /\ Timely /\ [Next]_vars => Timely'
<1> SUFFICES ASSUME TypeOK, Timely, [Next]_vars PROVE Timely'
  OBVIOUS
<1> USE RateAssumption DEF vars, decided, arrived
<1>1. ASSUME NEW q \in Requests, NEW r \in Replicas, NEW k \in Kinds, Arrive(q, r, k)
      PROVE  Timely'
  <2>1. /\ state' \in {state, [state EXCEPT ![q] = "asked"], [state EXCEPT ![q] = "ok"],
                        [state EXCEPT ![q] = "refused"]}
        /\ settled' \in {settled, [settled EXCEPT ![q] = now]}
    BY <1>1 DEF Arrive, Throttle, Ask, InProcess, Settle
  <2>2. /\ asked' = [asked EXCEPT ![q] = now] /\ stamp' = [stamp EXCEPT ![q] = now + Skew[r]]
        /\ now' = now /\ touched' = touched
    BY <1>1 DEF Arrive
  <2>3. Skew[r] \in Nat /\ Skew[r] <= MaxSkew
    OBVIOUS
  <2> QED BY <2>1, <2>2, <2>3 DEF TypeOK, Timely
<1>2. ASSUME NEW q \in Requests, Answer(q) PROVE Timely'
  BY <1>2 DEF Answer, Script, Settle, TypeOK, Timely
<1>3. ASSUME NEW q \in Requests, LoseReply(q) PROVE Timely'
  BY <1>3 DEF LoseReply, Script, TypeOK, Timely
<1>4. ASSUME NEW q \in Requests, Fallback(q) PROVE Timely'
  BY <1>4 DEF Fallback, InProcess, Settle, TypeOK, Timely
<1>5. ASSUME NEW r \in Replicas, Sweep(r) \/ SweepPoll(r) PROVE Timely'
  BY <1>5 DEF Sweep, SweepPoll, Timely
<1>6. CASE Expire
  BY <1>6 DEF Expire, Timely
<1>7. CASE Elapse
  <2>1. \A q \in Requests : state[q] = "asked" => now + 1 <= asked[q] + MaxDelay
    BY <1>7 DEF Elapse, TypeOK
  <2> QED BY <1>7, <2>1 DEF Elapse, TypeOK, Timely
<1>8. CASE UNCHANGED vars
  BY <1>8 DEF Timely
<1> QED BY <1>1, <1>2, <1>3, <1>4, <1>5, <1>6, <1>7, <1>8 DEF Next, Idle

-----------------------------------------------------------------------------
\* The stretch of true time for which the quota over all replicas is exact.
Stretch == Window - MaxSkew - MaxDelay

\* A hit that Redis admitted is in the sorted set until every clock agrees that
\* its window is over.
SharedInv ==
    /\ \A q \in shared : state[q] # "new" /\ asked[q] <= touched
    /\ \A q \in AdmittedBy("redis") : now - asked[q] < Window - MaxSkew => q \in shared
    /\ \A t \in Int : Cardinality(From(AdmittedBy("redis"), asked, t, Stretch)) <= Budget

LEMMA SharedInit == Init => SharedInv
<1> SUFFICES ASSUME Init PROVE SharedInv
  OBVIOUS
<1>1. AdmittedBy("redis") = {}
  BY DEF Init, AdmittedBy
<1>2. \A t : From({}, asked, t, Stretch) = {}
  BY DEF From
<1>3. Cardinality({}) = 0
  BY FS_EmptySet
<1> QED BY <1>1, <1>2, <1>3, RateAssumption DEF Init, SharedInv

\* A step that admits nobody in Redis keeps SharedInv, if it dates no hit anew and
\* takes no hit from the sorted set before its time.
LEMMA SharedKept ==
    ASSUME SharedInv, AdmittedBy("redis")' = AdmittedBy("redis"),
           \A p \in AdmittedBy("redis") : asked'[p] = asked[p],
           \A p \in shared' : state'[p] # "new" /\ asked'[p] <= touched',
           \A p \in AdmittedBy("redis") : now' - asked'[p] < Window - MaxSkew => p \in shared'
    PROVE  SharedInv'
<1>1. \A t : From(AdmittedBy("redis"), asked', t, Stretch) = From(AdmittedBy("redis"), asked, t, Stretch)
  BY WindowStays
<1>2. \A t \in Int : Cardinality(From(AdmittedBy("redis"), asked, t, Stretch)') <= Budget
  <2>1. \A t : From(AdmittedBy("redis"), asked, t, Stretch)' = From(AdmittedBy("redis"), asked, t, Stretch)
    BY <1>1 DEF From, Stretch
  <2> QED BY <2>1 DEF SharedInv
<1> QED BY <1>2 DEF SharedInv

\* What the script counts, and what it leaves out.
LEMMA ScriptKeeps ==
    ASSUME TypeOK, Timely, SharedInv, NEW q \in Requests, state[q] = "asked"
    PROVE  LET live == Live(shared, stamp, stamp[q])
           IN  /\ live \in SUBSET Requests
               /\ \A p \in live : state[p] # "new" /\ asked[p] <= touched
               /\ \A p \in AdmittedBy("redis") :
                      now - asked[p] < Window - MaxSkew => p \in live
               /\ \A t \in Int : t <= asked[q] /\ asked[q] < t + Stretch =>
                      From(AdmittedBy("redis"), asked, t, Stretch) \subseteq live
<1> DEFINE live == Live(shared, stamp, stamp[q])
<1>1. live \in SUBSET Requests /\ live \subseteq shared
  BY LiveIsPart DEF TypeOK
<1>2. ASSUME NEW p \in AdmittedBy("redis"), now - asked[p] < Window - MaxSkew
      PROVE  p \in live
  <2>1. p \in Requests /\ p \in shared
    BY <1>2 DEF AdmittedBy, SharedInv
  <2>2. /\ asked[p] \in Nat /\ stamp[p] \in Nat /\ asked[q] \in Nat /\ stamp[q] \in Nat
        /\ now \in Nat /\ MaxSkew \in Nat /\ Window \in Nat
    BY <2>1, RateAssumption DEF TypeOK
  <2>3. asked[p] <= stamp[p] /\ stamp[q] <= asked[q] + MaxSkew /\ asked[q] <= now
    BY <2>1 DEF Timely
  <2>4. stamp[p] > stamp[q] - Window
    BY <1>2, <2>2, <2>3
  <2> QED BY <2>1, <2>4 DEF Live
<1>3. ASSUME NEW t \in Int, t <= asked[q], asked[q] < t + Stretch,
             NEW p \in From(AdmittedBy("redis"), asked, t, Stretch)
      PROVE  p \in live
  <2>1. p \in AdmittedBy("redis") /\ p \in Requests /\ t <= asked[p]
    BY DEF From, AdmittedBy
  <2>2. /\ asked[p] \in Nat /\ asked[q] \in Nat /\ now \in Nat
        /\ MaxSkew \in Nat /\ MaxDelay \in Nat /\ Window \in Nat
    BY <2>1, RateAssumption DEF TypeOK
  <2>3. now <= asked[q] + MaxDelay
    BY DEF Timely
  <2>4. now - asked[p] < Window - MaxSkew
    BY <1>3, <2>1, <2>2, <2>3 DEF Stretch
  <2> QED BY <1>2, <2>1, <2>4
<1> QED BY <1>1, <1>2, <1>3 DEF SharedInv

LEMMA SharedStep == TypeOK /\ Timely /\ SharedInv /\ [Next]_vars => SharedInv'
<1> SUFFICES ASSUME TypeOK, Timely, SharedInv, [Next]_vars PROVE SharedInv'
  OBVIOUS
<1> USE DEF vars, decided, arrived
<1>1. ASSUME NEW q \in Requests, NEW r \in Replicas, NEW k \in Kinds, Arrive(q, r, k)
      PROVE  SharedInv'
  <2>1. /\ state[q] = "new" /\ asked' = [asked EXCEPT ![q] = now]
        /\ UNCHANGED <<now, shared, touched>>
    BY <1>1 DEF Arrive
  <2>2. \/ \E o \in {"ok", "refused"}, l \in {"poll", "memory"} : \E s : Settle(q, o, l, s)
        \/ state' = [state EXCEPT ![q] = "asked"] /\ by' = by
    BY <1>1 DEF Arrive, Throttle, Ask, InProcess
  <2>3. AdmittedBy("redis")' = AdmittedBy("redis") /\ q \notin AdmittedBy("redis")
    BY <2>1, <2>2 DEF Settle, AdmittedBy, TypeOK
  <2>4. \A p \in Requests : p # q => asked'[p] = asked[p] /\ state'[p] = state[p]
    BY <2>1, <2>2 DEF Settle, TypeOK
  <2>5. q \notin shared /\ shared \subseteq Requests /\ AdmittedBy("redis") \subseteq Requests
    BY <2>1 DEF SharedInv, TypeOK, AdmittedBy
  <2> QED BY <2>1, <2>3, <2>4, <2>5, SharedKept DEF SharedInv
<1>2. ASSUME NEW q \in Requests, Answer(q) PROVE SharedInv'
  <2> DEFINE live == Live(shared, stamp, stamp[q])
  <2>1. state[q] = "asked" /\ Script(q) /\ UNCHANGED <<now, asked>>
    BY <1>2 DEF Answer
  <2>2. /\ live \in SUBSET Requests
        /\ \A p \in live : state[p] # "new" /\ asked[p] <= touched
        /\ \A p \in AdmittedBy("redis") : now - asked[p] < Window - MaxSkew => p \in live
        /\ \A t \in Int : t <= asked[q] /\ asked[q] < t + Stretch =>
                From(AdmittedBy("redis"), asked, t, Stretch) \subseteq live
    BY <2>1, ScriptKeeps
  <2>3. CASE HasRoom(live, Budget)
    <3>1. Settle(q, "ok", "redis", 0) /\ shared' = live \cup {q} /\ touched' = now
      BY <1>2, <2>1, <2>3 DEF Answer, Script
    <3>2. AdmittedBy("redis")' = AdmittedBy("redis") \cup {q}
      BY <2>1, <3>1, SettleAdmits DEF Limiters
    <3>3. \A p \in shared' : state'[p] # "new" /\ asked[p] <= now
      BY <2>2, <3>1 DEF Settle, TypeOK, Timely
    <3>4. \A p \in AdmittedBy("redis") \cup {q} :
             now - asked[p] < Window - MaxSkew => p \in shared'
      BY <2>2, <3>1
    <3>5. ASSUME NEW t \in Int
          PROVE  Cardinality(From(AdmittedBy("redis") \cup {q}, asked, t, Stretch)) <= Budget
      <4>1. AdmittedBy("redis") \in SUBSET Requests
        BY DEF AdmittedBy
      <4>2. Stretch \in Nat /\ Budget \in Nat \ {0} /\ asked[q] \in Nat
        BY RateAssumption DEF Stretch, TypeOK
      <4>3. Cardinality(From(AdmittedBy("redis"), asked, t, Stretch)) <= Budget
        BY DEF SharedInv
      <4> QED BY <2>2, <2>3, <4>1, <4>2, <4>3, WindowGrows
    <3>6. \A t \in Int : Cardinality(From(AdmittedBy("redis"), asked, t, Stretch)') <= Budget
      <4>1. \A t : From(AdmittedBy("redis"), asked, t, Stretch)'
                     = From(AdmittedBy("redis") \cup {q}, asked, t, Stretch)
        BY <2>1, <3>2 DEF From, Stretch
      <4> QED BY <3>5, <4>1
    <3> QED BY <2>1, <3>1, <3>2, <3>3, <3>4, <3>6 DEF SharedInv
  <2>4. CASE ~HasRoom(live, Budget)
    <3>1. /\ Settle(q, "refused", "redis", RetryAfter(live, stamp, stamp[q]))
          /\ shared' = live /\ touched' = touched
      BY <1>2, <2>1, <2>4 DEF Answer, Script
    <3>2. AdmittedBy("redis")' = AdmittedBy("redis")
      BY <2>1, <3>1, SettleAdmits DEF Limiters
    <3>3. \A p \in live : state'[p] # "new"
      BY <2>2, <3>1 DEF Settle, TypeOK
    <3> QED BY <2>1, <2>2, <3>1, <3>2, <3>3, SharedKept
  <2> QED BY <2>3, <2>4
<1>3. ASSUME NEW q \in Requests, LoseReply(q) PROVE SharedInv'
  <2> DEFINE live == Live(shared, stamp, stamp[q])
  <2>1. state[q] = "asked" /\ Script(q) /\ UNCHANGED <<now, asked, state, by>>
    BY <1>3 DEF LoseReply
  <2>2. /\ \A p \in live : state[p] # "new" /\ asked[p] <= touched
        /\ \A p \in AdmittedBy("redis") : now - asked[p] < Window - MaxSkew => p \in live
    BY <2>1, ScriptKeeps
  <2>3. AdmittedBy("redis")' = AdmittedBy("redis")
    BY <2>1 DEF AdmittedBy
  <2>4. \A p \in shared' : state[p] # "new" /\ asked[p] <= touched'
    BY <2>1, <2>2, LiveIsPart DEF Script, Timely, TypeOK
  <2>5. live \subseteq shared'
    BY <2>1 DEF Script
  <2> QED BY <2>1, <2>2, <2>3, <2>4, <2>5, SharedKept
<1>4. ASSUME NEW q \in Requests, Fallback(q) PROVE SharedInv'
  <2>1. state[q] = "asked" /\ UNCHANGED <<now, asked, shared, touched>>
    BY <1>4 DEF Fallback
  <2>2. \E o \in {"ok", "refused"} : \E s : Settle(q, o, "memory", s)
    BY <1>4 DEF Fallback, InProcess
  <2>3. AdmittedBy("redis")' = AdmittedBy("redis")
    BY <2>1, <2>2 DEF Settle, AdmittedBy, TypeOK
  <2>4. \A p \in shared : state'[p] # "new"
    BY <2>2 DEF Settle, SharedInv, TypeOK
  <2> QED BY <2>1, <2>3, <2>4, SharedKept DEF SharedInv
<1>5. CASE UNCHANGED <<state, by, asked, shared, touched, now>>
  <2>1. AdmittedBy("redis")' = AdmittedBy("redis")
    BY <1>5 DEF AdmittedBy
  <2> QED BY <1>5, <2>1, SharedKept DEF SharedInv
<1>6. CASE Expire
  <2>1. /\ shared' = {} /\ UNCHANGED <<state, by, asked, touched, now>>
        /\ now >= touched + 2 * Window
    BY <1>6 DEF Expire
  <2>2. AdmittedBy("redis")' = AdmittedBy("redis")
    BY <2>1 DEF AdmittedBy
  <2>3. ASSUME NEW p \in AdmittedBy("redis") PROVE ~(now - asked[p] < Window - MaxSkew)
    <3>1. p \in Requests /\ asked[p] \in Nat /\ now \in Nat /\ touched \in Nat
          /\ Window \in Nat /\ MaxSkew \in Nat
      BY RateAssumption DEF AdmittedBy, TypeOK
    <3>2. now - asked[p] < Window - MaxSkew => asked[p] <= touched
      BY DEF SharedInv
    <3> QED BY <2>1, <3>1, <3>2
  <2> QED BY <2>1, <2>2, <2>3, SharedKept
<1>7. CASE Elapse
  <2>1. now' = now + 1 /\ UNCHANGED <<state, by, asked, shared, touched>>
    BY <1>7 DEF Elapse
  <2>2. AdmittedBy("redis")' = AdmittedBy("redis")
    BY <2>1 DEF AdmittedBy
  <2>3. \A p \in shared' : state'[p] # "new" /\ asked'[p] <= touched'
    BY <2>1 DEF SharedInv
  <2>4. ASSUME NEW p \in AdmittedBy("redis"), now' - asked'[p] < Window - MaxSkew
        PROVE  p \in shared'
    <3>1. /\ asked[p] \in Nat /\ now \in Nat /\ Window \in Nat /\ MaxSkew \in Nat
          /\ now' = now + 1 /\ asked'[p] = asked[p]
      BY <2>1, RateAssumption DEF AdmittedBy, TypeOK
    <3>2. now - asked[p] < Window - MaxSkew
      BY <2>4, <3>1
    <3> QED BY <2>1, <3>2 DEF SharedInv
  <2>5. \A p \in AdmittedBy("redis") : asked'[p] = asked[p]
    BY <2>1
  <2> QED BY <2>2, <2>3, <2>4, <2>5, SharedKept
<1> QED BY <1>1, <1>2, <1>3, <1>4, <1>5, <1>6, <1>7 DEF Next, Idle, Sweep, SweepPoll

\* Redis admits no more than the budget in any stretch as long as the window less
\* skew and delay, whatever the replicas, the lost replies and the late calls.
THEOREM SharedQuota == Spec => []SharedWindowBounded
<1>1. TypeOK /\ SharedInv => SharedWindowBounded
  BY DEF TypeOK, SharedInv, SharedWindowBounded, Stretch
<1> QED BY <1>1, TypeInit, TypeStep, TimelyInit, TimelyStep, SharedInit, SharedStep, PTL DEF Spec

-----------------------------------------------------------------------------
MemoryOf(r) == {p \in AdmittedBy("memory") : via[p] = r}

\* A hit the process admitted is in its bucket until its window is over.
LocalInv ==
    /\ \A q \in AdmittedBy("memory") : now - settled[q] < Window => q \in local[via[q]]
    /\ \A r \in Replicas, t \in Int :
          Cardinality(From(MemoryOf(r), settled, t, Window)) <= Budget

LEMMA LocalInit == Init => LocalInv
<1> SUFFICES ASSUME Init PROVE LocalInv
  OBVIOUS
<1>1. AdmittedBy("memory") = {} /\ \A r : MemoryOf(r) = {}
  BY DEF Init, AdmittedBy, MemoryOf
<1>2. \A t : From({}, settled, t, Window) = {}
  BY DEF From
<1>3. Cardinality({}) = 0 /\ 0 <= Budget
  BY FS_EmptySet, RateAssumption
<1>4. \A r, t : Cardinality(From(MemoryOf(r), settled, t, Window)) = 0
  BY <1>1, <1>2, <1>3
<1> QED BY <1>1, <1>3, <1>4 DEF LocalInv

\* A step that admits nobody in the process keeps LocalInv, if it neither moves nor
\* dates a hit anew and takes none from its bucket before its time.
LEMMA LocalKept ==
    ASSUME LocalInv, AdmittedBy("memory")' = AdmittedBy("memory"),
           \A p \in AdmittedBy("memory") : settled'[p] = settled[p] /\ via'[p] = via[p],
           \A p \in AdmittedBy("memory") : now' - settled[p] < Window => p \in local'[via[p]]
    PROVE  LocalInv'
<1>1. \A r : MemoryOf(r)' = MemoryOf(r)
  BY DEF MemoryOf
<1>2. \A r, t : From(MemoryOf(r), settled', t, Window) = From(MemoryOf(r), settled, t, Window)
  BY WindowStays DEF MemoryOf
<1>3. \A r, t : From(MemoryOf(r), settled, t, Window)' = From(MemoryOf(r), settled, t, Window)
  BY <1>1, <1>2 DEF From
<1>4. \A r \in Replicas, t \in Int :
         Cardinality(From(MemoryOf(r), settled, t, Window)') <= Budget
  BY <1>3 DEF LocalInv
<1>5. \A q \in AdmittedBy("memory")' : now' - settled'[q] < Window => q \in local'[via'[q]]
  OBVIOUS
<1> QED BY <1>4, <1>5 DEF LocalInv

\* A check of an undecided request in its process keeps LocalInv.
LEMMA InProcessKeeps ==
    ASSUME TypeOK, LocalInv, NEW q \in Requests, NEW r \in Replicas,
           state[q] \in {"new", "asked"}, InProcess(q, r), now' = now,
           via'[q] = r, \A p \in Requests : p # q => via'[p] = via[p]
    PROVE  LocalInv'
<1> DEFINE live == Live(local[r], settled, now)
<1>1. live \in SUBSET Requests
  BY LiveIsPart DEF TypeOK
<1>2. q \notin AdmittedBy("memory") /\ AdmittedBy("memory") \subseteq Requests
  BY DEF AdmittedBy, TypeOK
<1>3. ASSUME NEW p \in AdmittedBy("memory"), via[p] = r, now - settled[p] < Window
      PROVE  p \in live
  <2>1. p \in local[r]
    BY <1>3 DEF LocalInv
  <2>2. settled[p] \in Nat /\ now \in Nat /\ Window \in Nat
    BY <1>2, RateAssumption DEF TypeOK
  <2> QED BY <1>3, <2>1, <2>2 DEF Live
<1>4. CASE HasRoom(live, Budget)
  <2>1. Settle(q, "ok", "memory", 0) /\ local' = [local EXCEPT ![r] = live \cup {q}]
    BY <1>4 DEF InProcess
  <2>2. /\ AdmittedBy("memory")' = AdmittedBy("memory") \cup {q}
        /\ settled' = [settled EXCEPT ![q] = now]
    BY <2>1, SettleAdmits DEF Limiters
  <2>3. ASSUME NEW p \in AdmittedBy("memory")', now - settled'[p] < Window
        PROVE  p \in local'[via'[p]]
    <3>1. \A s \in Replicas : local'[s] = IF s = r THEN live \cup {q} ELSE local[s]
      BY <2>1 DEF TypeOK
    <3>2. CASE p = q
      BY <3>1, <3>2
    <3>3. CASE p # q
      <4>1. /\ p \in AdmittedBy("memory") /\ p \in Requests
            /\ settled'[p] = settled[p] /\ via'[p] = via[p] /\ via[p] \in Replicas
        BY <1>2, <2>2, <3>3 DEF TypeOK
      <4>2. p \in local[via[p]]
        BY <2>3, <4>1 DEF LocalInv
      <4> QED BY <1>3, <2>3, <3>1, <4>1, <4>2
    <3> QED BY <3>2, <3>3
  <2>4. ASSUME NEW s \in Replicas, NEW t \in Int
        PROVE  Cardinality(From(MemoryOf(s), settled, t, Window)') <= Budget
    <3>1. Cardinality(From(MemoryOf(s), settled, t, Window)) <= Budget
      BY DEF LocalInv
    <3>2. From(MemoryOf(s), settled', t, Window) = From(MemoryOf(s), settled, t, Window)
      <4>1. \A p \in MemoryOf(s) : settled'[p] = settled[p]
        BY <1>2, <2>2 DEF MemoryOf, TypeOK
      <4> QED BY <4>1, WindowStays
    <3>3. CASE s # r
      <4>1. MemoryOf(s)' = MemoryOf(s)
        BY <1>2, <2>2, <3>3 DEF MemoryOf
      <4>2. From(MemoryOf(s), settled, t, Window)' = From(MemoryOf(s), settled', t, Window)
        BY <4>1 DEF From
      <4> QED BY <3>1, <3>2, <4>2
    <3>4. CASE s = r
      <4>1. MemoryOf(r)' = MemoryOf(r) \cup {q}
        BY <1>2, <2>2 DEF MemoryOf
      <4>2. From(MemoryOf(s), settled, t, Window)' = From(MemoryOf(r) \cup {q}, settled', t, Window)
        BY <3>4, <4>1 DEF From
      <4>3. /\ MemoryOf(r) \in SUBSET Requests /\ settled'[q] = now /\ now \in Nat
            /\ Window \in Nat /\ Budget \in Nat \ {0}
        BY <1>2, <2>2, RateAssumption DEF MemoryOf, TypeOK
      <4>4. t <= now /\ now < t + Window => From(MemoryOf(r), settled', t, Window) \subseteq live
        <5>1. ASSUME t <= now, now < t + Window,
                     NEW p \in From(MemoryOf(r), settled, t, Window)
              PROVE  p \in live
          <6>1. p \in AdmittedBy("memory") /\ via[p] = r /\ t <= settled[p]
            BY DEF From, MemoryOf
          <6>2. settled[p] \in Nat
            BY <1>2, <6>1 DEF TypeOK
          <6>3. now - settled[p] < Window
            BY <4>3, <5>1, <6>1, <6>2
          <6> QED BY <1>3, <6>1, <6>3
        <5> QED BY <3>2, <3>4, <5>1
      <4>5. Cardinality(From(MemoryOf(r), settled', t, Window)) <= Budget
        BY <3>1, <3>2, <3>4
      <4>6. Cardinality(From(MemoryOf(r) \cup {q}, settled', t, Window)) <= Budget
        <5>1. settled'[q] \in Nat
          BY <4>3
        <5>2. t <= settled'[q] /\ settled'[q] < t + Window
                => From(MemoryOf(r), settled', t, Window) \subseteq live
          BY <4>3, <4>4
        <5> QED BY <1>1, <1>4, <4>3, <4>5, <5>1, <5>2, WindowGrows
      <4> QED BY <4>2, <4>6
    <3> QED BY <3>3, <3>4
  <2> QED BY <2>3, <2>4 DEF LocalInv
<1>5. CASE ~HasRoom(live, Budget)
  <2>1. /\ Settle(q, "refused", "memory", RetryAfter(live, settled, now))
        /\ local' = [local EXCEPT ![r] = live]
    BY <1>5 DEF InProcess
  <2>2. /\ AdmittedBy("memory")' = AdmittedBy("memory")
        /\ settled' = [settled EXCEPT ![q] = now]
    BY <2>1, SettleAdmits DEF Limiters
  <2>3. \A p \in AdmittedBy("memory") : settled'[p] = settled[p] /\ via'[p] = via[p]
    BY <1>2, <2>2 DEF TypeOK
  <2>4. ASSUME NEW p \in AdmittedBy("memory"), now - settled[p] < Window
        PROVE  p \in local'[via[p]]
    <3>1. \A s \in Replicas : local'[s] = IF s = r THEN live ELSE local[s]
      BY <2>1 DEF TypeOK
    <3>2. via[p] \in Replicas /\ p \in local[via[p]]
      BY <1>2, <2>4 DEF LocalInv, TypeOK
    <3> QED BY <1>3, <2>4, <3>1, <3>2
  <2> QED BY <2>2, <2>3, <2>4, LocalKept
<1> QED BY <1>4, <1>5

\* Every step keeps LocalInv.
LEMMA LocalStep == TypeOK /\ Timely /\ LocalInv /\ [Next]_vars => LocalInv'
<1> SUFFICES ASSUME TypeOK, Timely, LocalInv, [Next]_vars PROVE LocalInv'
  OBVIOUS
<1> USE DEF vars, decided, arrived
<1>1. ASSUME NEW q \in Requests, NEW r \in Replicas, NEW k \in Kinds, Arrive(q, r, k)
      PROVE  LocalInv'
  <2>1. /\ state[q] = "new" /\ via' = [via EXCEPT ![q] = r] /\ now' = now
    BY <1>1 DEF Arrive
  <2>2. /\ via'[q] = r /\ \A p \in Requests : p # q => via'[p] = via[p]
        /\ q \notin AdmittedBy("memory") /\ AdmittedBy("memory") \subseteq Requests
    BY <2>1 DEF TypeOK, AdmittedBy
  <2>3. CASE InProcess(q, r)
    BY <2>1, <2>2, <2>3, InProcessKeeps
  <2>4. CASE Throttle(q, r)
    <3>1. /\ local' = local
          /\ Settle(q, "refused", "poll", RetryAfter(Live(poll[r], asked, now), asked, now))
      BY <2>4 DEF Throttle
    <3>2. /\ AdmittedBy("memory")' = AdmittedBy("memory")
          /\ settled' = [settled EXCEPT ![q] = now]
      BY <2>1, <3>1, SettleAdmits DEF Limiters
    <3>3. \A p \in AdmittedBy("memory") : settled'[p] = settled[p] /\ via'[p] = via[p]
      BY <2>2, <3>2 DEF TypeOK
    <3> QED BY <2>1, <3>1, <3>2, <3>3, LocalKept DEF LocalInv
  <2>5. CASE state' = [state EXCEPT ![q] = "asked"] /\ UNCHANGED <<by, settled, local>>
    <3>1. AdmittedBy("memory")' = AdmittedBy("memory")
      BY <2>1, <2>5 DEF AdmittedBy, TypeOK
    <3>2. \A p \in AdmittedBy("memory") : settled'[p] = settled[p] /\ via'[p] = via[p]
      BY <2>2, <2>5
    <3> QED BY <2>1, <2>5, <3>1, <3>2, LocalKept DEF LocalInv
  <2> QED BY <1>1, <2>3, <2>4, <2>5 DEF Arrive, Ask
<1>2. ASSUME NEW q \in Requests, Answer(q) PROVE LocalInv'
  <2>1. state[q] = "asked" /\ UNCHANGED <<now, via, local>>
    BY <1>2 DEF Answer
  <2>2. \E o \in {"ok", "refused"} : \E s : Settle(q, o, "redis", s)
    BY <1>2 DEF Answer
  <2>3. /\ AdmittedBy("memory")' = AdmittedBy("memory") /\ q \notin AdmittedBy("memory")
        /\ settled' = [settled EXCEPT ![q] = now]
    BY <2>1, <2>2, SettleAdmits DEF Limiters
  <2>4. \A p \in AdmittedBy("memory") : settled'[p] = settled[p] /\ via'[p] = via[p]
    BY <2>1, <2>3 DEF TypeOK, AdmittedBy
  <2> QED BY <2>1, <2>3, <2>4, LocalKept DEF LocalInv
<1>3. ASSUME NEW q \in Requests, Fallback(q) PROVE LocalInv'
  <2>1. state[q] = "asked" /\ InProcess(q, via[q]) /\ UNCHANGED <<now, via>>
    BY <1>3 DEF Fallback
  <2>2. via[q] \in Replicas
    BY DEF TypeOK
  <2> QED BY <2>1, <2>2, InProcessKeeps
<1>4. CASE UNCHANGED <<now, state, by, settled, via, local>>
  <2>1. AdmittedBy("memory")' = AdmittedBy("memory")
    BY <1>4 DEF AdmittedBy
  <2> QED BY <1>4, <2>1, LocalKept DEF LocalInv
<1>5. ASSUME NEW r \in Replicas, Sweep(r) PROVE LocalInv'
  <2>1. /\ UNCHANGED <<now, state, by, settled, via>>
        /\ \A s \in Replicas : local'[s] = IF s = r THEN {} ELSE local[s]
        /\ \A p \in local[r] : settled[p] <= now - Window
    BY <1>5 DEF Sweep, TypeOK
  <2>2. AdmittedBy("memory")' = AdmittedBy("memory")
    BY <2>1 DEF AdmittedBy
  <2>3. ASSUME NEW p \in AdmittedBy("memory"), now - settled[p] < Window
        PROVE  p \in local'[via[p]]
    <3>1. p \in local[via[p]] /\ via[p] \in Replicas /\ settled[p] \in Nat /\ now \in Nat
          /\ Window \in Nat
      BY <2>3, RateAssumption DEF LocalInv, AdmittedBy, TypeOK
    <3>2. via[p] # r
      BY <2>1, <2>3, <3>1
    <3> QED BY <2>1, <3>1, <3>2
  <2> QED BY <2>1, <2>2, <2>3, LocalKept
<1>6. CASE Elapse
  <2>1. now' = now + 1 /\ UNCHANGED <<state, by, settled, via, local>>
    BY <1>6 DEF Elapse
  <2>2. AdmittedBy("memory")' = AdmittedBy("memory")
    BY <2>1 DEF AdmittedBy
  <2>3. ASSUME NEW p \in AdmittedBy("memory"), now' - settled[p] < Window
        PROVE  p \in local'[via[p]]
    <3>1. settled[p] \in Nat /\ now \in Nat /\ Window \in Nat /\ now' = now + 1
      BY <2>1, RateAssumption DEF AdmittedBy, TypeOK
    <3>2. now - settled[p] < Window
      BY <2>3, <3>1
    <3> QED BY <2>1, <3>2 DEF LocalInv
  <2> QED BY <2>1, <2>2, <2>3, LocalKept
<1> QED
  BY <1>1, <1>2, <1>3, <1>4, <1>5, <1>6 DEF Next, LoseReply, SweepPoll, Expire, Idle

-----------------------------------------------------------------------------
\* A poll that passed is in the bucket of its replica until its window is over;
\* only an undecided request is still nobody's.
PollInv ==
    /\ \A q \in Requests : state[q] \in {"new", "asked"} => by[q] = Nobody
    /\ \A r \in Replicas : \A q \in PollsPassed(r) : now - asked[q] < Window => q \in poll[r]
    /\ \A r \in Replicas, t \in Int :
          Cardinality(From(PollsPassed(r), asked, t, Window)) <= PollBudget

LEMMA PollInit == Init => PollInv
<1> SUFFICES ASSUME Init PROVE PollInv
  OBVIOUS
<1>1. \A r : PollsPassed(r) = {}
  BY DEF Init, PollsPassed
<1>2. \A t : From({}, asked, t, Window) = {}
  BY DEF From
<1>3. Cardinality({}) = 0 /\ 0 <= PollBudget
  BY FS_EmptySet, RateAssumption
<1>4. \A r, t : Cardinality(From(PollsPassed(r), asked, t, Window)) = 0
  BY <1>1, <1>2, <1>3
<1> QED BY <1>1, <1>3, <1>4 DEF Init, PollInv

\* A step that lets no poll pass keeps PollInv, if it dates none anew and takes none
\* from its bucket before its time.
LEMMA PollKept ==
    ASSUME PollInv, \A q \in Requests : state'[q] \in {"new", "asked"} => by'[q] = Nobody,
           \A r \in Replicas : PollsPassed(r)' = PollsPassed(r),
           \A r \in Replicas : \A p \in PollsPassed(r) : asked'[p] = asked[p],
           \A r \in Replicas : \A p \in PollsPassed(r) :
               now' - asked[p] < Window => p \in poll'[r]
    PROVE  PollInv'
<1>1. \A r \in Replicas : \A t :
         From(PollsPassed(r), asked', t, Window) = From(PollsPassed(r), asked, t, Window)
  BY WindowStays
<1>2. \A r \in Replicas : \A t :
         From(PollsPassed(r), asked, t, Window)' = From(PollsPassed(r), asked, t, Window)
  BY <1>1 DEF From
<1>3. \A r \in Replicas, t \in Int :
         Cardinality(From(PollsPassed(r), asked, t, Window)') <= PollBudget
  BY <1>2 DEF PollInv
<1>4. \A r \in Replicas : \A q \in PollsPassed(r)' : now' - asked'[q] < Window => q \in poll'[r]
  OBVIOUS
<1> QED BY <1>3, <1>4 DEF PollInv

\* What an arrival makes of the request itself, and that it leaves the others alone.
LEMMA ArriveChanges ==
    ASSUME TypeOK, PollInv, NEW q \in Requests, NEW r \in Replicas, NEW k \in Kinds,
           Arrive(q, r, k)
    PROVE  /\ \A p \in Requests : p # q =>
                 /\ state'[p] = state[p] /\ by'[p] = by[p]
                 /\ kind'[p] = kind[p] /\ via'[p] = via[p] /\ asked'[p] = asked[p]
           /\ kind'[q] = k /\ via'[q] = r /\ asked'[q] = now /\ now' = now
           /\ state[q] = "new" /\ state'[q] # "new"
           /\ state'[q] = "asked" => by'[q] = Nobody
           /\ \/ Throttle(q, r) /\ by'[q] = "poll"
              \/ PassPoll(q, r, k) /\ by'[q] # "poll"
<1>1. /\ state[q] = "new" /\ by[q] = Nobody
      /\ kind' = [kind EXCEPT ![q] = k] /\ via' = [via EXCEPT ![q] = r]
      /\ asked' = [asked EXCEPT ![q] = now] /\ now' = now
  BY DEF Arrive, PollInv
<1>2. \/ /\ Throttle(q, r)
         /\ state' = [state EXCEPT ![q] = "refused"] /\ by' = [by EXCEPT ![q] = "poll"]
      \/ /\ PassPoll(q, r, k)
         /\ \/ state' = [state EXCEPT ![q] = "asked"] /\ by' = by
            \/ /\ \E o \in {"ok", "refused"} : state' = [state EXCEPT ![q] = o]
               /\ by' = [by EXCEPT ![q] = "memory"]
  BY DEF Arrive, Throttle, Ask, InProcess, Settle, decided
<1> QED BY <1>1, <1>2 DEF TypeOK, Nobody

LEMMA PollStep == TypeOK /\ Timely /\ PollInv /\ [Next]_vars => PollInv'
<1> SUFFICES ASSUME TypeOK, Timely, PollInv, [Next]_vars PROVE PollInv'
  OBVIOUS
<1> USE DEF vars, decided, arrived
<1>1. ASSUME NEW q \in Requests, NEW r \in Replicas, NEW k \in Kinds, Arrive(q, r, k)
      PROVE  PollInv'
  <2> DEFINE live == Live(poll[r], asked, now)
  <2>1. /\ \A p \in Requests : p # q =>
              /\ state'[p] = state[p] /\ by'[p] = by[p]
              /\ kind'[p] = kind[p] /\ via'[p] = via[p] /\ asked'[p] = asked[p]
        /\ kind'[q] = k /\ via'[q] = r /\ asked'[q] = now /\ now' = now
        /\ state[q] = "new" /\ state'[q] # "new"
        /\ state'[q] = "asked" => by'[q] = Nobody
        /\ \/ Throttle(q, r) /\ by'[q] = "poll"
           \/ PassPoll(q, r, k) /\ by'[q] # "poll"
    BY <1>1, ArriveChanges
  <2>2. \A p \in Requests : state'[p] \in {"new", "asked"} => by'[p] = Nobody
    BY <2>1 DEF PollInv
  <2>3. \A s : q \notin PollsPassed(s) /\ PollsPassed(s) \subseteq Requests
    BY <2>1 DEF PollsPassed
  <2>4. \A s, p : p \in PollsPassed(s) => asked'[p] = asked[p]
    BY <2>1, <2>3
  <2>5. ASSUME NEW p \in PollsPassed(r), now - asked[p] < Window PROVE p \in live
    <3>1. p \in poll[r]
      BY <2>5 DEF PollInv
    <3>2. asked[p] \in Nat /\ now \in Nat /\ Window \in Nat
      BY <2>3, RateAssumption DEF TypeOK
    <3> QED BY <2>5, <3>1, <3>2 DEF Live
  <2>6. live \in SUBSET Requests
    BY LiveIsPart DEF TypeOK
  <2>7. CASE Throttle(q, r) /\ by'[q] = "poll"
    <3>1. \A s : PollsPassed(s)' = PollsPassed(s)
      BY <2>1, <2>3, <2>7 DEF PollsPassed
    <3>2. \A s \in Replicas : poll'[s] = IF s = r THEN live ELSE poll[s]
      BY <2>7 DEF Throttle, TypeOK
    <3>3. \A s \in Replicas : \A p \in PollsPassed(s) :
             now - asked[p] < Window => p \in poll'[s]
      BY <2>5, <3>2 DEF PollInv
    <3> QED BY <2>1, <2>2, <2>4, <3>1, <3>3, PollKept
  <2>8. CASE k # "poll" /\ poll' = poll
    <3>1. \A s : PollsPassed(s)' = PollsPassed(s)
      BY <2>1, <2>3, <2>8 DEF PollsPassed
    <3> QED BY <2>1, <2>2, <2>4, <2>8, <3>1, PollKept DEF PollInv
  <2>9. CASE /\ k = "poll" /\ HasRoom(live, PollBudget) /\ by'[q] # "poll"
             /\ poll' = [poll EXCEPT ![r] = live \cup {q}]
    <3>1. /\ PollsPassed(r)' = PollsPassed(r) \cup {q}
          /\ \A s : s # r => PollsPassed(s)' = PollsPassed(s)
      BY <2>1, <2>3, <2>9 DEF PollsPassed
    <3>2. \A s \in Replicas : poll'[s] = IF s = r THEN live \cup {q} ELSE poll[s]
      BY <2>9 DEF TypeOK
    <3>3. ASSUME NEW s \in Replicas, NEW p \in PollsPassed(s)', now - asked'[p] < Window
          PROVE  p \in poll'[s]
      <4>1. CASE s = r
        BY <2>4, <2>5, <3>1, <3>2, <3>3, <4>1
      <4>2. CASE s # r
        BY <2>4, <3>1, <3>2, <3>3, <4>2 DEF PollInv
      <4> QED BY <4>1, <4>2
    <3>4. ASSUME NEW s \in Replicas, NEW t \in Int
          PROVE  Cardinality(From(PollsPassed(s), asked, t, Window)') <= PollBudget
      <4>1. /\ From(PollsPassed(s), asked', t, Window) = From(PollsPassed(s), asked, t, Window)
            /\ Cardinality(From(PollsPassed(s), asked, t, Window)) <= PollBudget
        BY <2>4, WindowStays DEF PollInv
      <4>2. CASE s # r
        <5>1. From(PollsPassed(s), asked, t, Window)' = From(PollsPassed(s), asked', t, Window)
          BY <3>1, <4>2 DEF From
        <5> QED BY <4>1, <5>1
      <4>3. CASE s = r
        <5>1. From(PollsPassed(s), asked, t, Window)'
                = From(PollsPassed(r) \cup {q}, asked', t, Window)
          BY <3>1, <4>3 DEF From
        <5>2. /\ PollsPassed(r) \in SUBSET Requests /\ asked'[q] = now /\ now \in Nat
              /\ Window \in Nat /\ PollBudget \in Nat \ {0}
          BY <2>1, <2>3, RateAssumption DEF TypeOK
        <5>3. ASSUME t <= now, now < t + Window, NEW p \in From(PollsPassed(r), asked, t, Window)
              PROVE  p \in live
          <6>1. p \in PollsPassed(r) /\ t <= asked[p] /\ asked[p] \in Nat
            BY <2>3 DEF From, TypeOK
          <6>2. now - asked[p] < Window
            BY <5>2, <5>3, <6>1
          <6> QED BY <2>5, <6>1, <6>2
        <5>4. t <= asked'[q] /\ asked'[q] < t + Window
                => From(PollsPassed(r), asked', t, Window) \subseteq live
          BY <4>1, <4>3, <5>2, <5>3
        <5>5. asked'[q] \in Nat /\ Cardinality(From(PollsPassed(r), asked', t, Window)) <= PollBudget
          BY <4>1, <4>3, <5>2
        <5>6. Cardinality(From(PollsPassed(r) \cup {q}, asked', t, Window)) <= PollBudget
          BY <2>6, <2>9, <5>2, <5>4, <5>5, WindowGrows
        <5> QED BY <5>1, <5>6
      <4> QED BY <4>2, <4>3
    <3>5. now' = now
      BY <2>1
    <3> QED BY <2>2, <3>3, <3>4, <3>5 DEF PollInv
  <2> QED BY <2>1, <2>7, <2>8, <2>9 DEF PassPoll
<1>2. ASSUME NEW q \in Requests, Answer(q) \/ Fallback(q) PROVE PollInv'
  <2>1. /\ state[q] = "asked" /\ UNCHANGED <<now, kind, via, asked, poll>>
        /\ \E o \in {"ok", "refused"}, l \in {"redis", "memory"} : \E s : Settle(q, o, l, s)
    BY <1>2 DEF Answer, Fallback, InProcess
  <2>2. /\ \A p \in Requests : p # q => state'[p] = state[p] /\ by'[p] = by[p]
        /\ state'[q] \in {"ok", "refused"} /\ by'[q] \in {"redis", "memory"} /\ by[q] = Nobody
    BY <2>1 DEF Settle, TypeOK, PollInv
  <2>3. \A s : PollsPassed(s)' = PollsPassed(s)
    BY <2>1, <2>2 DEF PollsPassed, Nobody
  <2> QED BY <2>1, <2>2, <2>3, PollKept DEF PollInv
<1>3. CASE UNCHANGED <<now, state, by, kind, via, asked, poll>>
  <2>1. \A s : PollsPassed(s)' = PollsPassed(s)
    BY <1>3 DEF PollsPassed
  <2> QED BY <1>3, <2>1, PollKept DEF PollInv
<1>4. ASSUME NEW r \in Replicas, SweepPoll(r) PROVE PollInv'
  <2>1. /\ UNCHANGED <<now, state, by, kind, via, asked>>
        /\ \A s \in Replicas : poll'[s] = IF s = r THEN {} ELSE poll[s]
        /\ \A p \in poll[r] : asked[p] <= now - Window
    BY <1>4 DEF SweepPoll, TypeOK
  <2>2. \A s : PollsPassed(s)' = PollsPassed(s)
    BY <2>1 DEF PollsPassed
  <2>3. ASSUME NEW s \in Replicas, NEW p \in PollsPassed(s), now - asked[p] < Window
        PROVE  p \in poll'[s]
    <3>1. p \in poll[s] /\ asked[p] \in Nat /\ now \in Nat /\ Window \in Nat
      BY <2>3, RateAssumption DEF PollInv, PollsPassed, TypeOK
    <3>2. s # r
      BY <2>1, <2>3, <3>1
    <3> QED BY <2>1, <3>1, <3>2
  <2> QED BY <2>1, <2>2, <2>3, PollKept DEF PollInv
<1>5. CASE Elapse
  <2>1. now' = now + 1 /\ UNCHANGED <<state, by, kind, via, asked, poll>>
    BY <1>5 DEF Elapse
  <2>2. \A s : PollsPassed(s)' = PollsPassed(s)
    BY <2>1 DEF PollsPassed
  <2>3. ASSUME NEW s \in Replicas, NEW p \in PollsPassed(s), now' - asked[p] < Window
        PROVE  p \in poll'[s]
    <3>1. asked[p] \in Nat /\ now \in Nat /\ Window \in Nat /\ now' = now + 1
      BY <2>1, RateAssumption DEF PollsPassed, TypeOK
    <3>2. now - asked[p] < Window
      BY <2>3, <3>1
    <3> QED BY <2>1, <3>2 DEF PollInv
  <2> QED BY <2>1, <2>2, <2>3, PollKept DEF PollInv
<1> QED
  BY <1>1, <1>2, <1>3, <1>4, <1>5 DEF Next, LoseReply, Sweep, Expire, Idle

\* No replica admits more than its budgets in any whole window of its own, whatever
\* the sweepers do and whenever Redis is away.
THEOREM LocalQuota == Spec => []LocalWindowBounded
<1>1. TypeOK /\ LocalInv /\ PollInv => LocalWindowBounded
  BY DEF TypeOK, LocalInv, PollInv, LocalWindowBounded, MemoryOf
<1> QED BY <1>1, TypeInit, TypeStep, TimelyInit, TimelyStep, LocalInit, LocalStep,
           PollInit, PollStep, PTL DEF Spec

-----------------------------------------------------------------------------
\* The hits by which the refusal of q is judged.
MemoryBefore(q) ==
    {p \in AdmittedBy("memory") :
        via[p] = via[q] /\ settled[p] \in settled[q] - Window + 1 .. settled[q]}

PollsBefore(q) ==
    {p \in PollsPassed(via[q]) : asked[p] \in asked[q] - Window + 1 .. asked[q]}

\* A bucket holds nothing but hits of its own: what a check finds full was filled by
\* requests that its own replica let pass.
CauseInv ==
    /\ \A r \in Replicas : local[r] \subseteq MemoryOf(r) /\ poll[r] \subseteq PollsPassed(r)
    /\ RefusalsJustified

LEMMA CauseInit == Init => CauseInv
BY DEF Init, CauseInv, RefusalsJustified

\* A set that holds what a check found full is no smaller than the budget.
LEMMA FullBefore ==
    ASSUME NEW before \in SUBSET Requests, NEW live \in SUBSET before, NEW budget \in Nat,
           ~HasRoom(live, budget)
    PROVE  Cardinality(before) >= budget
<1>1. IsFiniteSet(before)
  BY RateAssumption, FS_Subset
<1>2. Cardinality(live) <= Cardinality(before) /\ IsFiniteSet(live)
  BY <1>1, FS_Subset
<1> QED BY <1>1, <1>2, FS_CardinalityType DEF HasRoom

\* A step keeps CauseInv if what was let pass stays passed, with its dates, if the
\* buckets hold hits of their own, and if whoever it refuses met a full bucket.
LEMMA CauseKept ==
    ASSUME CauseInv,
           \A p \in AdmittedBy("memory") :
               p \in AdmittedBy("memory")' /\ via'[p] = via[p] /\ settled'[p] = settled[p],
           \A r \in Replicas : \A p \in PollsPassed(r) :
               p \in PollsPassed(r)' /\ asked'[p] = asked[p],
           \A r \in Replicas :
               local'[r] \subseteq MemoryOf(r)' /\ poll'[r] \subseteq PollsPassed(r)',
           \A q \in Requests : state'[q] = "refused" =>
               \/ /\ state[q] = "refused" /\ via[q] \in Replicas
                  /\ by'[q] = by[q] /\ via'[q] = via[q]
                  /\ settled'[q] = settled[q] /\ asked'[q] = asked[q]
               \/ by'[q] = "redis"
               \/ /\ by'[q] = "memory"
                  /\ \E live \in SUBSET MemoryBefore(q)' : ~HasRoom(live, Budget)
               \/ /\ by'[q] = "poll"
                  /\ \E live \in SUBSET PollsBefore(q)' : ~HasRoom(live, PollBudget)
    PROVE  CauseInv'
<1> SUFFICES ASSUME NEW q \in Requests, state'[q] = "refused"
             PROVE  /\ by'[q] = "memory" => Cardinality(MemoryBefore(q)') >= Budget
                    /\ by'[q] = "poll" => Cardinality(PollsBefore(q)') >= PollBudget
  BY DEF CauseInv, RefusalsJustified, MemoryBefore, PollsBefore
<1>1. /\ MemoryBefore(q) \in SUBSET Requests /\ PollsBefore(q) \in SUBSET Requests
      /\ MemoryBefore(q)' \in SUBSET Requests /\ PollsBefore(q)' \in SUBSET Requests
  BY DEF MemoryBefore, PollsBefore, AdmittedBy, PollsPassed
<1>2. Budget \in Nat /\ PollBudget \in Nat
  BY RateAssumption
<1>3. CASE /\ state[q] = "refused" /\ via[q] \in Replicas
           /\ by'[q] = by[q] /\ via'[q] = via[q]
           /\ settled'[q] = settled[q] /\ asked'[q] = asked[q]
  <2>1. MemoryBefore(q) \subseteq MemoryBefore(q)' /\ PollsBefore(q) \subseteq PollsBefore(q)'
    BY <1>3 DEF MemoryBefore, PollsBefore
  <2>2. /\ by[q] = "memory" => Cardinality(MemoryBefore(q)) >= Budget
        /\ by[q] = "poll" => Cardinality(PollsBefore(q)) >= PollBudget
    BY <1>3 DEF CauseInv, RefusalsJustified, MemoryBefore, PollsBefore
  <2>3. /\ by[q] = "memory" => ~HasRoom(MemoryBefore(q), Budget)
        /\ by[q] = "poll" => ~HasRoom(PollsBefore(q), PollBudget)
    <3>1. /\ IsFiniteSet(MemoryBefore(q)) /\ IsFiniteSet(PollsBefore(q))
      BY <1>1, RateAssumption, FS_Subset
    <3>2. Cardinality(MemoryBefore(q)) \in Nat /\ Cardinality(PollsBefore(q)) \in Nat
      BY <3>1, FS_CardinalityType
    <3> QED BY <1>2, <2>2, <3>2 DEF HasRoom
  <2>4. by[q] = "memory" => Cardinality(MemoryBefore(q)') >= Budget
    BY <1>1, <1>2, <2>1, <2>3, FullBefore
  <2>5. by[q] = "poll" => Cardinality(PollsBefore(q)') >= PollBudget
    BY <1>1, <1>2, <2>1, <2>3, FullBefore
  <2> QED BY <1>3, <2>4, <2>5
<1>4. CASE by'[q] = "redis"
  BY <1>4
<1>5. CASE /\ by'[q] = "memory"
           /\ \E live \in SUBSET MemoryBefore(q)' : ~HasRoom(live, Budget)
  <2>1. Cardinality(MemoryBefore(q)') >= Budget
    BY <1>1, <1>2, <1>5, FullBefore
  <2> QED BY <1>5, <2>1
<1>6. CASE /\ by'[q] = "poll"
           /\ \E live \in SUBSET PollsBefore(q)' : ~HasRoom(live, PollBudget)
  <2>1. Cardinality(PollsBefore(q)') >= PollBudget
    BY <1>1, <1>2, <1>6, FullBefore
  <2> QED BY <1>6, <2>1
<1> QED BY <1>3, <1>4, <1>5, <1>6

\* A check of an undecided request in its process: hits stay its own, and what it
\* finds full lies within the window that ends now.
LEMMA InProcessCauses ==
    ASSUME TypeOK, Timely, CauseInv, NEW q \in Requests, NEW r \in Replicas,
           state[q] \in {"new", "asked"}, InProcess(q, r), now' = now,
           via'[q] = r, \A p \in Requests : p # q => via'[p] = via[p]
    PROVE  /\ \A p \in Requests : p # q =>
                 state'[p] = state[p] /\ by'[p] = by[p] /\ settled'[p] = settled[p]
           /\ by'[q] = "memory" /\ state'[q] \in {"ok", "refused"}
           /\ \A p \in AdmittedBy("memory") :
                 p \in AdmittedBy("memory")' /\ via'[p] = via[p] /\ settled'[p] = settled[p]
           /\ \A s \in Replicas : local'[s] \subseteq MemoryOf(s)'
           /\ state'[q] = "refused" =>
                 \E live \in SUBSET MemoryBefore(q)' : ~HasRoom(live, Budget)
<1> DEFINE live == Live(local[r], settled, now)
<1>1. /\ \E o \in {"ok", "refused"} : \E s : Settle(q, o, "memory", s)
      /\ local' = [local EXCEPT ![r] = live \cup {q}] \/ local' = [local EXCEPT ![r] = live]
      /\ local' = [local EXCEPT ![r] = live \cup {q}] => state' = [state EXCEPT ![q] = "ok"]
         \/ local' = [local EXCEPT ![r] = live]
  BY DEF InProcess, Settle
<1>2. /\ \A p \in Requests : p # q =>
            state'[p] = state[p] /\ by'[p] = by[p] /\ settled'[p] = settled[p]
      /\ by'[q] = "memory" /\ state'[q] \in {"ok", "refused"} /\ settled'[q] = now
  BY <1>1 DEF Settle, TypeOK
<1>3. q \notin AdmittedBy("memory") /\ AdmittedBy("memory") \subseteq Requests
  BY DEF AdmittedBy
<1>4. \A p \in AdmittedBy("memory") :
         p \in AdmittedBy("memory")' /\ via'[p] = via[p] /\ settled'[p] = settled[p]
  BY <1>2, <1>3 DEF AdmittedBy
<1>5. \A s \in Replicas : MemoryOf(s) \subseteq MemoryOf(s)'
  BY <1>4 DEF MemoryOf
<1>6. live \subseteq MemoryOf(r)
  BY DEF Live, CauseInv
<1>7. \A s \in Replicas : local'[s] \subseteq MemoryOf(s)'
  <2>1. CASE local' = [local EXCEPT ![r] = live]
    <3>1. \A s \in Replicas : local'[s] = IF s = r THEN live ELSE local[s]
      BY <2>1 DEF TypeOK
    <3> QED BY <1>5, <1>6, <3>1 DEF CauseInv
  <2>2. CASE local' = [local EXCEPT ![r] = live \cup {q}] /\ state' = [state EXCEPT ![q] = "ok"]
    <3>1. \A s \in Replicas : local'[s] = IF s = r THEN live \cup {q} ELSE local[s]
      BY <2>2 DEF TypeOK
    <3>2. state'[q] = "ok"
      BY <2>2 DEF TypeOK
    <3>3. q \in MemoryOf(r)'
      BY <1>2, <3>2 DEF MemoryOf, AdmittedBy
    <3> QED BY <1>5, <1>6, <3>1, <3>3 DEF CauseInv
  <2> QED BY <1>1, <2>1, <2>2
<1>8. ASSUME state'[q] = "refused"
      PROVE  \E l \in SUBSET MemoryBefore(q)' : ~HasRoom(l, Budget)
  <2>1. ~HasRoom(live, Budget)
    BY <1>8 DEF InProcess, Settle, TypeOK
  <2>2. ASSUME NEW p \in live PROVE p \in MemoryBefore(q)'
    <3>1. /\ p \in local[r] /\ settled[p] > now - Window
          /\ p \in AdmittedBy("memory") /\ via[p] = r
      BY <1>6 DEF Live, MemoryOf
    <3>2. settled[p] <= now /\ settled[p] \in Nat /\ now \in Nat /\ Window \in Nat
      BY <1>3, <3>1, RateAssumption DEF Timely, TypeOK
    <3>3. settled[p] \in now - Window + 1 .. now
      BY <3>1, <3>2
    <3> QED BY <1>2, <1>4, <3>1, <3>3 DEF MemoryBefore
  <2>3. live \in SUBSET MemoryBefore(q)'
    BY <2>2
  <2> QED BY <2>1, <2>3
<1> QED BY <1>2, <1>4, <1>7, <1>8

\* An arrival: the polls let pass stay, buckets hold hits of their own, and a poll is
\* throttled by polls alone.
LEMMA ArriveCauses ==
    ASSUME TypeOK, Timely, PollInv, CauseInv, NEW q \in Requests, NEW r \in Replicas,
           NEW k \in Kinds, Arrive(q, r, k)
    PROVE  CauseInv'
<1> DEFINE live == Live(poll[r], asked, now)
<1>1. /\ \A p \in Requests : p # q =>
            /\ state'[p] = state[p] /\ by'[p] = by[p]
            /\ kind'[p] = kind[p] /\ via'[p] = via[p] /\ asked'[p] = asked[p]
      /\ kind'[q] = k /\ via'[q] = r /\ asked'[q] = now /\ now' = now
      /\ state[q] = "new" /\ state'[q] # "new"
      /\ \/ Throttle(q, r) /\ by'[q] = "poll"
         \/ PassPoll(q, r, k) /\ by'[q] # "poll"
  BY ArriveChanges
<1>2. \A p \in Requests : p # q => settled'[p] = settled[p]
  BY DEF Arrive, Throttle, Ask, InProcess, Settle, decided, TypeOK
<1>3. \A s : \A p \in PollsPassed(s) : p \in PollsPassed(s)' /\ asked'[p] = asked[p]
  BY <1>1 DEF PollsPassed
<1>4. live \subseteq PollsPassed(r)
  BY DEF Live, CauseInv
<1>5. \A s \in Replicas : poll'[s] \subseteq PollsPassed(s)'
  <2>1. CASE poll' = [poll EXCEPT ![r] = live]
    <3>1. \A s \in Replicas : poll'[s] = IF s = r THEN live ELSE poll[s]
      BY <2>1 DEF TypeOK
    <3> QED BY <1>3, <1>4, <3>1 DEF CauseInv
  <2>2. CASE k = "poll" /\ by'[q] # "poll" /\ poll' = [poll EXCEPT ![r] = live \cup {q}]
    <3>1. \A s \in Replicas : poll'[s] = IF s = r THEN live \cup {q} ELSE poll[s]
      BY <2>2 DEF TypeOK
    <3>2. q \in PollsPassed(r)'
      BY <1>1, <2>2 DEF PollsPassed
    <3> QED BY <1>3, <1>4, <3>1, <3>2 DEF CauseInv
  <2>3. CASE poll' = poll
    BY <1>3, <2>3 DEF CauseInv
  <2> QED BY <1>1, <2>1, <2>2, <2>3 DEF Throttle, PassPoll
<1>6. \A p \in Requests : p # q /\ state'[p] = "refused" =>
         /\ state[p] = "refused" /\ via[p] \in Replicas
         /\ by'[p] = by[p] /\ via'[p] = via[p]
         /\ settled'[p] = settled[p] /\ asked'[p] = asked[p]
  BY <1>1, <1>2 DEF TypeOK
<1>7. CASE InProcess(q, r)
  <2>1. /\ by'[q] = "memory"
        /\ \A p \in AdmittedBy("memory") :
              p \in AdmittedBy("memory")' /\ via'[p] = via[p] /\ settled'[p] = settled[p]
        /\ \A s \in Replicas : local'[s] \subseteq MemoryOf(s)'
        /\ state'[q] = "refused" =>
              \E l \in SUBSET MemoryBefore(q)' : ~HasRoom(l, Budget)
    BY <1>1, <1>7, InProcessCauses
  <2> QED BY <1>3, <1>5, <1>6, <2>1, CauseKept
<1>8. CASE ~InProcess(q, r)
  <2>1. local' = local
    BY <1>8 DEF Arrive, Throttle, Ask
  <2>2. \A p \in AdmittedBy("memory") :
           p \in AdmittedBy("memory")' /\ via'[p] = via[p] /\ settled'[p] = settled[p]
    BY <1>1, <1>2 DEF AdmittedBy
  <2>3. \A s \in Replicas : local'[s] \subseteq MemoryOf(s)'
    BY <2>1, <2>2 DEF CauseInv, MemoryOf
  <2>4. ASSUME state'[q] = "refused"
        PROVE  by'[q] = "poll" /\ \E l \in SUBSET PollsBefore(q)' : ~HasRoom(l, PollBudget)
    <3>1. Throttle(q, r)
      BY <1>8, <2>4 DEF Arrive, Ask, TypeOK
    <3>2. by'[q] = "poll" /\ ~HasRoom(live, PollBudget)
      BY <3>1 DEF Throttle, Settle, TypeOK
    <3>3. ASSUME NEW p \in live PROVE p \in PollsBefore(q)'
      <4>1. /\ p \in PollsPassed(r) /\ p \in Requests /\ asked[p] > now - Window
            /\ p \in PollsPassed(r)' /\ asked'[p] = asked[p]
        BY <1>3, <1>4 DEF Live, PollsPassed
      <4>2. asked[p] <= now /\ asked[p] \in Nat /\ now \in Nat /\ Window \in Nat
        BY <4>1, RateAssumption DEF Timely, TypeOK
      <4>3. asked[p] \in now - Window + 1 .. now
        BY <4>1, <4>2
      <4>4. PollsBefore(q)' = {o \in PollsPassed(r)' : asked'[o] \in now - Window + 1 .. now}
        BY <1>1 DEF PollsBefore, PollsPassed
      <4> QED BY <4>1, <4>3, <4>4
    <3>4. live \in SUBSET PollsBefore(q)'
      BY <3>3
    <3> QED BY <3>2, <3>4
  <2> QED BY <1>3, <1>5, <1>6, <2>2, <2>3, <2>4, CauseKept
<1> QED BY <1>7, <1>8

LEMMA CauseStep ==
    TypeOK /\ Timely /\ PollInv /\ CauseInv /\ [Next]_vars => CauseInv'
<1> SUFFICES ASSUME TypeOK, Timely, PollInv, CauseInv, [Next]_vars PROVE CauseInv'
  OBVIOUS
<1> USE DEF vars, decided, arrived
\* A step that decides nothing and does not touch what buckets and requests stand for.
<1>1. ASSUME UNCHANGED <<state, by, kind, via, asked, settled>>,
             \A r \in Replicas : local'[r] \subseteq local[r] /\ poll'[r] \subseteq poll[r]
      PROVE  CauseInv'
  <2>1. /\ AdmittedBy("memory")' = AdmittedBy("memory")
        /\ \A r : PollsPassed(r)' = PollsPassed(r) /\ MemoryOf(r)' = MemoryOf(r)
    BY <1>1 DEF AdmittedBy, PollsPassed, MemoryOf
  <2>2. \A r \in Replicas :
           local'[r] \subseteq MemoryOf(r)' /\ poll'[r] \subseteq PollsPassed(r)'
    BY <1>1, <2>1 DEF CauseInv
  <2>3. \A p \in Requests : via[p] \in Replicas
    BY DEF TypeOK
  <2> QED BY <1>1, <2>1, <2>2, <2>3, CauseKept
<1>2. ASSUME NEW q \in Requests, NEW r \in Replicas, NEW k \in Kinds, Arrive(q, r, k)
      PROVE  CauseInv'
  BY <1>2, ArriveCauses
<1>3. ASSUME NEW q \in Requests, Answer(q) PROVE CauseInv'
  <2>1. /\ state[q] = "asked" /\ UNCHANGED <<kind, via, asked, local, poll>>
        /\ \E o \in {"ok", "refused"} : \E s : Settle(q, o, "redis", s)
    BY <1>3 DEF Answer
  <2>2. /\ \A p \in Requests : p # q =>
              state'[p] = state[p] /\ by'[p] = by[p] /\ settled'[p] = settled[p]
        /\ by'[q] = "redis" /\ state'[q] \in {"ok", "refused"}
    BY <2>1 DEF Settle, TypeOK
  <2>3. \A p \in AdmittedBy("memory") :
           p \in AdmittedBy("memory")' /\ via'[p] = via[p] /\ settled'[p] = settled[p]
    BY <2>1, <2>2 DEF AdmittedBy
  <2>4. \A r : \A p \in PollsPassed(r) : p \in PollsPassed(r)' /\ asked'[p] = asked[p]
    BY <2>1, <2>2 DEF PollsPassed
  <2>5. \A r \in Replicas :
           local'[r] \subseteq MemoryOf(r)' /\ poll'[r] \subseteq PollsPassed(r)'
    BY <2>1, <2>3, <2>4 DEF CauseInv, MemoryOf
  <2>6. \A p \in Requests : via[p] \in Replicas
    BY DEF TypeOK
  <2> QED BY <2>1, <2>2, <2>3, <2>4, <2>5, <2>6, CauseKept
<1>4. ASSUME NEW q \in Requests, Fallback(q) PROVE CauseInv'
  <2>1. state[q] = "asked" /\ InProcess(q, via[q]) /\ UNCHANGED <<now, kind, via, asked, poll>>
    BY <1>4 DEF Fallback
  <2>2. \A p \in Requests : via[p] \in Replicas
    BY DEF TypeOK
  <2>3. /\ \A p \in Requests : p # q =>
              state'[p] = state[p] /\ by'[p] = by[p] /\ settled'[p] = settled[p]
        /\ by'[q] = "memory" /\ state'[q] \in {"ok", "refused"}
        /\ \A p \in AdmittedBy("memory") :
              p \in AdmittedBy("memory")' /\ via'[p] = via[p] /\ settled'[p] = settled[p]
        /\ \A s \in Replicas : local'[s] \subseteq MemoryOf(s)'
        /\ state'[q] = "refused" =>
              \E live \in SUBSET MemoryBefore(q)' : ~HasRoom(live, Budget)
    BY <2>1, <2>2, InProcessCauses
  <2>4. \A r : \A p \in PollsPassed(r) : p \in PollsPassed(r)' /\ asked'[p] = asked[p]
    BY <2>1, <2>3 DEF PollsPassed
  <2>5. \A r \in Replicas : poll'[r] \subseteq PollsPassed(r)'
    BY <2>1, <2>4 DEF CauseInv
  <2> QED BY <2>1, <2>2, <2>3, <2>4, <2>5, CauseKept
<1>5. ASSUME NEW q \in Requests, LoseReply(q) PROVE CauseInv'
  BY <1>1, <1>5 DEF LoseReply
<1>6. ASSUME NEW r \in Replicas, Sweep(r) \/ SweepPoll(r) PROVE CauseInv'
  <2>1. \A s \in Replicas : local'[s] \subseteq local[s] /\ poll'[s] \subseteq poll[s]
    BY <1>6 DEF Sweep, SweepPoll, TypeOK
  <2> QED BY <1>1, <1>6, <2>1 DEF Sweep, SweepPoll
<1>7. CASE Expire \/ Elapse \/ UNCHANGED vars
  BY <1>1, <1>7 DEF Expire, Elapse
<1> QED BY <1>2, <1>3, <1>4, <1>5, <1>6, <1>7 DEF Next, Idle

\* Nobody is refused without cause: a process that refuses has let a whole budget pass
\* within the window, and polls are throttled by polls alone.
THEOREM RefusalsHaveCause == Spec => []RefusalsJustified
<1>1. CauseInv => RefusalsJustified
  BY DEF CauseInv
<1> QED BY <1>1, TypeInit, TypeStep, TimelyInit, TimelyStep, PollInit, PollStep,
           CauseInit, CauseStep, PTL DEF Spec

-----------------------------------------------------------------------------
\* When a hit of the bucket that refused p was made, by the clock of that bucket, and
\* how many hits the bucket holds.
DateOf(p, o) ==
    CASE by[p] = "redis" -> stamp[o]
      [] by[p] = "memory" -> settled[o]
      [] by[p] = "poll" -> asked[o]

BudgetOf(p) == IF by[p] = "poll" THEN PollBudget ELSE Budget

\* The hits that were there when p was refused and are still counted when the advice
\* p was given has run out.
Surviving(p) ==
    {o \in BucketOf(p) :
        /\ state[o] # "asked" /\ settled[o] < settled[p]
        /\ DateOf(p, o) > ClockOf(p) + retry[p] * Second - Window}

\* The advice leaves room: it outlasts at least one of the hits that were there.
AdviceInv ==
    \A p \in Requests : state[p] = "refused" =>
        by[p] \in Limiters /\ Cardinality(Surviving(p)) < BudgetOf(p)

LEMMA AdviceInit == Init => AdviceInv
BY DEF Init, AdviceInv

\* Rounding up loses nothing.
LEMMA RoundedUp ==
    ASSUME NEW x \in Int, NEW s \in Nat \ {0}
    PROVE  ((x + s - 1) \div s) * s >= x
<1> DEFINE y == x + s - 1
<1>1. y \in Int /\ y = s * (y \div s) + (y % s) /\ y % s < s /\ y \div s \in Int /\ y % s \in Int
  OBVIOUS
<1>2. s * (y \div s) >= x
  BY <1>1
<1>3. s * (y \div s) = (y \div s) * s
  BY <1>1
<1> QED BY <1>1, <1>2, <1>3

\* Retry-After outlasts the oldest hit it was computed from.
LEMMA AdviceOutlasts ==
    ASSUME NEW live \in SUBSET Requests, live # {}, NEW time \in [Requests -> Nat],
           NEW t \in Nat
    PROVE  \E o \in live : time[o] + Window <= t + RetryAfter(live, time, t) * Second
<1> DEFINE T == {time[p] : p \in live}
           R == {ss \in Nat \X Nat : ss[1] < ss[2]}
<1>1. T \subseteq Nat /\ T # {}
  OBVIOUS
<1>2. \E s \in T : \A u \in T : s <= u
  <2>1. IsWellFoundedOn(R, Nat)
    BY NatLessThanWellFounded DEF OpToRel
  <2> HIDE DEF T
  <2>2. PICK s \in T : \A u \in T : ~(<<u, s>> \in R)
    <3> HIDE DEF R
    <3> QED BY <1>1, <2>1, WFMin
  <2>3. \A u \in T : ~(u < s) /\ u \in Nat /\ s \in Nat
    BY <1>1, <2>2
  <2> QED BY <2>3
<1>3. Oldest(live, time) \in T
  BY <1>2 DEF Oldest
<1>4. PICK o \in live : time[o] = Oldest(live, time)
  BY <1>3
<1> DEFINE x == time[o] + Window - t
           wait == (x + Second - 1) \div Second
<1>5. x \in Int /\ Second \in Nat \ {0} /\ wait \in Int
  BY RateAssumption
<1>6. wait * Second >= x
  BY <1>5, RoundedUp
<1>7. RetryAfter(live, time, t) = IF wait < 1 THEN 1 ELSE wait
  BY <1>4 DEF RetryAfter
<1>8. RetryAfter(live, time, t) * Second >= x
  <2>1. CASE wait < 1
    <3>1. wait <= 0
      BY <1>5, <2>1
    <3>2. wait * Second <= 0
      BY <1>5, <3>1
    <3> QED BY <1>5, <1>6, <1>7, <2>1, <3>2
  <2>2. CASE ~(wait < 1)
    BY <1>6, <1>7, <2>2
  <2> QED BY <2>1, <2>2
<1>9. RetryAfter(live, time, t) * Second \in Int /\ time[o] \in Nat /\ Window \in Nat
  BY <1>5, <1>7, RateAssumption
<1> HIDE DEF wait
<1>10. time[o] + Window <= t + RetryAfter(live, time, t) * Second
  BY <1>8, <1>9
<1> QED BY <1>10

\* A step is of one request at most: buckets gain none but that one, and what the
\* step leaves undecided of it waits for Redis.
LEMMA OneActs ==
    ASSUME TypeOK, [Next]_vars
    PROVE  \E A \in SUBSET Requests :
              /\ \A o \in Requests \ A :
                    /\ state'[o] = state[o] /\ by'[o] = by[o] /\ via'[o] = via[o]
                    /\ asked'[o] = asked[o] /\ stamp'[o] = stamp[o]
                    /\ settled'[o] = settled[o] /\ retry'[o] = retry[o]
              /\ \A o \in A : /\ state[o] \in {"new", "asked"}
                              /\ state'[o] = "asked" \/ settled'[o] = now
              /\ shared' \subseteq shared \cup A
              /\ \A r \in Replicas :
                    local'[r] \subseteq local[r] \cup A /\ poll'[r] \subseteq poll[r] \cup A
<1> USE DEF vars, decided, arrived
<1> DEFINE Only(A) ==
              /\ \A o \in Requests \ A :
                    /\ state'[o] = state[o] /\ by'[o] = by[o] /\ via'[o] = via[o]
                    /\ asked'[o] = asked[o] /\ stamp'[o] = stamp[o]
                    /\ settled'[o] = settled[o] /\ retry'[o] = retry[o]
              /\ \A o \in A : /\ state[o] \in {"new", "asked"}
                              /\ state'[o] = "asked" \/ settled'[o] = now
              /\ shared' \subseteq shared \cup A
              /\ \A r \in Replicas :
                    local'[r] \subseteq local[r] \cup A /\ poll'[r] \subseteq poll[r] \cup A
<1>1. ASSUME NEW q \in Requests, NEW r \in Replicas, InProcess(q, r)
      PROVE  /\ \A s \in Replicas : local'[s] \subseteq local[s] \cup {q}
             /\ \E o \in {"ok", "refused"} : \E n : Settle(q, o, "memory", n)
  <2>1. \/ local' = [local EXCEPT ![r] = Live(local[r], settled, now) \cup {q}]
        \/ local' = [local EXCEPT ![r] = Live(local[r], settled, now)]
    BY <1>1 DEF InProcess
  <2>2. Live(local[r], settled, now) \subseteq local[r]
    BY DEF Live
  <2> QED BY <1>1, <2>1, <2>2 DEF InProcess, TypeOK
<1>2. ASSUME NEW q \in Requests, NEW o, NEW l, NEW n, Settle(q, o, l, n)
      PROVE  /\ \A p \in Requests \ {q} :
                   /\ state'[p] = state[p] /\ by'[p] = by[p]
                   /\ settled'[p] = settled[p] /\ retry'[p] = retry[p]
             /\ settled'[q] = now
  BY <1>2 DEF Settle, TypeOK
<1>3. ASSUME NEW q \in Requests, NEW r \in Replicas, NEW k \in Kinds, Arrive(q, r, k)
      PROVE  Only({q})
  <2>1. /\ state[q] = "new" /\ shared' = shared
        /\ \A p \in Requests \ {q} :
              via'[p] = via[p] /\ asked'[p] = asked[p] /\ stamp'[p] = stamp[p]
    BY <1>3 DEF Arrive, TypeOK
  <2>2. Live(poll[r], asked, now) \subseteq poll[r]
    BY DEF Live
  <2>3. \A s \in Replicas : poll'[s] \subseteq poll[s] \cup {q}
    BY <1>3, <2>2 DEF Arrive, Throttle, PassPoll, TypeOK
  <2>4. CASE Throttle(q, r)
    <3>1. local' = local /\ \E n : Settle(q, "refused", "poll", n)
      BY <2>4 DEF Throttle
    <3> QED BY <1>2, <2>1, <2>3, <3>1
  <2>5. CASE InProcess(q, r)
    BY <1>1, <1>2, <2>1, <2>3, <2>5
  <2>6. CASE state' = [state EXCEPT ![q] = "asked"] /\ UNCHANGED <<decided, local>>
    BY <2>1, <2>3, <2>6 DEF TypeOK
  <2> QED BY <1>3, <2>4, <2>5, <2>6 DEF Arrive, Ask
<1>4. ASSUME NEW q \in Requests, Script(q) PROVE shared' \subseteq shared \cup {q}
  BY <1>4 DEF Script, Live
<1>5. ASSUME NEW q \in Requests, Answer(q) PROVE Only({q})
  <2>1. /\ state[q] = "asked" /\ UNCHANGED <<arrived, local, poll>>
        /\ \E o \in {"ok", "refused"} : \E n : Settle(q, o, "redis", n)
    BY <1>5 DEF Answer
  <2>2. shared' \subseteq shared \cup {q}
    BY <1>4, <1>5 DEF Answer
  <2> QED BY <1>2, <2>1, <2>2
<1>6. ASSUME NEW q \in Requests, LoseReply(q) PROVE Only({q})
  <2>1. state[q] = "asked" /\ UNCHANGED <<state, decided, arrived, local, poll>>
    BY <1>6 DEF LoseReply
  <2>2. shared' \subseteq shared \cup {q}
    BY <1>4, <1>6 DEF LoseReply
  <2> QED BY <2>1, <2>2
<1>7. ASSUME NEW q \in Requests, Fallback(q) PROVE Only({q})
  <2>1. /\ state[q] = "asked" /\ UNCHANGED <<arrived, shared, poll>>
        /\ InProcess(q, via[q]) /\ via[q] \in Replicas
    BY <1>7 DEF Fallback, TypeOK
  <2> QED BY <1>1, <1>2, <2>1
<1>8. ASSUME \/ \E r \in Replicas : Sweep(r) \/ SweepPoll(r)
             \/ Expire \/ Elapse \/ UNCHANGED vars
      PROVE  Only({})
  <2>1. UNCHANGED <<state, decided, arrived>>
    BY <1>8 DEF Sweep, SweepPoll, Expire, Elapse
  <2>2. /\ shared' \subseteq shared
        /\ \A r \in Replicas : local'[r] \subseteq local[r] /\ poll'[r] \subseteq poll[r]
    BY <1>8 DEF Sweep, SweepPoll, Expire, Elapse, TypeOK
  <2> QED BY <2>1, <2>2
<1>9. \E A \in SUBSET Requests : Only(A)
  <2> HIDE DEF Only
  <2>1. CASE \E q \in Requests : Only({q})
    BY <2>1
  <2>2. CASE Only({})
    BY <2>2
  <2>3. \/ \E q \in Requests, r \in Replicas, k \in Kinds : Arrive(q, r, k)
        \/ \E q \in Requests : Answer(q) \/ LoseReply(q) \/ Fallback(q)
        \/ \E r \in Replicas : Sweep(r) \/ SweepPoll(r)
        \/ Expire \/ Elapse \/ UNCHANGED vars
    BY DEF Next, Idle
  <2> QED BY <1>3, <1>5, <1>6, <1>7, <1>8, <2>1, <2>2, <2>3
<1> QED BY <1>9

\* A later step adds nothing to the hits an old advice reckons with.
LEMMA AdviceKept ==
    ASSUME TypeOK, Timely, AdviceInv, [Next]_vars,
           NEW p \in Requests, state[p] = "refused"
    PROVE  /\ state'[p] = "refused" /\ by'[p] = by[p] /\ by[p] \in Limiters
           /\ settled'[p] = settled[p] /\ retry'[p] = retry[p] /\ ClockOf(p)' = ClockOf(p)
           /\ Surviving(p)' \subseteq Surviving(p)
<1>1. PICK A \in SUBSET Requests :
              /\ \A o \in Requests \ A :
                    /\ state'[o] = state[o] /\ by'[o] = by[o] /\ via'[o] = via[o]
                    /\ asked'[o] = asked[o] /\ stamp'[o] = stamp[o]
                    /\ settled'[o] = settled[o] /\ retry'[o] = retry[o]
              /\ \A o \in A : /\ state[o] \in {"new", "asked"}
                              /\ state'[o] = "asked" \/ settled'[o] = now
              /\ shared' \subseteq shared \cup A
              /\ \A r \in Replicas :
                    local'[r] \subseteq local[r] \cup A /\ poll'[r] \subseteq poll[r] \cup A
  BY OneActs
<1>2. p \in Requests \ A
  BY <1>1
<1>3. /\ state'[p] = "refused" /\ by'[p] = by[p] /\ via'[p] = via[p]
      /\ settled'[p] = settled[p] /\ stamp'[p] = stamp[p] /\ retry'[p] = retry[p]
  BY <1>1, <1>2
<1>4. ClockOf(p)' = ClockOf(p)
  BY <1>3 DEF ClockOf
<1>5. by[p] \in Limiters /\ via[p] \in Replicas
  BY DEF AdviceInv, TypeOK
<1>6. BucketOf(p)' \subseteq BucketOf(p) \cup A /\ BucketOf(p) \subseteq Requests
  BY <1>1, <1>3, <1>5 DEF BucketOf, Limiters, TypeOK
<1>7. settled[p] <= now /\ settled[p] \in Nat /\ now \in Nat
  BY DEF Timely, TypeOK
<1>8. ASSUME NEW o \in Surviving(p)' PROVE o \in Surviving(p)
  <2>1. /\ o \in BucketOf(p)' /\ state'[o] # "asked" /\ settled'[o] < settled[p]
        /\ DateOf(p, o)' > ClockOf(p) + retry[p] * Second - Window
    BY <1>3, <1>4 DEF Surviving
  <2>2. o \notin A
    BY <1>1, <1>7, <2>1
  <2>3. /\ o \in BucketOf(p) /\ o \in Requests
        /\ state'[o] = state[o] /\ asked'[o] = asked[o]
        /\ stamp'[o] = stamp[o] /\ settled'[o] = settled[o]
    BY <1>1, <1>6, <2>1, <2>2
  <2>4. DateOf(p, o)' = DateOf(p, o)
    BY <1>3, <2>3 DEF DateOf
  <2> QED BY <2>1, <2>3, <2>4 DEF Surviving
<1> QED BY <1>3, <1>4, <1>5, <1>8

\* A check that refuses finds hits still counted, one of which its advice outlasts.
LEMMA RefusalAdvises ==
    ASSUME NEW bucket \in SUBSET Requests, NEW time \in [Requests -> Nat], NEW t \in Nat,
           NEW budget \in Nat \ {0}, ~HasRoom(Live(bucket, time, t), budget)
    PROVE  LET live == Live(bucket, time, t)
           IN  /\ live \in SUBSET Requests
               /\ \A o \in live : time[o] > t - Window
               /\ \E o \in live : time[o] + Window <= t + RetryAfter(live, time, t) * Second
<1> DEFINE live == Live(bucket, time, t)
<1>1. live \in SUBSET Requests /\ live # {}
  <2>1. live \in SUBSET Requests
    BY DEF Live
  <2>2. HasRoom({}, budget)
    BY FS_EmptySet DEF HasRoom
  <2> QED BY <2>1, <2>2
<1>2. \A o \in live : time[o] > t - Window
  BY DEF Live
<1> HIDE DEF live
<1>3. \E o \in live : time[o] + Window <= t + RetryAfter(live, time, t) * Second
  BY <1>1, AdviceOutlasts
<1> QED BY <1>1, <1>2, <1>3 DEF live

LEMMA NewRefusal ==
    ASSUME TypeOK, TypeOK', PollInv, CauseInv, [Next]_vars,
           NEW q \in Requests, state[q] # "refused", state'[q] = "refused"
    PROVE  /\ by'[q] \in Limiters /\ BucketOf(q)' \in SUBSET Requests
           /\ ~HasRoom(BucketOf(q)', BudgetOf(q)') /\ Cardinality(BucketOf(q)') <= BudgetOf(q)'
           /\ BudgetOf(q)' \in Nat \ {0}
           /\ \A o \in BucketOf(q)' : DateOf(q, o)' > ClockOf(q)' - Window
           /\ \E o \in BucketOf(q)' : DateOf(q, o)' + Window <= ClockOf(q)' + retry'[q] * Second
           /\ q \in BucketOf(q)' => by'[q] = "redis" /\ q \in shared
<1> USE DEF vars, decided, arrived
<1> DEFINE Result ==
           /\ by'[q] \in Limiters /\ BucketOf(q)' \in SUBSET Requests
           /\ ~HasRoom(BucketOf(q)', BudgetOf(q)') /\ Cardinality(BucketOf(q)') <= BudgetOf(q)'
           /\ BudgetOf(q)' \in Nat \ {0}
           /\ \A o \in BucketOf(q)' : DateOf(q, o)' > ClockOf(q)' - Window
           /\ \E o \in BucketOf(q)' : DateOf(q, o)' + Window <= ClockOf(q)' + retry'[q] * Second
           /\ q \in BucketOf(q)' => by'[q] = "redis" /\ q \in shared
<1>1. ASSUME NEW r \in Replicas, state[q] \in {"new", "asked"}, InProcess(q, r), via'[q] = r
      PROVE  Result
  <2> DEFINE live == Live(local[r], settled, now)
  <2>1. /\ ~HasRoom(live, Budget) /\ local' = [local EXCEPT ![r] = live]
        /\ Settle(q, "refused", "memory", RetryAfter(live, settled, now))
    BY <1>1 DEF InProcess, Settle, TypeOK
  <2>2. /\ live \in SUBSET Requests
        /\ \A o \in live : settled[o] > now - Window
        /\ \E o \in live : settled[o] + Window <= now + RetryAfter(live, settled, now) * Second
    BY <1>1, <2>1, RefusalAdvises, RateAssumption DEF TypeOK
  <2>3. \A o \in live : o # q
    BY <1>1 DEF Live, CauseInv, MemoryOf, AdmittedBy
  <2>4. /\ by'[q] = "memory" /\ settled'[q] = now /\ local'[r] = live
        /\ retry'[q] = RetryAfter(live, settled, now)
        /\ \A o \in live : settled'[o] = settled[o]
    BY <2>1, <2>2, <2>3 DEF Settle, TypeOK
  <2> HIDE DEF live
  <2>5. /\ BucketOf(q)' = live /\ BudgetOf(q)' = Budget /\ ClockOf(q)' = now
        /\ \A o \in live : DateOf(q, o)' = settled[o]
    BY <1>1, <2>4 DEF BucketOf, BudgetOf, ClockOf, DateOf
  <2>6. Cardinality(live) <= Budget
    BY <2>4 DEF TypeOK
  <2> QED BY <2>1, <2>2, <2>3, <2>4, <2>5, <2>6, RateAssumption DEF Limiters
<1>2. ASSUME NEW r \in Replicas, NEW k \in Kinds, Arrive(q, r, k) PROVE Result
  <2>1. CASE Throttle(q, r)
    <3> DEFINE live == Live(poll[r], asked, now)
    <3>1. /\ ~HasRoom(live, PollBudget) /\ poll' = [poll EXCEPT ![r] = live]
          /\ Settle(q, "refused", "poll", RetryAfter(live, asked, now))
          /\ via'[q] = r
      BY <1>2, <2>1 DEF Arrive, Throttle, TypeOK
    <3>2. /\ live \in SUBSET Requests
          /\ \A o \in live : asked[o] > now - Window
          /\ \E o \in live : asked[o] + Window <= now + RetryAfter(live, asked, now) * Second
      BY <3>1, RefusalAdvises, RateAssumption DEF TypeOK
    <3>3. \A o \in live : o # q
      BY <1>2 DEF Live, CauseInv, PollsPassed, Arrive
    <3>4. /\ by'[q] = "poll" /\ settled'[q] = now /\ poll'[r] = live
          /\ retry'[q] = RetryAfter(live, asked, now)
          /\ \A o \in live : asked'[o] = asked[o]
      BY <1>2, <3>1, <3>2, <3>3 DEF Arrive, Settle, TypeOK
    <3> HIDE DEF live
    <3>5. /\ BucketOf(q)' = live /\ BudgetOf(q)' = PollBudget /\ ClockOf(q)' = now
          /\ \A o \in live : DateOf(q, o)' = asked[o]
      BY <3>1, <3>4 DEF BucketOf, BudgetOf, ClockOf, DateOf
    <3>6. Cardinality(live) <= PollBudget
      BY <3>4 DEF TypeOK
    <3> QED BY <3>1, <3>2, <3>3, <3>4, <3>5, <3>6, RateAssumption DEF Limiters
  <2>2. CASE ~Throttle(q, r)
    <3>1. InProcess(q, r) /\ via'[q] = r /\ state[q] = "new"
      BY <1>2, <2>2 DEF Arrive, Ask, TypeOK
    <3> QED BY <1>1, <3>1
  <2> QED BY <2>1, <2>2
<1>3. ASSUME Answer(q) PROVE Result
  <2> DEFINE live == Live(shared, stamp, stamp[q])
  <2>1. /\ ~HasRoom(live, Budget) /\ shared' = live /\ stamp' = stamp
        /\ Settle(q, "refused", "redis", RetryAfter(live, stamp, stamp[q]))
    BY <1>3 DEF Answer, Script, Settle, TypeOK
  <2>2. /\ live \in SUBSET Requests /\ live \subseteq shared
        /\ \A o \in live : stamp[o] > stamp[q] - Window
        /\ \E o \in live : stamp[o] + Window <= stamp[q] + RetryAfter(live, stamp, stamp[q]) * Second
    BY <2>1, RefusalAdvises, RateAssumption DEF TypeOK, Live
  <2>3. by'[q] = "redis" /\ retry'[q] = RetryAfter(live, stamp, stamp[q])
    BY <2>1 DEF Settle, TypeOK
  <2> HIDE DEF live
  <2>4. /\ BucketOf(q)' = live /\ BudgetOf(q)' = Budget /\ ClockOf(q)' = stamp[q]
        /\ \A o \in live : DateOf(q, o)' = stamp[o]
    BY <2>1, <2>3 DEF BucketOf, BudgetOf, ClockOf, DateOf
  <2>5. Cardinality(live) <= Budget
    BY <2>1 DEF TypeOK
  <2> QED BY <2>1, <2>2, <2>3, <2>4, <2>5, RateAssumption DEF Limiters
<1>4. ASSUME Fallback(q) PROVE Result
  <2>1. via[q] \in Replicas /\ via' = via /\ state[q] = "asked" /\ InProcess(q, via[q])
    BY <1>4 DEF Fallback, TypeOK
  <2> QED BY <1>1, <2>1
\* Every other step leaves the state of q as it was.
<1>5. \/ \E r \in Replicas, k \in Kinds : Arrive(q, r, k)
      \/ Answer(q) \/ Fallback(q)
  <2>1. ASSUME NEW p \in Requests, p # q, NEW r \in Replicas, NEW k \in Kinds, Arrive(p, r, k)
        PROVE  state'[q] = state[q]
    BY <2>1, ArriveChanges
  <2>2. ASSUME NEW p \in Requests, p # q, Answer(p) \/ Fallback(p)
        PROVE  state'[q] = state[q]
    BY <2>2 DEF Answer, Fallback, InProcess, Settle, TypeOK
  <2>3. ASSUME \/ \E p \in Requests : LoseReply(p)
               \/ \E r \in Replicas : Sweep(r) \/ SweepPoll(r)
               \/ Expire \/ Elapse \/ UNCHANGED vars
        PROVE  state' = state
    BY <2>3 DEF LoseReply, Sweep, SweepPoll, Expire, Elapse
  <2>4. \/ \E p \in Requests, r \in Replicas, k \in Kinds : Arrive(p, r, k)
        \/ \E p \in Requests : Answer(p) \/ Fallback(p)
        \/ \E p \in Requests : LoseReply(p)
        \/ \E r \in Replicas : Sweep(r) \/ SweepPoll(r)
        \/ Expire \/ Elapse \/ UNCHANGED vars
    BY DEF Next, Idle
  <2>5. state'[q] # state[q]
    OBVIOUS
  <2> QED BY <2>1, <2>2, <2>3, <2>4, <2>5
<1> QED BY <1>2, <1>3, <1>4, <1>5

LEMMA AdviceStep ==
    TypeOK /\ TypeOK' /\ Timely /\ PollInv /\ CauseInv /\ AdviceInv /\ [Next]_vars => AdviceInv'
<1> SUFFICES ASSUME TypeOK, TypeOK', Timely, PollInv, CauseInv, AdviceInv, [Next]_vars,
                    NEW p \in Requests, state'[p] = "refused"
             PROVE  by'[p] \in Limiters /\ Cardinality(Surviving(p)') < BudgetOf(p)'
  BY DEF AdviceInv
<1>1. CASE state[p] = "refused"
  <2>1. /\ by'[p] = by[p] /\ by[p] \in Limiters /\ Surviving(p)' \subseteq Surviving(p)
        /\ Cardinality(Surviving(p)) < BudgetOf(p)
    BY <1>1, AdviceKept DEF AdviceInv
  <2>2. Surviving(p) \subseteq Requests
    BY <2>1 DEF Surviving, BucketOf, Limiters, TypeOK
  <2>3. /\ Cardinality(Surviving(p)') <= Cardinality(Surviving(p))
        /\ Cardinality(Surviving(p)') \in Nat /\ Cardinality(Surviving(p)) \in Nat
    BY <2>1, <2>2, RateAssumption, FS_Subset, FS_CardinalityType
  <2>4. BudgetOf(p)' = BudgetOf(p) /\ BudgetOf(p) \in Nat
    BY <2>1, RateAssumption DEF BudgetOf
  <2> QED BY <2>1, <2>3, <2>4
<1>2. CASE state[p] # "refused"
  <2>1. /\ by'[p] \in Limiters /\ BucketOf(p)' \in SUBSET Requests
        /\ Cardinality(BucketOf(p)') <= BudgetOf(p)' /\ BudgetOf(p)' \in Nat \ {0}
        /\ \E o \in BucketOf(p)' : DateOf(p, o)' + Window <= ClockOf(p)' + retry'[p] * Second
    BY <1>2, NewRefusal
  <2>2. PICK o \in BucketOf(p)' : DateOf(p, o)' + Window <= ClockOf(p)' + retry'[p] * Second
    BY <2>1
  <2>3. /\ DateOf(p, o)' \in Int /\ ClockOf(p)' \in Int /\ Window \in Int
        /\ retry'[p] * Second \in Int
    <3>1. o \in Requests /\ retry'[p] \in Nat /\ Second \in Nat /\ Window \in Nat
      BY <2>1, RateAssumption DEF TypeOK
    <3>2. DateOf(p, o)' \in Nat /\ ClockOf(p)' \in Nat
      BY <2>1, <3>1 DEF DateOf, ClockOf, Limiters, TypeOK
    <3> QED BY <3>1, <3>2
  <2>4. Surviving(p)' \subseteq BucketOf(p)' \ {o}
    BY <2>2, <2>3 DEF Surviving
  <2>5. IsFiniteSet(BucketOf(p)') /\ IsFiniteSet(BucketOf(p)' \ {o})
    BY <2>1, RateAssumption, FS_Subset
  <2>6. /\ Cardinality(BucketOf(p)' \ {o}) = Cardinality(BucketOf(p)') - 1
        /\ Cardinality(BucketOf(p)') \in Nat
    BY <2>5, FS_RemoveElement, FS_CardinalityType
  <2>7. /\ Cardinality(Surviving(p)') <= Cardinality(BucketOf(p)' \ {o})
        /\ Cardinality(Surviving(p)') \in Nat
    BY <2>4, <2>5, FS_Subset, FS_CardinalityType
  <2> QED BY <2>1, <2>6, <2>7
<1> QED BY <1>1, <1>2

\* A step that refuses a request whose advice had run out finds a younger hit in the way, and its own
\* only if Redis had recorded it before.
LEMMA HonestStep ==
    ASSUME TypeOK, TypeOK', Timely, PollInv, CauseInv, AdviceInv, AdviceInv', [Next]_vars,
           NEW p \in Requests, NEW q \in Requests,
           state[p] = "refused", state[q] # "refused", state'[q] = "refused",
           SameBucket(p, q)', ClockOf(q)' >= ClockOf(p) + retry[p] * Second
    PROVE  \E o \in BucketOf(q)' :
              /\ state'[o] = "asked" \/ settled'[o] >= settled[p]
              /\ o = q => by'[q] = "redis" /\ q \in shared
<1> SUFFICES ASSUME \A o \in BucketOf(q)' : state'[o] # "asked" /\ ~(settled'[o] >= settled[p])
             PROVE  FALSE
  BY NewRefusal
<1>1. /\ state'[p] = "refused" /\ by'[p] = by[p] /\ by[p] \in Limiters
      /\ settled'[p] = settled[p] /\ retry'[p] = retry[p] /\ ClockOf(p)' = ClockOf(p)
  BY AdviceKept
<1>2. /\ by'[q] \in Limiters /\ BucketOf(q)' \in SUBSET Requests
      /\ ~HasRoom(BucketOf(q)', BudgetOf(q)') /\ BudgetOf(q)' \in Nat \ {0}
      /\ \A o \in BucketOf(q)' : DateOf(q, o)' > ClockOf(q)' - Window
  BY NewRefusal
<1>3. by'[p] = by'[q] /\ (by'[p] # "redis" => via'[p] = via'[q])
  BY DEF SameBucket
<1>4. BucketOf(p)' = BucketOf(q)'
  BY <1>2, <1>3 DEF BucketOf, Limiters
<1>5. BudgetOf(p)' = BudgetOf(q)' /\ \A o : DateOf(p, o)' = DateOf(q, o)'
  BY <1>3 DEF BudgetOf, DateOf
<1>6. ASSUME NEW o \in BucketOf(q)' PROVE o \in Surviving(p)'
  <2>1. o \in Requests /\ settled'[o] \in Nat /\ settled'[p] \in Nat /\ settled'[o] < settled'[p]
    BY <1>1, <1>2, <1>6 DEF TypeOK
  <2>2. /\ DateOf(q, o)' \in Int /\ ClockOf(q)' \in Int /\ ClockOf(p)' \in Int
        /\ Window \in Int /\ retry'[p] * Second \in Int
    <3>1. retry'[p] \in Nat /\ Second \in Nat /\ Window \in Nat
      BY RateAssumption DEF TypeOK
    <3>2. DateOf(q, o)' \in Nat /\ ClockOf(q)' \in Nat /\ ClockOf(p)' \in Nat
      BY <1>2, <2>1 DEF DateOf, ClockOf, Limiters, TypeOK
    <3> QED BY <3>1, <3>2
  <2>3. DateOf(p, o)' > ClockOf(p)' + retry'[p] * Second - Window
    BY <1>1, <1>2, <1>5, <1>6, <2>2
  <2> QED BY <1>4, <1>6, <2>1, <2>3 DEF Surviving
<1>7. Surviving(p)' = BucketOf(q)'
  BY <1>4, <1>6 DEF Surviving
<1>8. Cardinality(Surviving(p)') < BudgetOf(p)'
  BY <1>1 DEF AdviceInv
<1> QED BY <1>2, <1>5, <1>7, <1>8 DEF HasRoom

\* The advice in Retry-After holds: who is refused again after it has run out was
\* overtaken by a hit that came after the advice or of a call still open, and it is
\* another's unless the reply to the recording of its own was lost.
THEOREM AdviceHonest == Spec => RetryHonest
<1> DEFINE All == TypeOK /\ Timely /\ PollInv /\ CauseInv /\ AdviceInv
<1>1. Init => All
  BY TypeInit, TimelyInit, PollInit, CauseInit, AdviceInit
<1>2. All /\ [Next]_vars => All'
  BY TypeStep, TimelyStep, PollStep, CauseStep, AdviceStep
<1>3. All /\ [Next]_vars =>
         \A p, q \in Requests :
            ( /\ state[p] = "refused"
              /\ state[q] # "refused" /\ state'[q] = "refused"
              /\ SameBucket(p, q)'
              /\ ClockOf(q)' >= ClockOf(p) + retry[p] * Second )
            => \E o \in BucketOf(q)' :
                  /\ state'[o] = "asked" \/ settled'[o] >= settled[p]
                  /\ o = q => by'[q] = "redis" /\ q \in shared
  BY <1>2, HonestStep
<1>4. Spec => []All
  <2> HIDE DEF All
  <2> QED BY <1>1, <1>2, PTL DEF Spec
<1> QED BY <1>3, <1>4, PTL DEF Spec, RetryHonest
=============================================================================
