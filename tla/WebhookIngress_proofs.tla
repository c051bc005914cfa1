------------------------ MODULE WebhookIngress_proofs -----------------------
(***************************************************************************)
(* The webhook path for every set of deliveries, re-runs and heads, every  *)
(* size of its maps and every order of events, restarts and lost replies   *)
(* of the queue among them.                                                *)
(*                                                                         *)
(* The circuit breaker: what each method does to an entry is proved once   *)
(* (HealthChange), and every action of the ingress is one of those changes.*)
(*                                                                         *)
(* Rows, marks and jobs: IngressInv adds to the promises that a delivery   *)
(* without its mark has opened no more reviews than it lost marks, and that*)
(* a waiting job has an attempt left.  A row that is told "added" owns the job under its id; *)
(* it loses it only by leaving "queued", because a job that begins finds   *)
(* its row, and one that has ended is nobody's.                            *)
(***************************************************************************)
EXTENDS WebhookIngress, FiniteSetTheorems, TLAPS

\* An entry of the right type whose automatic pause was earned.
Earned(h) ==
    /\ h \in HealthType
    /\ h.until # NoPause /\ ~h.manual => h.failures >= Threshold

\* What a step may make of an entry.
HealthChange(h, g) ==
    \/ g = h
    \/ g = Ticked(h)
    \/ g = AfterSuccess(h)
    \/ g = AfterFailure(h)
    \/ g = AfterPause(h, ManualPause)
    \/ g = Healthy
    \/ h.until > 0 /\ g = [h EXCEPT !.until = @ - 1]

\* Every change keeps an entry earned.
LEMMA ChangeKeepsEarned ==
    ASSUME NEW h, NEW g, Earned(h), HealthChange(h, g)
    PROVE  Earned(g)
<1> USE BreakerAssumption DEF NoPause
<1>1. /\ h \in [failures : 0 .. Threshold, until : Nat \cup {-1}, manual : BOOLEAN]
      /\ h.until # -1 /\ ~h.manual => h.failures >= Threshold
      /\ ManualPause \in Nat \ {0}
  BY IngressAssumption DEF Earned, HealthType
<1>2. CASE g = h
  BY <1>2
<1>3. CASE g = Ticked(h)
  BY <1>1, <1>3 DEF Earned, HealthType, Ticked, IsPaused
<1>4. CASE g = AfterSuccess(h)
  <2>1. 0 \in 0 .. Threshold
    OBVIOUS
  <2>2. CASE h.manual
    <3>1. g = [h EXCEPT !.failures = 0, !.until = h.until]
      BY <1>4, <2>2 DEF AfterSuccess
    <3>2. g \in HealthType
      BY <1>1, <2>1, <3>1 DEF HealthType
    <3>3. g.manual
      BY <1>1, <2>2, <3>1
    <3> QED BY <3>2, <3>3 DEF Earned
  <2>3. CASE ~h.manual
    <3>1. g = [h EXCEPT !.failures = 0, !.until = -1]
      BY <1>4, <2>3 DEF AfterSuccess
    <3>2. g \in HealthType
      BY <1>1, <2>1, <3>1 DEF HealthType
    <3>3. g.until = -1
      BY <1>1, <3>1
    <3> QED BY <3>2, <3>3 DEF Earned
  <2> QED BY <2>2, <2>3
<1>5. CASE g = AfterFailure(h)
  <2>1. Streak(h) \in 0 .. Threshold /\ Streak(h) >= h.failures
    BY <1>1 DEF Streak
  <2>2. CASE Streak(h) >= Threshold /\ h.until = -1
    <3>1. g = [h EXCEPT !.failures = Streak(h), !.until = Cooldown]
      BY <1>5, <2>2 DEF AfterFailure
    <3>2. g \in HealthType
      BY <1>1, <2>1, <3>1 DEF HealthType
    <3>3. g.failures >= Threshold
      BY <1>1, <2>2, <3>1
    <3> QED BY <3>2, <3>3 DEF Earned
  <2>3. CASE ~(Streak(h) >= Threshold /\ h.until = -1)
    <3>1. g = [h EXCEPT !.failures = Streak(h), !.until = h.until]
      BY <1>5, <2>3 DEF AfterFailure
    <3>2. g \in HealthType
      BY <1>1, <2>1, <3>1 DEF HealthType
    <3>3. g.failures >= h.failures /\ g.until = h.until
      BY <1>1, <2>1, <3>1
    <3>4. g.manual = h.manual
      BY <1>1, <3>1
    <3>5. h.failures \in Int /\ g.failures \in Int
      BY <1>1, <3>2 DEF HealthType
    <3>6. g.until # -1 /\ ~g.manual => g.failures >= Threshold
      BY <1>1, <3>3, <3>4, <3>5
    <3> QED BY <3>2, <3>6 DEF Earned
  <2> QED BY <2>2, <2>3
<1>6. CASE g = AfterPause(h, ManualPause)
  BY <1>1, <1>6 DEF Earned, HealthType, AfterPause
<1>7. CASE g = Healthy
  BY <1>7 DEF Earned, HealthType, Healthy
<1>8. CASE h.until > 0 /\ g = [h EXCEPT !.until = @ - 1]
  BY <1>1, <1>8 DEF Earned, HealthType
<1> QED BY <1>2, <1>3, <1>4, <1>5, <1>6, <1>7, <1>8 DEF HealthChange

\* A change that leaves an automatic pause automatic does not lengthen it.
LEMMA ChangeExtendsNothing ==
    ASSUME NEW h, NEW g, Earned(h), HealthChange(h, g),
           h.until # NoPause, ~h.manual, ~g.manual
    PROVE  g.until <= h.until
<1> USE BreakerAssumption DEF NoPause
<1>1. h \in [failures : 0 .. Threshold, until : Nat \cup {-1}, manual : BOOLEAN]
  BY DEF Earned, HealthType
<1>2. CASE g = h
  BY <1>1, <1>2
<1>3. CASE g = Ticked(h)
  BY <1>1, <1>3 DEF Ticked, IsPaused
<1>4. CASE g = AfterSuccess(h)
  BY <1>1, <1>4 DEF AfterSuccess
<1>5. CASE g = AfterFailure(h)
  BY <1>1, <1>5 DEF AfterFailure
<1>6. CASE g = AfterPause(h, ManualPause)
  BY <1>1, <1>6 DEF AfterPause
<1>7. CASE g = Healthy
  BY <1>1, <1>7 DEF Healthy
<1>8. CASE h.until > 0 /\ g = [h EXCEPT !.until = @ - 1]
  BY <1>1, <1>8
<1> QED BY <1>2, <1>3, <1>4, <1>5, <1>6, <1>7, <1>8 DEF HealthChange

\* The actions change the breaker through its methods only.
LEMMA StepChangesHealth ==
    ASSUME [Next]_vars
    PROVE  HealthChange(health, health')
<1> USE DEF HealthChange
<1>1. ASSUME NEW d \in Deliveries, NEW b \in BOOLEAN, Dispatch(d, b)
      PROVE  HealthChange(health, health')
  BY <1>1 DEF Dispatch
<1>2. ASSUME NEW d \in Deliveries, Deliver(d)
      PROVE  HealthChange(health, health')
  BY <1>1, <1>2 DEF Deliver
<1>3. ASSUME NEW d \in Deliveries, Replay(d)
      PROVE  HealthChange(health, health')
  BY <1>1, <1>3 DEF Replay
<1>4. ASSUME NEW m \in Reruns, Rerun(m)
      PROVE  HealthChange(health, health')
  BY <1>4 DEF Rerun
<1>5. ASSUME NEW n \in DOMAIN records, Enqueue(n) \/ EnqueueFails(n)
      PROVE  HealthChange(health, health')
  BY <1>5 DEF Enqueue, EnqueueFails
<1>6. ASSUME NEW k \in JobIds, Begin(k) \/ Succeed(k) \/ Skip(k) \/ Fail(k) \/ Expire(k)
      PROVE  HealthChange(health, health')
  BY <1>6 DEF Begin, Succeed, Skip, Fail, Expire, memory
<1>7. CASE Operator \/ Elapse \/ Restart
  BY <1>7 DEF Operator, AfterResume, Elapse, Restart
<1>8. CASE UNCHANGED vars
  BY <1>8 DEF vars, memory
<1> QED BY <1>2, <1>3, <1>4, <1>5, <1>6, <1>7, <1>8 DEF Next

\* The breaker's entry is earned in every reachable state.
LEMMA HealthIsEarned == Spec => []Earned(health)
<1>1. Init => Earned(health)
  BY BreakerAssumption DEF Init, Earned, Healthy, HealthType, NoPause
<1>2. Earned(health) /\ [Next]_vars => Earned(health)'
  BY StepChangesHealth, ChangeKeepsEarned
<1> QED BY <1>1, <1>2, PTL DEF Spec

\* The webhook path never pauses a repository that did not fail Threshold times
\* in a row (repo-health.ts, recordFailure).
THEOREM PausesAreEarned == Spec => []AutoPauseEarned
<1>1. Earned(health) => AutoPauseEarned
  BY DEF Earned, AutoPauseEarned
<1> QED BY <1>1, HealthIsEarned, PTL

\* Nothing the worker reports while an automatic pause is set makes it longer.
THEOREM PausesAreNotExtended == Spec => PauseNotExtended
<1>1. Earned(health) /\ [Next]_vars =>
         [(health.until # NoPause /\ ~health.manual /\ ~health'.manual) =>
             health'.until <= health.until]_vars
  BY StepChangesHealth, ChangeExtendsNothing
<1> QED BY <1>1, HealthIsEarned, PTL DEF Spec, PauseNotExtended

-----------------------------------------------------------------------------
(* The bounded maps.                                                       *)

\* A map without a key has the other entries in their order.
LEMMA WithoutFacts ==
    ASSUME NEW S, NEW map \in Seq(S), IsInjective(map), NEW x
    PROVE  /\ Without(map, x) \in Seq(S) /\ IsInjective(Without(map, x))
           /\ Len(Without(map, x)) <= Len(map)
           /\ x \notin ToSet(Without(map, x))
           /\ ToSet(Without(map, x)) \subseteq ToSet(map)
<1>1. CASE x \notin ToSet(map)
  BY <1>1 DEF Without, ToSet
<1>2. CASE x \in ToSet(map)
  <2>1. PICK i \in 1 .. Len(map) : map[i] = x /\ Without(map, x) = RemoveAt(map, i)
    <3> DEFINE k == CHOOSE i \in DOMAIN map : map[i] = x
    <3>1. k \in DOMAIN map /\ map[k] = x
      BY <1>2 DEF ToSet
    <3>2. Without(map, x) = RemoveAt(map, k)
      BY <1>2 DEF Without
    <3> HIDE DEF k
    <3> QED BY <3>1, <3>2
  <2> DEFINE rest == RemoveAt(map, i)
             before == SubSeq(map, 1, i - 1)
             after == SubSeq(map, i + 1, Len(map))
  <2>2. /\ rest \in Seq(S) /\ Len(rest) = Len(map) - 1
        /\ \A j \in 1 .. Len(map) - 1 : rest[j] = IF j < i THEN map[j] ELSE map[j + 1]
    <3>1. /\ before \in Seq(S) /\ Len(before) = i - 1
          /\ \A j \in 1 .. i - 1 : before[j] = map[j]
      OBVIOUS
    <3>2. /\ after \in Seq(S) /\ Len(after) = Len(map) - i
          /\ \A j \in 1 .. Len(map) - i : after[j] = map[i + j]
      OBVIOUS
    <3>3. rest = before \o after
      BY DEF RemoveAt
    <3> HIDE DEF before, after, rest
    <3>4. rest \in Seq(S) /\ Len(rest) = Len(map) - 1
      BY <3>1, <3>2, <3>3
    <3>5. ASSUME NEW j \in 1 .. Len(map) - 1
          PROVE  rest[j] = IF j < i THEN map[j] ELSE map[j + 1]
      <4>1. rest[j] = IF j <= i - 1 THEN before[j] ELSE after[j - (i - 1)]
        BY <3>1, <3>2, <3>3
      <4>2. CASE j < i
        BY <3>1, <4>1, <4>2
      <4>3. CASE j >= i
        <5>1. j - (i - 1) \in 1 .. Len(map) - i /\ i + (j - (i - 1)) = j + 1
          BY <4>3
        <5> QED BY <3>2, <4>1, <4>3, <5>1
      <4> QED BY <4>2, <4>3
    <3> QED BY <3>4, <3>5
  <2> HIDE DEF rest
  <2>3. IsInjective(rest) /\ \A j \in 1 .. Len(map) - 1 : rest[j] # x
    <3>1. \A a, b \in 1 .. Len(map) : map[a] = map[b] => a = b
      BY DEF IsInjective
    <3>2. \A a, b \in 1 .. Len(map) - 1 : rest[a] = rest[b] => a = b
      BY <2>2, <3>1
    <3>3. \A j \in 1 .. Len(map) - 1 : rest[j] # x
      BY <2>1, <2>2, <3>1
    <3>4. DOMAIN rest = 1 .. Len(map) - 1
      BY <2>2
    <3> QED BY <3>2, <3>3, <3>4 DEF IsInjective
  <2>4. ToSet(rest) \subseteq ToSet(map) /\ x \notin ToSet(rest)
    BY <2>1, <2>2, <2>3 DEF ToSet
  <2> QED BY <2>1, <2>2, <2>3, <2>4 DEF rest
<1> QED BY <1>1, <1>2

\* An entry that is put is there, and nothing else is new.
LEMMA PutFacts ==
    ASSUME NEW S, NEW map \in Seq(S), IsInjective(map), NEW x \in S, NEW size \in Nat \ {0},
           Len(map) <= size
    PROVE  /\ Put(map, x, size) \in Seq(S) /\ IsInjective(Put(map, x, size))
           /\ Len(Put(map, x, size)) <= size
           /\ x \in ToSet(Put(map, x, size))
           /\ ToSet(Put(map, x, size)) \subseteq ToSet(map) \cup {x}
<1> DEFINE rest == Without(map, x)
           longer == Append(rest, x)
<1>1. /\ rest \in Seq(S) /\ IsInjective(rest) /\ Len(rest) <= Len(map)
      /\ x \notin ToSet(rest) /\ ToSet(rest) \subseteq ToSet(map)
  BY WithoutFacts
<1> HIDE DEF rest
<1>2. /\ longer \in Seq(S) /\ Len(longer) = Len(rest) + 1
      /\ \A j \in 1 .. Len(rest) : longer[j] = rest[j] /\ rest[j] # x
      /\ longer[Len(rest) + 1] = x
  BY <1>1 DEF ToSet
<1>3. IsInjective(longer)
  BY <1>1, <1>2 DEF IsInjective
<1>4. \A j \in 1 .. Len(longer) : longer[j] \in ToSet(map) \cup {x}
  BY <1>1, <1>2 DEF ToSet
<1> HIDE DEF longer
<1>5. CASE Len(longer) > size
  <2>1. Put(map, x, size) = Tail(longer)
    BY <1>5 DEF Put, longer, rest
  <2>2. /\ Tail(longer) \in Seq(S) /\ Len(Tail(longer)) = Len(longer) - 1
        /\ \A j \in 1 .. Len(longer) - 1 : Tail(longer)[j] = longer[j + 1]
    BY <1>2, <1>5
  <2>3. Len(rest) >= 1 /\ Tail(longer)[Len(rest)] = x
    BY <1>1, <1>2, <1>5, <2>2
  <2>4. IsInjective(Tail(longer))
    BY <1>2, <1>3, <2>2 DEF IsInjective
  <2> QED BY <1>1, <1>2, <1>4, <1>5, <2>1, <2>2, <2>3, <2>4 DEF ToSet
<1>6. CASE Len(longer) <= size
  <2>1. Put(map, x, size) = longer
    BY <1>2, <1>6 DEF Put, longer, rest
  <2> QED BY <1>1, <1>2, <1>3, <1>4, <1>6, <2>1 DEF ToSet
<1> QED BY <1>2, <1>5, <1>6

-----------------------------------------------------------------------------
(* Rows, marks and jobs.                                                   *)

MapsInv ==
    /\ seen \in Seq(Mark) /\ Len(seen) <= CacheSize /\ IsInjective(seen)
    /\ stored \in Seq(Deliveries) /\ Len(stored) <= StoreSize /\ IsInjective(stored)
    /\ handled \subseteq Deliveries

CountsInv ==
    /\ sends \in 0 .. MaxSends /\ requests \in 0 .. MaxRequests
    /\ faults \in 0 .. MaxFaults /\ crashes \in 0 .. MaxCrashes

\* A job that waits has an attempt left, one that runs has begun one.
JobsInv ==
    /\ jobs \in [JobIds -> Job]
    /\ \A k \in JobIds : /\ jobs[k].state = "waiting" => jobs[k].tries < MaxAttempts
                         /\ jobs[k].state = "active" => jobs[k].tries >= 1

\* Every review a delivery opened is covered by a mark that was lost or by the
\* mark that is there.
MarkedInv ==
    /\ reviews \in [Deliveries -> Nat] /\ lost \in [Deliveries -> Nat]
    /\ \A d \in Deliveries :
          reviews[d] <= lost[d] + (IF MarkOf(d) \in ToSet(seen) THEN 1 ELSE 0)

RowsInv == records \in Seq(Row)

IngressInv ==
    /\ MapsInv /\ CountsInv /\ RowsInv /\ JobsInv /\ MarkedInv
    /\ QueuedHasJob /\ SwallowedBounded

LEMMA JobIdFacts ==
    \A s \in Sources : JobId(s) \in JobIds /\ HeadOf[s] = HeadOfJob(JobId(s))
  BY IngressAssumption DEF Sources, JobId, JobIds, HeadOfJob

LEMMA AddedFacts ==
    ASSUME NEW k \in JobIds, NEW n \in Nat, JobsInv, Add(k, n)
    PROVE  /\ JobsInv'
           /\ \A i \in JobIds \ {k} : jobs'[i] = jobs[i]
           /\ jobs[k] # NoJob => jobs' = jobs
           /\ jobs[k] = NoJob => jobs'[k].review = n /\ jobs'[k].state = "waiting"
<1> DEFINE new == [state |-> "waiting", review |-> n, tries |-> 0]
<1>1. new \in Job /\ 0 < MaxAttempts
  BY IngressAssumption DEF Job
<1>2. CASE jobs[k] # NoJob
  <2>1. jobs' = jobs
    BY <1>2 DEF Add
  <2> QED BY <1>2, <2>1 DEF JobsInv
<1>3. CASE jobs[k] = NoJob
  <2>1. jobs' = [jobs EXCEPT ![k] = new]
    BY <1>3 DEF Add
  <2>2. jobs' \in [JobIds -> Job] /\ jobs'[k] = new /\ \A i \in JobIds \ {k} : jobs'[i] = jobs[i]
    <3> HIDE DEF new
    <3> QED BY <1>1, <2>1 DEF JobsInv
  <2> QED BY <1>1, <1>3, <2>2 DEF JobsInv
<1> QED BY <1>2, <1>3

\* A review that is started is a row at the end.
LEMMA StartFacts ==
    ASSUME RowsInv, NEW s \in Sources, NEW b \in BOOLEAN, StartReview(s, b)
    PROVE  /\ RowsInv' /\ DOMAIN records' = DOMAIN records \cup {Len(records) + 1}
           /\ \A m \in DOMAIN records : m # Len(records) + 1 /\ records'[m] = records[m]
           /\ records'[Len(records) + 1] =
                 [src |-> s, replay |-> b, status |-> "queued", enqueue |-> "pending"]
<1> DEFINE row == [src |-> s, replay |-> b, status |-> "queued", enqueue |-> "pending"]
<1>1. row \in Row /\ records' = Append(records, row)
  BY DEF Row, StartReview
<1> HIDE DEF row
<1>2. /\ records' \in Seq(Row) /\ DOMAIN records' = 1 .. Len(records) + 1
      /\ \A m \in 1 .. Len(records) : records'[m] = records[m]
      /\ records'[Len(records) + 1] = row
  BY <1>1 DEF RowsInv
<1>3. DOMAIN records = 1 .. Len(records) /\ Len(records) \in Nat
  BY DEF RowsInv
<1> QED BY <1>2, <1>3 DEF RowsInv, row

\* A row changes in one field only.
LEMMA TellFacts ==
    ASSUME RowsInv, NEW n \in DOMAIN records, NEW o \in {"added", "ignored", "refused"}, Tell(n, o)
    PROVE  /\ RowsInv' /\ DOMAIN records' = DOMAIN records
           /\ \A m \in DOMAIN records :
                 /\ records'[m].src = records[m].src /\ records'[m].replay = records[m].replay
                 /\ records'[m].status = records[m].status
                 /\ records'[m].enqueue = IF m = n THEN o ELSE records[m].enqueue
<1>1. records[n] \in Row /\ DOMAIN records = 1 .. Len(records) /\ Len(records) \in Nat
  BY DEF RowsInv
<1> DEFINE row == [records[n] EXCEPT !.enqueue = o]
<1>2. /\ row \in Row /\ row.src = records[n].src /\ row.replay = records[n].replay
      /\ row.status = records[n].status /\ row.enqueue = o
  BY <1>1 DEF Row
<1>3. records' = [records EXCEPT ![n] = row]
  BY DEF Tell
<1> HIDE DEF row
<1>4. /\ records' \in Seq(Row) /\ DOMAIN records' = DOMAIN records
      /\ \A m \in DOMAIN records : records'[m] = IF m = n THEN row ELSE records[m]
  BY <1>1, <1>2, <1>3 DEF RowsInv
<1> QED BY <1>2, <1>4 DEF RowsInv

LEMMA StatusFacts ==
    ASSUME RowsInv, JobsInv, NEW k \in JobIds, NEW st \in {"running", "completed", "failed"}, SetStatus(k, st)
    PROVE  /\ RowsInv' /\ DOMAIN records' = DOMAIN records
           /\ \A m \in DOMAIN records :
                 /\ records'[m].src = records[m].src /\ records'[m].replay = records[m].replay
                 /\ records'[m].enqueue = records[m].enqueue
                 /\ records'[m].status = IF Known(k) /\ m = jobs[k].review THEN st ELSE records[m].status
<1>1. CASE ~Known(k)
  BY <1>1 DEF SetStatus, RowsInv
<1>2. CASE Known(k)
  <2> DEFINE n == jobs[k].review
  <2>1. n \in DOMAIN records
    BY <1>2 DEF Known
  <2> HIDE DEF n
  <2>2. records[n] \in Row /\ DOMAIN records = 1 .. Len(records) /\ Len(records) \in Nat
    BY <2>1 DEF RowsInv
  <2> DEFINE row == [records[n] EXCEPT !.status = st]
  <2>3. /\ row \in Row /\ row.src = records[n].src /\ row.replay = records[n].replay
        /\ row.status = st /\ row.enqueue = records[n].enqueue
    BY <2>2 DEF Row
  <2>4. records' = [records EXCEPT ![n] = row]
    BY <1>2 DEF SetStatus, n
  <2> HIDE DEF row
  <2>5. /\ records' \in Seq(Row) /\ DOMAIN records' = DOMAIN records
        /\ \A m \in DOMAIN records : records'[m] = IF m = n THEN row ELSE records[m]
    BY <2>1, <2>2, <2>3, <2>4 DEF RowsInv
  <2> QED BY <1>2, <2>3, <2>5 DEF RowsInv, n
<1> QED BY <1>1, <1>2

LEMMA ReserveFacts ==
    ASSUME MapsInv, NEW mark \in Mark, Reserve(mark)
    PROVE  /\ seen' \in Seq(Mark) /\ Len(seen') <= CacheSize /\ IsInjective(seen')
           /\ mark \in ToSet(seen') /\ ToSet(seen') \subseteq ToSet(seen) \cup {mark}
           /\ NoteLost
<1>1. /\ seen' \in Seq(Mark) /\ Len(seen') <= CacheSize /\ IsInjective(seen')
      /\ mark \in ToSet(seen') /\ ToSet(seen') \subseteq ToSet(seen) \cup {mark}
  BY PutFacts, IngressAssumption DEF MapsInv, Reserve
<1> QED BY <1>1 DEF Reserve

\* A dispatch starts a review or leaves the rows alone.
LEMMA DispatchFacts ==
    ASSUME NEW d \in Deliveries, NEW b \in BOOLEAN, Dispatch(d, b)
    PROVE  \/ /\ d \in Malformed \cup Filtered \/ IsPaused(health)
              /\ records' = records /\ reviews' = reviews
           \/ StartReview(d, b)
  BY DEF Dispatch

-----------------------------------------------------------------------------
(* What keeps the three promises.                                          *)

\* No review is opened, and a mark that goes is noted.
LEMMA MarksStay ==
    ASSUME MarkedInv, reviews' = reviews, NoteLost \/ UNCHANGED <<seen, lost>>
    PROVE  MarkedInv'
<1>1. CASE UNCHANGED <<seen, lost>>
  BY <1>1 DEF MarkedInv
<1>2. CASE NoteLost
  BY <1>2 DEF MarkedInv, NoteLost
<1> QED BY <1>1, <1>2

\* A review is opened by a delivery that had no mark and has one now.
LEMMA OpenedOnce ==
    ASSUME MarkedInv, NEW d \in Deliveries, reviews' = [reviews EXCEPT ![d] = @ + 1], NoteLost,
           MarkOf(d) \notin ToSet(seen), MarkOf(d) \in ToSet(seen')
    PROVE  MarkedInv'
<1>1. reviews[d] <= lost[d] /\ lost'[d] = lost[d]
  BY DEF MarkedInv, NoteLost
<1>2. \A e \in Deliveries : reviews'[e] = IF e = d THEN reviews[d] + 1 ELSE reviews[e]
  BY DEF MarkedInv
<1>3. reviews' \in [Deliveries -> Nat] /\ lost' \in [Deliveries -> Nat]
  BY DEF MarkedInv, NoteLost
<1>4. ASSUME NEW e \in Deliveries
      PROVE  reviews'[e] <= lost'[e] + (IF MarkOf(e) \in ToSet(seen') THEN 1 ELSE 0)
  <2>1. CASE e = d
    BY <1>1, <1>2, <2>1 DEF MarkedInv
  <2>2. CASE e # d
    BY <1>2, <2>2 DEF MarkedInv, NoteLost
  <2> QED BY <2>1, <2>2
<1> QED BY <1>3, <1>4 DEF MarkedInv

\* Rows that come to be neither queued nor added, while the jobs of those that are stay.
LEMMA QueuedStays ==
    ASSUME QueuedHasJob,
           \A m \in DOMAIN records' :
              records'[m].status = "queued" /\ records'[m].enqueue = "added" =>
                 /\ m \in DOMAIN records /\ records'[m].src = records[m].src
                 /\ records[m].status = "queued" /\ records[m].enqueue = "added"
                 /\ jobs'[JobId(records[m].src)] = jobs[JobId(records[m].src)]
    PROVE  QueuedHasJob'
<1> SUFFICES ASSUME NEW m \in DOMAIN records', records'[m].status = "queued", records'[m].enqueue = "added"
             PROVE  jobs'[JobId(records'[m].src)].review = m /\ jobs'[JobId(records'[m].src)].state = "waiting"
  BY DEF QueuedHasJob, JobId
<1> QED BY DEF QueuedHasJob

LEMMA SwallowedFinite == IsFiniteSet(Swallowed \ Malformed) /\ Cardinality(Swallowed \ Malformed) \in Nat
<1>1. Swallowed \ Malformed \in SUBSET Deliveries
  BY DEF Swallowed
<1> QED BY <1>1, FS_Subset, FS_CardinalityType, IngressAssumption

LEMMA SwallowedStays ==
    ASSUME SwallowedBounded, Swallowed' \ Malformed \subseteq Swallowed \ Malformed, faults' = faults, faults \in Nat
    PROVE  SwallowedBounded'
<1>1. /\ Cardinality(Swallowed' \ Malformed) <= Cardinality(Swallowed \ Malformed)
      /\ Cardinality(Swallowed' \ Malformed) \in Nat
  BY SwallowedFinite, FS_Subset, FS_CardinalityType
<1> QED BY <1>1, SwallowedFinite DEF SwallowedBounded

\* No delivery is swallowed by a step that keeps marks and rows and takes no credit back.
LEMMA NothingSwallowed ==
    ASSUME ToSet(seen') \subseteq ToSet(seen), handled \subseteq handled',
           DOMAIN records \subseteq DOMAIN records',
           \A m \in DOMAIN records : /\ records'[m].src = records[m].src
                                     /\ records[m].enqueue = "pending" => records'[m].enqueue = "pending"
    PROVE  Swallowed' \ Malformed \subseteq Swallowed \ Malformed
  BY DEF Swallowed

-----------------------------------------------------------------------------
(* The requests.                                                           *)

LEMMA IngressStarts == Init => IngressInv
<1> SUFFICES ASSUME Init PROVE IngressInv
  OBVIOUS
<1>1. seen = <<>> /\ stored = <<>> /\ records = <<>> /\ handled = {}
  BY DEF Init
<1>2. ToSet(seen) = {} /\ DOMAIN records = {}
  BY <1>1 DEF ToSet
<1>3. MapsInv
  BY <1>1, IngressAssumption DEF MapsInv, IsInjective
<1>4. CountsInv /\ RowsInv
  BY <1>1, IngressAssumption DEF Init, CountsInv, RowsInv
<1>5. JobsInv
  <2>1. NoJob \in Job
    BY IngressAssumption DEF NoJob, Job
  <2>2. NoJob.state = "none"
    BY DEF NoJob
  <2>3. jobs = [k \in JobIds |-> NoJob]
    BY DEF Init
  <2> QED BY <2>1, <2>2, <2>3 DEF JobsInv
<1>6. MarkedInv /\ QueuedHasJob
  BY <1>2 DEF Init, MarkedInv, QueuedHasJob
<1>7. SwallowedBounded
  <2>1. Swallowed \ Malformed = {}
    BY <1>2 DEF Swallowed
  <2>2. faults = 0
    BY DEF Init
  <2> QED BY <2>1, <2>2, FS_EmptySet DEF SwallowedBounded
<1> QED BY <1>3, <1>4, <1>5, <1>6, <1>7 DEF IngressInv

LEMMA DeliverKeeps ==
    ASSUME IngressInv, NEW d \in Deliveries, Deliver(d)
    PROVE  IngressInv'
<1> USE DEF IngressInv
<1>1. /\ UNCHANGED <<jobs, requests, faults, crashes>> /\ sends' = sends + 1 /\ sends < MaxSends
      /\ Reserve(MarkOf(d)) /\ MarkOf(d) \in Mark
  BY IngressAssumption DEF Deliver, MarkOf, Mark
<1>2. /\ seen' \in Seq(Mark) /\ Len(seen') <= CacheSize /\ IsInjective(seen')
      /\ MarkOf(d) \in ToSet(seen') /\ ToSet(seen') \subseteq ToSet(seen) \cup {MarkOf(d)}
      /\ NoteLost
  BY <1>1, ReserveFacts
<1>3. CountsInv' /\ JobsInv'
  BY <1>1, IngressAssumption DEF CountsInv, JobsInv
<1>4. ASSUME MarkOf(d) \in ToSet(seen), UNCHANGED <<stored, records, handled, reviews>>
      PROVE  IngressInv'
  <2>1. MapsInv' /\ RowsInv'
    BY <1>2, <1>4 DEF MapsInv, RowsInv
  <2>2. MarkedInv'
    BY <1>2, <1>4, MarksStay
  <2>3. QueuedHasJob'
    BY <1>1, <1>4, QueuedStays
  <2>4. SwallowedBounded'
    <3>1. ToSet(seen') \subseteq ToSet(seen)
      BY <1>2, <1>4
    <3>2. Swallowed' \ Malformed \subseteq Swallowed \ Malformed
      BY <1>4, <3>1, NothingSwallowed
    <3> QED BY <1>1, <3>2, SwallowedStays DEF CountsInv
  <2> QED BY <1>3, <2>1, <2>2, <2>3, <2>4
<1>5. ASSUME MarkOf(d) \notin ToSet(seen), stored' = Put(stored, d, StoreSize), Dispatch(d, FALSE),
             handled' = IF Ignored(d) THEN handled \cup {d} ELSE handled
      PROVE  IngressInv'
  <2>1. MapsInv'
    <3>1. stored' \in Seq(Deliveries) /\ Len(stored') <= StoreSize /\ IsInjective(stored')
      BY <1>5, PutFacts, IngressAssumption DEF MapsInv
    <3> QED BY <1>2, <1>5, <3>1 DEF MapsInv
  <2>2. \A e \in Swallowed' \ Malformed :
           MarkOf(e) \in ToSet(seen') /\ e \in Deliveries /\ e \notin handled' /\ e \notin Malformed
    BY DEF Swallowed, MarkOf
  <2>3. CASE records' = records /\ reviews' = reviews /\ (d \in Malformed \cup Filtered \/ IsPaused(health))
    <3>1. MarkedInv'
      BY <1>2, <2>3, MarksStay
    <3>2. QueuedHasJob' /\ RowsInv'
      BY <1>1, <2>3, QueuedStays DEF RowsInv
    <3>3. ASSUME NEW e \in Swallowed', e \notin Malformed PROVE e \in Swallowed
      <4>1. e # d
        BY <1>5, <2>2, <2>3, <3>3 DEF Ignored
      <4>2. MarkOf(e) # MarkOf(d)
        BY <4>1 DEF MarkOf
      <4>3. MarkOf(e) \in ToSet(seen) /\ e \in Deliveries /\ e \notin handled
        BY <1>2, <1>5, <2>2, <3>3, <4>2
      <4> QED BY <2>3, <4>3 DEF Swallowed, MarkOf
    <3>4. SwallowedBounded'
      BY <1>1, <3>3, SwallowedStays DEF CountsInv
    <3> QED BY <1>3, <2>1, <3>1, <3>2, <3>4
  <2>4. CASE StartReview(d, FALSE)
    <3> DEFINE new == Len(records) + 1
    <3>1. /\ RowsInv' /\ DOMAIN records' = DOMAIN records \cup {new}
          /\ \A m \in DOMAIN records : m # new /\ records'[m] = records[m]
          /\ records'[new] = [src |-> d, replay |-> FALSE, status |-> "queued", enqueue |-> "pending"]
      BY <2>4, StartFacts DEF Sources
    <3> HIDE DEF new
    <3>2. records'[new].src = d /\ records'[new].enqueue = "pending"
      BY <3>1
    <3>3. reviews' = [reviews EXCEPT ![d] = @ + 1]
      BY <2>4, IngressAssumption DEF StartReview
    <3>5. MarkedInv'
      BY <1>2, <1>5, <3>3, OpenedOnce
    <3>7. QueuedHasJob'
      BY <1>1, <3>1, <3>2, QueuedStays
    <3>8. ASSUME NEW e \in Swallowed', e \notin Malformed PROVE e \in Swallowed
      <4>1. e # d
        BY <3>1, <3>2, <3>8 DEF Swallowed
      <4>2. MarkOf(e) # MarkOf(d)
        BY <4>1 DEF MarkOf
      <4>3. MarkOf(e) \in ToSet(seen) /\ e \in Deliveries /\ e \notin handled
        BY <1>2, <1>5, <2>2, <3>8, <4>2
      <4> QED BY <3>1, <3>8, <4>3 DEF Swallowed, MarkOf
    <3>9. SwallowedBounded'
      BY <1>1, <3>8, SwallowedStays DEF CountsInv
    <3> QED BY <1>3, <2>1, <3>1, <3>5, <3>7, <3>9
  <2> QED BY <1>5, <2>3, <2>4, DispatchFacts
<1> QED BY <1>4, <1>5 DEF Deliver, MarkOf

\* The mark of a replay is nobody's own, and its row says it is a replay.
LEMMA ReplayKeeps ==
    ASSUME IngressInv, NEW d \in Deliveries, Replay(d)
    PROVE  IngressInv'
<1> USE DEF IngressInv
<1> DEFINE mark == [of |-> d, seq |-> requests']
<1>1. /\ UNCHANGED <<stored, jobs, sends, faults, crashes, handled>> /\ requests' = requests + 1
      /\ requests' \in 1 .. MaxRequests /\ Reserve(mark) /\ mark \in Mark /\ Dispatch(d, TRUE)
  <2>1. /\ UNCHANGED <<stored, jobs, sends, faults, crashes, handled>> /\ requests' = requests + 1
        /\ requests < MaxRequests /\ Reserve(mark) /\ Dispatch(d, TRUE)
    BY DEF Replay
  <2>2. requests' \in 1 .. MaxRequests
    BY <2>1, IngressAssumption DEF CountsInv
  <2>3. mark \in Mark
    BY <2>2, IngressAssumption DEF Mark
  <2> QED BY <2>1, <2>2, <2>3
<1>2. \A e \in Deliveries : MarkOf(e) # mark
  BY <1>1 DEF MarkOf
<1> HIDE DEF mark
<1>3. /\ seen' \in Seq(Mark) /\ Len(seen') <= CacheSize /\ IsInjective(seen')
      /\ ToSet(seen') \subseteq ToSet(seen) \cup {mark} /\ NoteLost
  BY <1>1, ReserveFacts
<1>4. CountsInv' /\ JobsInv' /\ MapsInv'
  BY <1>1, <1>3, IngressAssumption DEF CountsInv, JobsInv, MapsInv
<1>5. ASSUME NEW e \in Deliveries, MarkOf(e) \in ToSet(seen') PROVE MarkOf(e) \in ToSet(seen)
  BY <1>2, <1>3, <1>5
<1>6. CASE records' = records /\ reviews' = reviews
  <2>1. MarkedInv'
    BY <1>3, <1>6, MarksStay
  <2>2. QueuedHasJob' /\ RowsInv'
    BY <1>1, <1>6, QueuedStays DEF RowsInv
  <2>3. Swallowed' \ Malformed \subseteq Swallowed \ Malformed
    BY <1>1, <1>5, <1>6 DEF Swallowed, MarkOf
  <2>4. SwallowedBounded'
    BY <1>1, <2>3, SwallowedStays DEF CountsInv
  <2> QED BY <1>4, <2>1, <2>2, <2>4
<1>7. CASE StartReview(d, TRUE)
  <2> DEFINE new == Len(records) + 1
  <2>1. /\ RowsInv' /\ DOMAIN records' = DOMAIN records \cup {new}
        /\ \A m \in DOMAIN records : m # new /\ records'[m] = records[m]
        /\ records'[new] = [src |-> d, replay |-> TRUE, status |-> "queued", enqueue |-> "pending"]
    BY <1>7, StartFacts DEF Sources
  <2> HIDE DEF new
  <2>2. records'[new].src = d /\ records'[new].replay /\ records'[new].enqueue = "pending"
    BY <2>1
  <2>3. MarkedInv'
    <3>1. reviews' = reviews
      BY <1>7 DEF StartReview
    <3> QED BY <1>3, <3>1, MarksStay
  <2>5. QueuedHasJob'
    BY <1>1, <2>1, <2>2, QueuedStays
  <2>6. Swallowed' \ Malformed \subseteq Swallowed \ Malformed
    BY <1>1, <1>5, <2>1 DEF Swallowed, MarkOf
  <2>7. SwallowedBounded'
    BY <1>1, <2>6, SwallowedStays DEF CountsInv
  <2> QED BY <1>4, <2>1, <2>3, <2>5, <2>7
<1> QED BY <1>1, <1>6, <1>7, DispatchFacts

\* A re-run is asked for once.
LEMMA RerunKeeps ==
    ASSUME IngressInv, NEW s \in Reruns, Rerun(s)
    PROVE  IngressInv'
<1> USE DEF IngressInv
<1> DEFINE new == Len(records) + 1
<1>1. /\ UNCHANGED <<seen, stored, health, jobs, sends, faults, crashes, handled, lost>>
      /\ requests' = requests + 1 /\ requests < MaxRequests /\ StartReview(s, FALSE)
      /\ \A n \in DOMAIN records : records[n].src # s
  BY DEF Rerun
<1>2. MapsInv' /\ CountsInv' /\ JobsInv'
  BY <1>1, IngressAssumption DEF MapsInv, CountsInv, JobsInv
<1>3. /\ RowsInv' /\ DOMAIN records' = DOMAIN records \cup {new}
      /\ \A m \in DOMAIN records : m # new /\ records'[m] = records[m]
      /\ records'[new] = [src |-> s, replay |-> FALSE, status |-> "queued", enqueue |-> "pending"]
  BY <1>1, StartFacts DEF Sources
<1> HIDE DEF new
<1>4. records'[new].src = s /\ records'[new].enqueue = "pending"
  BY <1>3
<1>5. MarkedInv'
  <2>1. reviews' = reviews
    BY <1>1 DEF StartReview
  <2> QED BY <1>1, <2>1, MarksStay
<1>7. QueuedHasJob'
  BY <1>1, <1>3, <1>4, QueuedStays
<1>8. Swallowed' \ Malformed \subseteq Swallowed \ Malformed
  BY <1>1, <1>3, NothingSwallowed
<1>9. SwallowedBounded'
  BY <1>1, <1>8, SwallowedStays DEF CountsInv
<1> QED BY <1>2, <1>3, <1>5, <1>7, <1>9

-----------------------------------------------------------------------------
(* The queue.                                                              *)

\* A row is told "added" exactly if the job under its id is its own from now on.
LEMMA AddKeepsQueued ==
    ASSUME IngressInv, NEW n \in DOMAIN records, NEW o \in {"added", "ignored", "refused"},
           Tell(n, o), Add(JobId(records[n].src), n),
           o = "added" => jobs[JobId(records[n].src)] = NoJob
    PROVE  QueuedHasJob'
<1> USE DEF IngressInv
<1> DEFINE k == JobId(records[n].src)
<1>1. records[n] \in Row /\ n \in Nat
  BY DEF RowsInv
<1>2. k \in JobIds
  BY <1>1, JobIdFacts DEF Row
<1>3. /\ \A i \in JobIds \ {k} : jobs'[i] = jobs[i]
      /\ jobs[k] # NoJob => jobs' = jobs
      /\ jobs[k] = NoJob => jobs'[k].review = n /\ jobs'[k].state = "waiting"
  BY <1>1, <1>2, AddedFacts
<1>4. /\ DOMAIN records' = DOMAIN records
      /\ \A m \in DOMAIN records :
            /\ records'[m].src = records[m].src /\ records'[m].status = records[m].status
            /\ records'[m].enqueue = IF m = n THEN o ELSE records[m].enqueue
  BY TellFacts
<1> HIDE DEF k
<1> SUFFICES ASSUME NEW m \in DOMAIN records, records[m].status = "queued", records'[m].enqueue = "added"
             PROVE  jobs'[JobId(records[m].src)].review = m /\ jobs'[JobId(records[m].src)].state = "waiting"
  BY <1>4 DEF QueuedHasJob, JobId
<1>5. CASE m = n
  <2>1. o = "added"
    BY <1>4, <1>5
  <2>2. jobs[k] = NoJob /\ JobId(records[m].src) = k
    BY <1>5, <2>1 DEF k
  <2> QED BY <1>3, <1>5, <2>2
<1>6. CASE m # n
  <2> DEFINE i == JobId(records[m].src)
  <2>1. jobs[i].review = m /\ jobs[i].state = "waiting"
    BY <1>4, <1>6 DEF QueuedHasJob
  <2>2. i \in JobIds
    <3>1. records[m] \in Row
      BY DEF RowsInv
    <3> QED BY <3>1, JobIdFacts DEF Row
  <2>3. jobs[i] # NoJob
    BY <2>1 DEF NoJob
  <2> HIDE DEF i
  <2>4. jobs'[i] = jobs[i]
    BY <1>3, <2>2, <2>3
  <2> QED BY <2>1, <2>4 DEF i
<1> QED BY <1>5, <1>6

LEMMA EnqueueKeeps ==
    ASSUME IngressInv, NEW n \in DOMAIN records, Enqueue(n)
    PROVE  IngressInv'
<1> USE DEF IngressInv
<1> DEFINE k == JobId(records[n].src)
           o == IF jobs[k] = NoJob THEN "added" ELSE "ignored"
<1>1. /\ UNCHANGED <<seen, stored, health, sends, requests, faults, crashes, reviews, lost>>
      /\ Add(k, n) /\ Tell(n, o) /\ o \in {"added", "ignored", "refused"}
      /\ o = "added" => jobs[k] = NoJob
      /\ handled' = handled \cup ({records[n].src} \cap Deliveries)
  BY DEF Enqueue, Credit, bounds
<1>2. records[n] \in Row /\ n \in Nat
  BY DEF RowsInv
<1>3. k \in JobIds
  BY <1>2, JobIdFacts DEF Row
<1> HIDE DEF o
<1>4. JobsInv'
  BY <1>1, <1>2, <1>3, AddedFacts
<1>5. QueuedHasJob'
  BY <1>1, AddKeepsQueued
<1>6. /\ RowsInv' /\ DOMAIN records' = DOMAIN records
      /\ \A m \in DOMAIN records :
            /\ records'[m].src = records[m].src /\ records'[m].replay = records[m].replay
            /\ records'[m].enqueue = IF m = n THEN o ELSE records[m].enqueue
  BY <1>1, TellFacts
<1>7. MapsInv' /\ CountsInv'
  BY <1>1 DEF MapsInv, CountsInv
<1>8. MarkedInv'
  BY <1>1, <1>6, MarksStay
<1>9. Swallowed' \ Malformed \subseteq Swallowed \ Malformed
  <2> SUFFICES ASSUME NEW e \in Swallowed' PROVE e \in Swallowed
    OBVIOUS
  <2>1. /\ e \in Deliveries /\ MarkOf(e) \in ToSet(seen) /\ e \notin handled'
        /\ \A m \in DOMAIN records' : records'[m].src = e => records'[m].enqueue # "pending"
    BY <1>1 DEF Swallowed, MarkOf
  <2>2. e \notin handled /\ records[n].src # e
    BY <1>1, <2>1
  <2>3. \A m \in DOMAIN records : records[m].src = e => records[m].enqueue # "pending"
    BY <1>6, <2>1, <2>2
  <2> QED BY <2>1, <2>2, <2>3 DEF Swallowed, MarkOf
<1>10. SwallowedBounded'
  BY <1>1, <1>9, SwallowedStays DEF CountsInv
<1> QED BY <1>4, <1>5, <1>6, <1>7, <1>8, <1>10

\* A failed enqueue costs one delivery at most.
LEMMA EnqueueFailsKeeps ==
    ASSUME IngressInv, NEW n \in DOMAIN records, EnqueueFails(n)
    PROVE  IngressInv'
<1> USE DEF IngressInv
<1> DEFINE k == JobId(records[n].src)
<1>1. /\ UNCHANGED <<seen, stored, health, sends, requests, crashes, reviews, lost>>
      /\ faults' = faults + 1 /\ faults < MaxFaults
      /\ Tell(n, "refused")
      /\ \/ jobs' = jobs /\ handled' = handled
         \/ Add(k, n) /\ handled' = handled \cup ({records[n].src} \cap Deliveries)
  BY DEF EnqueueFails, Credit
<1>2. records[n] \in Row /\ n \in Nat
  BY DEF RowsInv
<1>3. k \in JobIds
  BY <1>2, JobIdFacts DEF Row
<1>4. /\ RowsInv' /\ DOMAIN records' = DOMAIN records
      /\ \A m \in DOMAIN records :
            /\ records'[m].src = records[m].src /\ records'[m].replay = records[m].replay
            /\ records'[m].status = records[m].status
            /\ records'[m].enqueue = IF m = n THEN "refused" ELSE records[m].enqueue
  BY <1>1, TellFacts
<1>5. JobsInv'
  BY <1>1, <1>2, <1>3, AddedFacts DEF JobsInv
<1>6. QueuedHasJob'
  <2>1. CASE jobs' = jobs
    BY <1>4, <2>1, QueuedStays
  <2>2. CASE Add(k, n)
    BY <1>1, <2>2, AddKeepsQueued
  <2> QED BY <1>1, <2>1, <2>2
<1> HIDE DEF k
<1>7. MapsInv' /\ CountsInv'
  BY <1>1, IngressAssumption DEF MapsInv, CountsInv
<1>8. MarkedInv'
  BY <1>1, <1>4, MarksStay
<1>9. SwallowedBounded'
  <2> DEFINE old == Swallowed \ Malformed
             more == old \cup {records[n].src}
  <2>1. Swallowed' \ Malformed \subseteq more
    <3> SUFFICES ASSUME NEW e \in Swallowed', e # records[n].src PROVE e \in Swallowed
      OBVIOUS
    <3>1. /\ e \in Deliveries /\ MarkOf(e) \in ToSet(seen) /\ e \notin handled'
          /\ \A m \in DOMAIN records' : records'[m].src = e => records'[m].enqueue # "pending"
      BY <1>1 DEF Swallowed, MarkOf
    <3>2. e \notin handled
      BY <1>1, <3>1
    <3>3. \A m \in DOMAIN records : records[m].src = e => records[m].enqueue # "pending"
      BY <1>4, <3>1
    <3> QED BY <3>1, <3>2, <3>3 DEF Swallowed, MarkOf
  <2>2. IsFiniteSet(old) /\ Cardinality(old) \in Nat /\ Cardinality(old) <= faults
    BY SwallowedFinite DEF SwallowedBounded
  <2>3. IsFiniteSet(more) /\ Cardinality(more) <= Cardinality(old) + 1 /\ Cardinality(more) \in Nat
    <3> HIDE DEF old
    <3>1. IsFiniteSet(more) /\ Cardinality(more) <= Cardinality(old) + 1
      BY <2>2, FS_AddElement
    <3> QED BY <3>1, FS_CardinalityType
  <2>4. Cardinality(Swallowed' \ Malformed) <= Cardinality(more) /\ Cardinality(Swallowed' \ Malformed) \in Nat
    <3> HIDE DEF more
    <3> QED BY <2>1, <2>3, FS_Subset, FS_CardinalityType
  <2> HIDE DEF old, more
  <2> QED BY <1>1, <2>2, <2>3, <2>4 DEF SwallowedBounded, CountsInv
<1> QED BY <1>4, <1>5, <1>6, <1>7, <1>8, <1>9

-----------------------------------------------------------------------------
(* The jobs.                                                               *)

\* A step of a job k that waits or runs, which moves its row out of "queued".
LEMMA JobStepKeeps ==
    ASSUME IngressInv, NEW k \in JobIds, NEW st \in {"running", "completed", "failed"}, SetStatus(k, st),
           JobsInv', \A i \in JobIds \ {k} : jobs'[i] = jobs[i],
           UNCHANGED <<seen, stored, bounds, history>>
    PROVE  IngressInv'
<1> USE DEF IngressInv
<1>1. UNCHANGED <<sends, requests, faults, crashes, handled, reviews, lost>>
  BY DEF bounds, history
<1>2. /\ RowsInv' /\ DOMAIN records' = DOMAIN records
      /\ \A m \in DOMAIN records :
            /\ records'[m].src = records[m].src /\ records'[m].replay = records[m].replay
            /\ records'[m].enqueue = records[m].enqueue
            /\ records'[m].status = IF Known(k) /\ m = jobs[k].review THEN st ELSE records[m].status
  BY StatusFacts
<1>3. MapsInv' /\ CountsInv'
  BY <1>1 DEF MapsInv, CountsInv
<1>4. MarkedInv'
  BY <1>1, MarksStay
<1>5. QueuedHasJob'
  <2> SUFFICES ASSUME NEW m \in DOMAIN records, records'[m].status = "queued", records[m].enqueue = "added"
               PROVE  /\ records[m].status = "queued"
                      /\ jobs'[JobId(records[m].src)] = jobs[JobId(records[m].src)]
    BY <1>2, QueuedStays
  <2>1. ~(Known(k) /\ m = jobs[k].review) /\ records[m].status = "queued"
    BY <1>2
  <2>2. JobId(records[m].src) \in JobIds /\ HeadOf[records[m].src] = HeadOfJob(JobId(records[m].src))
    <3>1. records[m] \in Row
      BY DEF RowsInv
    <3> QED BY <3>1, JobIdFacts DEF Row
  <2>3. jobs[JobId(records[m].src)].review = m
    BY <2>1 DEF QueuedHasJob
  <2>4. JobId(records[m].src) # k
    BY <2>1, <2>2, <2>3 DEF Known
  <2> QED BY <2>1, <2>2, <2>4
<1>6. Swallowed' \ Malformed \subseteq Swallowed \ Malformed
  BY <1>1, <1>2, NothingSwallowed
<1>7. SwallowedBounded'
  BY <1>1, <1>6, SwallowedStays DEF CountsInv
<1> QED BY <1>2, <1>3, <1>4, <1>5, <1>7

LEMMA WorkKeeps ==
    ASSUME IngressInv, NEW k \in JobIds, Begin(k) \/ Succeed(k) \/ Skip(k) \/ Fail(k)
    PROVE  IngressInv'
<1> USE DEF IngressInv
<1> DEFINE j == jobs[k]
<1>1. j \in Job /\ j.tries \in 0 .. MaxAttempts /\ MaxAttempts \in Nat
  BY IngressAssumption DEF JobsInv, Job
<1>2. ASSUME NEW new \in Job, jobs' = [jobs EXCEPT ![k] = new],
             new.state = "waiting" => new.tries < MaxAttempts, new.state = "active" => new.tries >= 1
      PROVE  JobsInv' /\ \A i \in JobIds \ {k} : jobs'[i] = jobs[i]
  BY <1>2 DEF JobsInv
<1>3. CASE Begin(k)
  <2> DEFINE t == j.tries + 1
             new == [j EXCEPT !.state = "active", !.tries = t]
  <2>1. j.state = "waiting" /\ jobs' = [jobs EXCEPT ![k] = new]
    BY <1>3 DEF Begin
  <2>2. t \in 0 .. MaxAttempts /\ t >= 1
    <3>1. j.tries < MaxAttempts
      BY <2>1 DEF JobsInv
    <3> QED BY <1>1, <3>1
  <2> HIDE DEF t
  <2>3. new \in Job /\ new.state = "active" /\ new.tries = t
    BY <1>1, <2>2 DEF Job
  <2> HIDE DEF new
  <2>4. JobsInv' /\ \A i \in JobIds \ {k} : jobs'[i] = jobs[i]
    BY <1>2, <2>1, <2>2, <2>3
  <2> QED BY <1>3, <2>4, JobStepKeeps DEF Begin
<1>4. CASE Succeed(k) \/ Skip(k)
  <2> DEFINE new == [j EXCEPT !.state = "completed"]
  <2>1. jobs' = [jobs EXCEPT ![k] = new]
    BY <1>4 DEF Succeed, Skip
  <2>2. new \in Job /\ new.state = "completed"
    BY <1>1 DEF Job
  <2> HIDE DEF new
  <2>3. JobsInv' /\ \A i \in JobIds \ {k} : jobs'[i] = jobs[i]
    BY <1>2, <2>1, <2>2
  <2> QED BY <1>4, <2>3, JobStepKeeps DEF Succeed, Skip
<1>5. CASE Fail(k)
  <2> DEFINE st == IF j.tries < MaxAttempts THEN "waiting" ELSE "failed"
             new == [j EXCEPT !.state = st]
  <2>1. jobs' = [jobs EXCEPT ![k] = new]
    BY <1>5 DEF Fail
  <2>2. new \in Job /\ new.state = st /\ new.tries = j.tries
    BY <1>1 DEF Job
  <2>3. new.state = "waiting" => new.tries < MaxAttempts
    BY <2>2
  <2>4. new.state # "active"
    BY <2>2
  <2> HIDE DEF new
  <2>5. JobsInv' /\ \A i \in JobIds \ {k} : jobs'[i] = jobs[i]
    BY <1>2, <2>1, <2>2, <2>3, <2>4
  <2> QED BY <1>5, <2>5, JobStepKeeps DEF Fail
<1> QED BY <1>3, <1>4, <1>5

\* A job that is forgotten has ended, so no row waits for it.
LEMMA ExpireKeeps ==
    ASSUME IngressInv, NEW k \in JobIds, Expire(k)
    PROVE  IngressInv'
<1> USE DEF IngressInv
<1>1. /\ UNCHANGED <<seen, stored, records, sends, requests, faults, crashes, handled, reviews, lost>>
      /\ jobs[k].state # "waiting" /\ jobs' = [jobs EXCEPT ![k] = NoJob]
  BY DEF Expire, memory, bounds, history
<1>2. NoJob \in Job /\ NoJob.state = "none"
  BY IngressAssumption DEF NoJob, Job
<1>3. JobsInv'
  BY <1>1, <1>2 DEF JobsInv
<1>4. MapsInv' /\ CountsInv' /\ RowsInv'
  BY <1>1 DEF MapsInv, CountsInv, RowsInv
<1>5. MarkedInv'
  BY <1>1, MarksStay
<1>6. QueuedHasJob'
  <2> SUFFICES ASSUME NEW m \in DOMAIN records, records[m].status = "queued", records[m].enqueue = "added"
               PROVE  jobs'[JobId(records[m].src)] = jobs[JobId(records[m].src)]
    BY <1>1, QueuedStays
  <2>1. jobs[JobId(records[m].src)].state = "waiting"
    BY DEF QueuedHasJob
  <2>2. JobId(records[m].src) \in JobIds
    <3>1. records[m] \in Row
      BY DEF RowsInv
    <3> QED BY <3>1, JobIdFacts DEF Row
  <2> QED BY <1>1, <2>1, <2>2 DEF JobsInv
<1>7. SwallowedBounded'
  BY <1>1 DEF SwallowedBounded, Swallowed
<1> QED BY <1>3, <1>4, <1>5, <1>6, <1>7

\* A restart leaves no row and no mark to answer for.
LEMMA RestartKeeps ==
    ASSUME IngressInv, Restart
    PROVE  IngressInv'
<1> USE DEF IngressInv
<1>1. /\ seen' = <<>> /\ stored' = <<>> /\ records' = <<>> /\ NoteLost
      /\ UNCHANGED <<sends, requests, faults, handled, reviews>> /\ crashes' = crashes + 1 /\ crashes < MaxCrashes
  BY DEF Restart
<1>2. ToSet(seen') = {} /\ DOMAIN records' = {}
  BY <1>1 DEF ToSet
<1>3. MapsInv'
  BY <1>1, IngressAssumption DEF MapsInv, IsInjective
<1>4. CountsInv' /\ RowsInv'
  BY <1>1, IngressAssumption DEF CountsInv, RowsInv
<1>5. JobsInv'
  <2> DEFINE Again(k) == [jobs[k] EXCEPT !.state = "waiting", !.tries = jobs[k].tries - 1]
             New(k) == IF jobs[k].state = "active" THEN Again(k) ELSE jobs[k]
  <2>1. jobs' = [k \in JobIds |-> New(k)]
    BY DEF Restart
  <2>2. ASSUME NEW k \in JobIds
        PROVE  /\ New(k) \in Job
               /\ New(k).state = "waiting" => New(k).tries < MaxAttempts
               /\ New(k).state # "active"
    <3>1. jobs[k] \in Job /\ jobs[k].tries \in 0 .. MaxAttempts /\ MaxAttempts \in Nat
      BY IngressAssumption DEF JobsInv, Job
    <3>2. CASE jobs[k].state = "active"
      <4> DEFINE t == jobs[k].tries - 1
      <4>1. jobs[k].tries >= 1
        BY <3>2 DEF JobsInv
      <4>2. t \in 0 .. MaxAttempts /\ t < MaxAttempts
        BY <3>1, <4>1
      <4> HIDE DEF t
      <4>3. /\ [jobs[k] EXCEPT !.state = "waiting", !.tries = t] \in Job
            /\ [jobs[k] EXCEPT !.state = "waiting", !.tries = t].state = "waiting"
            /\ [jobs[k] EXCEPT !.state = "waiting", !.tries = t].tries = t
        BY <3>1, <4>2 DEF Job
      <4>4. New(k) = [jobs[k] EXCEPT !.state = "waiting", !.tries = t]
        BY <3>2 DEF t
      <4> QED BY <4>2, <4>3, <4>4
    <3>3. CASE jobs[k].state # "active"
      BY <3>1, <3>3 DEF JobsInv
    <3> QED BY <3>2, <3>3
  <2> HIDE DEF New
  <2> QED BY <2>1, <2>2 DEF JobsInv
<1>6. MarkedInv' /\ QueuedHasJob'
  BY <1>1, <1>2, MarksStay DEF QueuedHasJob
<1>7. SwallowedBounded'
  <2>1. Swallowed' \ Malformed = {}
    BY <1>2 DEF Swallowed
  <2>2. Cardinality(Swallowed' \ Malformed) = 0
    BY <2>1, FS_EmptySet
  <2>3. faults' \in 0 .. MaxFaults
    BY <1>1 DEF CountsInv
  <2>4. Cardinality(Swallowed' \ Malformed) <= faults'
    BY <2>2, <2>3
  <2> QED BY <2>4 DEF SwallowedBounded
<1> QED BY <1>3, <1>4, <1>5, <1>6, <1>7

\* Nothing else touches rows, marks or jobs.
LEMMA OthersKeep ==
    ASSUME IngressInv,
           UNCHANGED <<seen, stored, records, jobs, sends, requests, faults, crashes, handled, reviews, lost>>
    PROVE  IngressInv'
  BY DEF IngressInv, MapsInv, CountsInv, RowsInv, JobsInv, MarkedInv, QueuedHasJob, JobId,
         SwallowedBounded, Swallowed

-----------------------------------------------------------------------------
\* Rows, marks and jobs agree in every reachable state.
THEOREM IngressHolds == Spec => []IngressInv
<1>1. IngressInv /\ Next => IngressInv'
  <2> SUFFICES ASSUME IngressInv, Next PROVE IngressInv'
    OBVIOUS
  <2>1. CASE \E d \in Deliveries : Deliver(d) \/ Replay(d)
    BY <2>1, DeliverKeeps, ReplayKeeps
  <2>2. CASE \E s \in Reruns : Rerun(s)
    BY <2>2, RerunKeeps
  <2>3. CASE \E n \in DOMAIN records : Enqueue(n) \/ EnqueueFails(n)
    BY <2>3, EnqueueKeeps, EnqueueFailsKeeps
  <2>4. CASE \E k \in JobIds : Begin(k) \/ Succeed(k) \/ Skip(k) \/ Fail(k) \/ Expire(k)
    BY <2>4, WorkKeeps, ExpireKeeps
  <2>5. CASE Operator \/ Elapse
    BY <2>5, OthersKeep DEF Operator, Elapse, bounds, history
  <2>6. CASE Restart
    BY <2>6, RestartKeeps
  <2> QED BY <2>1, <2>2, <2>3, <2>4, <2>5, <2>6 DEF Next
<1>2. IngressInv /\ [Next]_vars => IngressInv'
  BY <1>1, OthersKeep DEF vars, memory, bounds, history
<1> QED BY <1>2, IngressStarts, PTL DEF Spec

\* Type correctness; neither the delivery cache nor the webhook store outgrows its size
\* or keeps a delivery twice.
THEOREM IngressTyped == Spec => []TypeOK
<1>1. IngressInv /\ Earned(health) => TypeOK
  BY DEF IngressInv, MapsInv, CountsInv, RowsInv, JobsInv, MarkedInv, Earned, TypeOK
<1> QED BY <1>1, IngressHolds, HealthIsEarned, PTL

\* However often GitHub sends a delivery and whatever is replayed, it opens one review,
\* and one more for each time its mark was pushed out or forgotten in a restart.
THEOREM DeliveriesOpenOneReview == Spec => []DeliveredOnce
<1>1. IngressInv => DeliveredOnce
  <2> SUFFICES ASSUME MarkedInv, NEW d \in Deliveries PROVE reviews[d] <= 1 + lost[d]
    BY DEF IngressInv, DeliveredOnce
  <2> QED BY DEF MarkedInv
<1> QED BY <1>1, IngressHolds, PTL

\* A review whose job the queue took and that is shown as queued is the one that job
\* waits for.
THEOREM QueuedReviewsHaveJobs == Spec => []QueuedHasJob
<1>1. IngressInv => QueuedHasJob
  BY DEF IngressInv
<1> QED BY <1>1, IngressHolds, PTL

\* The mark set before handling loses no more deliveries than there were failures of the
\* queue, those aside that nothing could be made of.
THEOREM FewAreSwallowed == Spec => []SwallowedBounded
<1>1. IngressInv => SwallowedBounded
  BY DEF IngressInv
<1> QED BY <1>1, IngressHolds, PTL
=============================================================================
