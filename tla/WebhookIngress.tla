--------------------------- MODULE WebhookIngress ---------------------------
(***************************************************************************)
(* How a pull request event becomes a review: apps/server/src/routes/      *)
(* webhooks.ts, webhook-replay.ts and rerun.ts, the delivery cache, the    *)
(* webhook store, the review store's rows, the circuit breaker of          *)
(* RepoHealth, and the jobs BullMQ keeps under their ids (bullmq.ts).      *)
(* One server, one repository, one pull request at one or more heads.      *)
(*                                                                         *)
(* The server's state is in memory and a restart empties it; the jobs are  *)
(* in Redis and stay.  A dispatch runs up to store.start without an await, *)
(* and then waits for queue.enqueue: the two are separate actions.  What   *)
(* the worker does between the start and the end of an attempt is          *)
(* ReviewWorker's subject.                                                 *)
(***************************************************************************)
EXTENDS RepoHealth, FiniteSets, Sequences, SequencesExt

CONSTANTS
    Deliveries,  \* webhook deliveries, by X-GitHub-Delivery
    Reruns,      \* manual re-runs asked for by the dashboard
    Heads,       \* head commits of the pull request
    HeadOf,      \* HeadOf[s]: the head that delivery or re-run s names
    Malformed,   \* deliveries whose dispatch throws or answers 400
    Filtered,    \* deliveries of drafts, bots, skipped authors, other actions
    CacheSize,   \* capacity of the delivery cache
    StoreSize,   \* capacity of the webhook store
    MaxAttempts, \* attempts BullMQ gives a job
    LostReplies, \* whether a failed enqueue may have added the job
    MaxSends,    \* bound: requests by GitHub
    MaxRequests, \* bound: replays and re-runs asked for by operators
    MaxFaults,   \* bound: failed enqueue calls
    MaxCrashes,  \* bound: restarts
    ManualPause  \* how long an operator's pause is meant to last

ASSUME IngressAssumption ==
    /\ IsFiniteSet(Deliveries) /\ IsFiniteSet(Reruns)
    /\ Deliveries \cap Reruns = {} /\ Heads \cap Reruns = {}
    /\ HeadOf \in [Deliveries \cup Reruns -> Heads]
    /\ Malformed \subseteq Deliveries /\ Filtered \subseteq Deliveries
    /\ CacheSize \in Nat \ {0} /\ StoreSize \in Nat \ {0} /\ MaxAttempts \in Nat \ {0}
    /\ MaxSends \in Nat /\ MaxRequests \in Nat /\ MaxFaults \in Nat /\ MaxCrashes \in Nat
    /\ ManualPause \in Nat \ {0}

VARIABLES
    seen,     \* delivery cache: marked ids, least recently used first
    stored,   \* webhook store: deliveries, oldest first
    records,  \* review rows; the n-th row's id is rv_<n>_<head>
    health,   \* the repository's circuit breaker
    jobs,     \* jobs[k]: the job BullMQ keeps under id k
    sends,    \* requests by GitHub so far
    requests, \* replays and re-runs so far
    faults,   \* failed enqueue calls so far
    crashes,  \* restarts so far
    handled,  \* history: deliveries filtered out, or whose job was added
    reviews,  \* history: reviews[d], the reviews the sendings of d have opened
    lost      \* history: lost[d], how often d's own mark was evicted or forgotten

memory == <<seen, stored, records, health>>
bounds == <<sends, requests, faults, crashes>>
history == <<handled, reviews, lost>>
vars == <<memory, jobs, bounds, history>>

Sources == Deliveries \cup Reruns
JobIds == Heads \cup Reruns
Mark == [of : Deliveries, seq : 0 .. MaxRequests]
Row == [src : Sources, replay : BOOLEAN,
        status : {"queued", "running", "completed", "failed"},
        enqueue : {"pending", "added", "ignored", "refused"}]
Job == [state : {"none", "waiting", "active", "completed", "failed"},
        review : Nat, tries : 0 .. MaxAttempts]
NoJob == [state |-> "none", review |-> 0, tries |-> 0]

TypeOK ==
    /\ seen \in Seq(Mark) /\ Len(seen) <= CacheSize /\ IsInjective(seen)
    /\ stored \in Seq(Deliveries) /\ Len(stored) <= StoreSize /\ IsInjective(stored)
    /\ records \in Seq(Row)
    /\ health \in HealthType
    /\ jobs \in [JobIds -> Job]
    /\ sends \in 0 .. MaxSends
    /\ requests \in 0 .. MaxRequests
    /\ faults \in 0 .. MaxFaults
    /\ crashes \in 0 .. MaxCrashes
    /\ handled \subseteq Deliveries
    /\ reviews \in [Deliveries -> Nat] /\ lost \in [Deliveries -> Nat]

Init ==
    /\ seen = <<>>
    /\ stored = <<>>
    /\ records = <<>>
    /\ health = Healthy
    /\ jobs = [k \in JobIds |-> NoJob]
    /\ sends = 0
    /\ requests = 0
    /\ faults = 0
    /\ crashes = 0
    /\ handled = {}
    /\ reviews = [d \in Deliveries |-> 0]
    /\ lost = [d \in Deliveries |-> 0]

-----------------------------------------------------------------------------
(* The bounded maps: insertion order is age, a known key moves to the end. *)

\* delete(): the map without the entry under a key.
Without(map, x) ==
    IF x \in ToSet(map) THEN RemoveAt(map, CHOOSE i \in DOMAIN map : map[i] = x) ELSE map

\* Mutant: the size is looked at before the insertion.
PutUncapped(map, x, size) ==
    LET others == Without(map, x)
    IN  Append(IF Len(others) > size THEN Tail(others) ELSE others, x)

\* Set `x' as the newest entry; the oldest entry goes when there are too many.
Put(map, x, size) ==
    LET longer == Append(Without(map, x), x)
    IN  IF Len(longer) > size THEN Tail(longer) ELSE longer

\* The mark of a delivery GitHub sends; a replay's is numbered.
MarkOf(d) == [of |-> d, seq |-> 0]

\* The deliveries whose own mark a step takes out of the cache.
NoteLost ==
    lost' = [d \in Deliveries |->
                IF MarkOf(d) \in ToSet(seen) \ ToSet(seen') THEN lost[d] + 1 ELSE lost[d]]

\* reserve(): mark an id, which may push the oldest mark out.
Reserve(mark) ==
    /\ seen' = Put(seen, mark, CacheSize)
    /\ NoteLost

\* store.start(): a new row, its number one more than the last.
StartReview(src, replay) ==
    /\ records' = Append(records, [src |-> src, replay |-> replay,
                                   status |-> "queued", enqueue |-> "pending"])
    /\ reviews' = IF replay \/ src \in Reruns THEN reviews
                  ELSE [reviews EXCEPT ![src] = @ + 1]

\* dispatchWebhook() up to queue.enqueue: parse, filters, isPaused, store.start.
Dispatch(d, replay) ==
    \/ d \in Malformed \cup Filtered /\ UNCHANGED <<records, health, reviews>>
    \/ /\ d \notin Malformed \cup Filtered
       /\ health' = Ticked(health)
       /\ IF IsPaused(health) THEN UNCHANGED <<records, reviews>> ELSE StartReview(d, replay)

\* The sender of d hears that there is nothing to do.
Ignored(d) == d \notin Malformed /\ (d \in Filtered \/ IsPaused(health))

\* POST /webhooks/github.
Deliver(d) ==
    LET fresh == MarkOf(d) \notin ToSet(seen)
    IN  /\ sends < MaxSends
        /\ sends' = sends + 1
        /\ Reserve(MarkOf(d))
        /\ \/ /\ ~fresh
              /\ UNCHANGED <<stored, records, health, handled, reviews>>
           \/ /\ fresh
              /\ stored' = Put(stored, d, StoreSize)
              /\ Dispatch(d, FALSE)
              /\ handled' = IF Ignored(d) THEN handled \cup {d} ELSE handled
        /\ UNCHANGED <<jobs, requests, faults, crashes>>

\* Mutant: a replay clears the delivery cache first, which no exception covers.
ReplayClears(d) ==
    /\ d \in ToSet(stored)
    /\ requests < MaxRequests
    /\ requests' = requests + 1
    /\ seen' = <<[of |-> d, seq |-> requests']>>
    /\ Dispatch(d, TRUE)
    /\ UNCHANGED <<stored, jobs, sends, faults, crashes, handled, lost>>

\* POST /api/internal/webhook/replay/:deliveryId: a mark of its own, then the
\* same dispatch.
Replay(d) ==
    /\ d \in ToSet(stored)
    /\ requests < MaxRequests
    /\ requests' = requests + 1
    /\ Reserve([of |-> d, seq |-> requests'])
    /\ Dispatch(d, TRUE)
    /\ UNCHANGED <<stored, jobs, sends, faults, crashes, handled>>

\* POST /api/reviews/rerun: neither cache nor filters nor breaker.
Rerun(m) ==
    /\ \A n \in DOMAIN records : records[n].src # m
    /\ jobs[m] = NoJob
    /\ requests < MaxRequests
    /\ requests' = requests + 1
    /\ StartReview(m, FALSE)
    /\ UNCHANGED <<seen, stored, health, jobs, sends, faults, crashes, handled, lost>>

-----------------------------------------------------------------------------
(* queue.enqueue under a job id: BullMQ ignores an id it already keeps.    *)

\* pr-<repo>-<number>-<head>, or an id of its own for a manual re-run.
JobId(src) == IF src \in Reruns THEN src ELSE HeadOf[src]

\* Mutant: a job takes the place of the one under the same id.
AddAlways(k, n) == jobs' = [jobs EXCEPT ![k] = [state |-> "waiting", review |-> n, tries |-> 0]]

Add(k, n) ==
    jobs' = IF jobs[k] # NoJob THEN jobs
            ELSE [jobs EXCEPT ![k] = [state |-> "waiting", review |-> n, tries |-> 0]]

\* The request behind row n hears from the queue.
Tell(n, outcome) == records' = [records EXCEPT ![n].enqueue = outcome]

Credit(n) == handled' = handled \cup ({records[n].src} \cap Deliveries)

Enqueue(n) ==
    LET k == JobId(records[n].src)
    IN  /\ records[n].enqueue = "pending"
        /\ Add(k, n)
        /\ Tell(n, IF jobs[k] = NoJob THEN "added" ELSE "ignored")
        /\ Credit(n)
        /\ UNCHANGED <<seen, stored, health, bounds, reviews, lost>>

\* Redis does not answer: the route says 400, the row stays as it is.
EnqueueFails(n) ==
    /\ records[n].enqueue = "pending"
    /\ faults < MaxFaults
    /\ faults' = faults + 1
    /\ \/ UNCHANGED <<jobs, handled>>
       \/ LostReplies /\ Add(JobId(records[n].src), n) /\ Credit(n)
    /\ Tell(n, "refused")
    /\ UNCHANGED <<seen, stored, health, sends, requests, crashes, reviews, lost>>

-----------------------------------------------------------------------------
(* The jobs.  A job names its review by id: number and head.               *)

HeadOfJob(k) == IF k \in Reruns THEN HeadOf[k] ELSE k

\* The store knows the review of job k.
Known(k) ==
    LET n == jobs[k].review
    IN  n \in DOMAIN records /\ HeadOf[records[n].src] = HeadOfJob(k)

SetStatus(k, status) ==
    records' = IF Known(k) THEN [records EXCEPT ![jobs[k].review].status = status]
               ELSE records

\* An attempt begins: markRunning.
Begin(k) ==
    /\ jobs[k].state = "waiting"
    /\ jobs' = [jobs EXCEPT ![k].state = "active", ![k].tries = @ + 1]
    /\ SetStatus(k, "running")
    /\ UNCHANGED <<seen, stored, health, bounds, history>>

\* store.complete and recordSuccess; possible only when the row is there.
Succeed(k) ==
    /\ jobs[k].state = "active"
    /\ Known(k)
    /\ jobs' = [jobs EXCEPT ![k].state = "completed"]
    /\ SetStatus(k, "completed")
    /\ health' = AfterSuccess(health)
    /\ UNCHANGED <<seen, stored, bounds, history>>

\* Over budget: store.fail and a normal return, which the breaker never sees.
Skip(k) ==
    /\ jobs[k].state = "active"
    /\ jobs' = [jobs EXCEPT ![k].state = "completed"]
    /\ SetStatus(k, "failed")
    /\ UNCHANGED <<seen, stored, health, bounds, history>>

\* The attempt throws: store.fail, recordFailure, and BullMQ's next attempt.
Fail(k) ==
    /\ jobs[k].state = "active"
    /\ jobs' = [jobs EXCEPT ![k].state =
                   IF jobs[k].tries < MaxAttempts THEN "waiting" ELSE "failed"]
    /\ SetStatus(k, "failed")
    /\ health' = AfterFailure(health)
    /\ UNCHANGED <<seen, stored, bounds, history>>

\* removeOnComplete, removeOnFail: a job is forgotten some time after its end.
Expire(k) ==
    /\ jobs[k].state \in {"completed", "failed"}
    /\ jobs' = [jobs EXCEPT ![k] = NoJob]
    /\ UNCHANGED <<memory, bounds, history>>

-----------------------------------------------------------------------------
Operator ==
    /\ \/ health' = AfterPause(health, ManualPause)
       \/ health' = AfterResume(health)
    /\ UNCHANGED <<seen, stored, records, jobs, bounds, history>>

Elapse ==
    /\ health.until > 0
    /\ health' = [health EXCEPT !.until = @ - 1]
    /\ UNCHANGED <<seen, stored, records, jobs, bounds, history>>

\* Mutant: the marks survive a restart, in a cache shared through Redis.
RestartKeepsMarks ==
    /\ crashes < MaxCrashes
    /\ crashes' = crashes + 1
    /\ stored' = <<>>
    /\ records' = <<>>
    /\ health' = Healthy
    /\ jobs' = [k \in JobIds |->
          IF jobs[k].state = "active"
          THEN [jobs[k] EXCEPT !.state = "waiting", !.tries = @ - 1] ELSE jobs[k]]
    /\ UNCHANGED <<seen, sends, requests, faults, history>>

\* The server restarts: open requests get no answer, BullMQ hands the attempts
\* that were running out again.
Restart ==
    /\ crashes < MaxCrashes
    /\ crashes' = crashes + 1
    /\ seen' = <<>>
    /\ stored' = <<>>
    /\ records' = <<>>
    /\ health' = Healthy
    /\ NoteLost
    /\ jobs' = [k \in JobIds |->
          IF jobs[k].state = "active"
          THEN [jobs[k] EXCEPT !.state = "waiting", !.tries = @ - 1] ELSE jobs[k]]
    /\ UNCHANGED <<sends, requests, faults, handled, reviews>>

Next ==
    \/ \E d \in Deliveries : Deliver(d) \/ Replay(d)
    \/ \E m \in Reruns : Rerun(m)
    \/ \E n \in DOMAIN records : Enqueue(n) \/ EnqueueFails(n)
    \/ \E k \in JobIds : Begin(k) \/ Succeed(k) \/ Skip(k) \/ Fail(k) \/ Expire(k)
    \/ Operator
    \/ Elapse
    \/ Restart

Spec == Init /\ [][Next]_vars

\* Time passes; nobody is obliged to send, to replay or to resume.
FairSpec == Spec /\ WF_vars(Elapse)

-----------------------------------------------------------------------------
(* Properties                                                              *)

\* A delivery opens one review, however often GitHub sends it and whatever
\* operators replay, and one more for each time its own mark was pushed out of
\* the bounded cache or forgotten in a restart, for nothing else remembers it.
DeliveredOnce == \A d \in Deliveries : reviews[d] <= 1 + lost[d]

\* The deliveries that no redelivery can save: they were marked as seen, then
\* their handling failed, and the mark answers "duplicate" from now on.
Swallowed ==
    {d \in Deliveries :
        /\ MarkOf(d) \in ToSet(seen) /\ d \notin handled
        /\ \A n \in DOMAIN records : records[n].src = d => records[n].enqueue # "pending"}

\* Marking before handling costs a delivery only where it is malformed or the
\* queue failed; a restart costs none, for it forgets the marks.
SwallowedBounded == Cardinality(Swallowed \ Malformed) <= faults

\* A row that waits for the job the queue took for it does so in the queue: the
\* job is there under the row's id, waiting.
QueuedHasJob ==
    \A n \in DOMAIN records :
        (records[n].status = "queued" /\ records[n].enqueue = "added") =>
            LET job == jobs[JobId(records[n].src)]
            IN  job.review = n /\ job.state = "waiting"

\* An automatic pause stands on an unbroken streak of failures, through every
\* order of successes, failures, pauses, resumptions and expiries.
AutoPauseEarned ==
    (health.until # NoPause /\ ~health.manual) => health.failures >= Threshold

\* A pause in force is never extended by the failures of reviews that were
\* under way when it began, nor is one that is over before it was noticed.
PauseNotExtended ==
    [][(health.until # NoPause /\ ~health.manual /\ ~health'.manual) =>
          health'.until <= health.until]_vars
=============================================================================
