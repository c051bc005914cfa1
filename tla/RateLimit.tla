------------------------------ MODULE RateLimit -----------------------------
(***************************************************************************)
(* The two rate limits an API request passes, one after the other          *)
(* (apps/server/src/plugins/rate-limit.ts, rate-limit-redis.ts): the class *)
(* of operator polling, counted in the process that serves the request,    *)
(* and the limit per token, counted in Redis by all replicas together, or  *)
(* in the process when Redis is not attached or a call to it fails.        *)
(*                                                                         *)
(* All requests carry the same token: buckets of different keys share      *)
(* nothing.  A hit is the request that made it, its time is a function of  *)
(* the request.  Time counts in units of a millisecond's role; one second  *)
(* of a Retry-After header is Second units.                                *)
(***************************************************************************)
EXTENDS Integers, FiniteSets

CONSTANTS Requests, Replicas,
          Budget,      \* PER_TOKEN_DEFAULT_PER_MINUTE
          PollBudget,  \* OPERATOR_POLL_DEFAULT_PER_MINUTE
          Window, Second,
          Skew,        \* how far a replica's Date.now() is ahead
          MaxSkew,
          MaxDelay,    \* a call to Redis is answered or given up within this time
          MaxTime, MaxFaults

ASSUME RateAssumption ==
    /\ IsFiniteSet(Requests) /\ Replicas # {}
    /\ Budget \in Nat \ {0} /\ PollBudget \in Nat \ {0}
    /\ Second \in Nat \ {0} /\ MaxDelay \in Nat /\ MaxSkew \in Nat
    /\ Window \in Nat /\ Window > MaxDelay + MaxSkew
    /\ MaxTime \in Nat /\ MaxFaults \in Nat
    /\ Skew \in [Replicas -> 0 .. MaxSkew]

Kinds == {"poll", "other"}   \* a forced probe (?force=1) of a polling path is an "other"
Limiters == {"poll", "redis", "memory"}
Nobody == "nobody"

VARIABLES
    now,       \* the true time
    state,     \* new, asked (waiting for Redis), ok or refused
    kind, via, \* what a request is, the replica that serves it
    by,        \* the limiter that decided on it
    asked,     \* the true time it arrived
    stamp,     \* Date.now() of its replica then
    settled,   \* the true time it was decided
    retry,     \* its Retry-After, in seconds
    shared,    \* the sorted set in Redis
    touched,   \* when a hit was last added to it
    local,     \* per replica, the bucket of the limit per token
    poll,      \* per replica, the bucket of the polling class
    attached,  \* the replicas whose ping to Redis succeeded at boot
    faults     \* failed calls so far

decided == <<by, settled, retry>>
arrived == <<kind, via, asked, stamp>>
vars == <<now, state, decided, arrived, shared, touched, local, poll, attached, faults>>

-----------------------------------------------------------------------------
\* Mutant: `<' for `<=' when trimming.
LiveAtEdge(bucket, time, t) == {p \in bucket : time[p] >= t - Window}

\* The hits of a bucket a check at time t still counts; `time' dates a hit.
Live(bucket, time, t) == {p \in bucket : time[p] > t - Window}

\* Mutant: `>' for `>=' when comparing with the budget.
HasRoomForOneMore(live, budget) == Cardinality(live) <= budget

HasRoom(live, budget) == Cardinality(live) < budget

Oldest(live, time) == CHOOSE s \in {time[p] : p \in live} : \A p \in live : s <= time[p]

\* Mutant: rounds down.
RetryRoundsDown(live, time, t) ==
    LET wait == (Oldest(live, time) + Window - t) \div Second
    IN  IF wait < 1 THEN 1 ELSE wait

\* Whole seconds until the oldest hit leaves the window, at least one.
RetryAfter(live, time, t) ==
    LET wait == (Oldest(live, time) + Window - t + Second - 1) \div Second
    IN  IF wait < 1 THEN 1 ELSE wait

-----------------------------------------------------------------------------
Init ==
    /\ now = 0
    /\ state = [q \in Requests |-> "new"]
    /\ kind = [q \in Requests |-> "other"]
    /\ via = [q \in Requests |-> CHOOSE r \in Replicas : TRUE]
    /\ by = [q \in Requests |-> Nobody]
    /\ asked = [q \in Requests |-> 0]
    /\ stamp = [q \in Requests |-> 0]
    /\ settled = [q \in Requests |-> 0]
    /\ retry = [q \in Requests |-> 0]
    /\ shared = {} /\ touched = 0
    /\ local = [r \in Replicas |-> {}]
    /\ poll = [r \in Replicas |-> {}]
    /\ attached \in SUBSET Replicas
    /\ faults = 0

Settle(q, outcome, limiter, seconds) ==
    /\ state' = [state EXCEPT ![q] = outcome]
    /\ by' = [by EXCEPT ![q] = limiter]
    /\ settled' = [settled EXCEPT ![q] = now]
    /\ retry' = [retry EXCEPT ![q] = seconds]

\* checkAndRecord on the bucket of replica r for the limit per token.
InProcess(q, r) ==
    LET live == Live(local[r], settled, now)
    IN  \/ /\ HasRoom(live, Budget)
           /\ Settle(q, "ok", "memory", 0)
           /\ local' = [local EXCEPT ![r] = live \cup {q}]
        \/ /\ ~HasRoom(live, Budget)
           /\ Settle(q, "refused", "memory", RetryAfter(live, settled, now))
           /\ local' = [local EXCEPT ![r] = live]

\* The hook of the polling class refuses the request: the second hook never runs.
Throttle(q, r) ==
    LET live == Live(poll[r], asked, now)
    IN  /\ ~HasRoom(live, PollBudget)
        /\ poll' = [poll EXCEPT ![r] = live]
        /\ Settle(q, "refused", "poll", RetryAfter(live, asked, now))
        /\ UNCHANGED local

\* The hook of the polling class lets the request pass: it counts a poll, but
\* neither a forced probe nor a request to another path.
PassPoll(q, r, k) ==
    LET live == Live(poll[r], asked, now)
    IN  \/ /\ k = "poll"
           /\ HasRoom(live, PollBudget)
           /\ poll' = [poll EXCEPT ![r] = live \cup {q}]
        \/ /\ k = "other"
           /\ UNCHANGED poll

\* The hook of the limit per token: it asks Redis, or decides in the process.
Ask(q, r) ==
    \/ /\ r \in attached
       /\ state' = [state EXCEPT ![q] = "asked"]
       /\ UNCHANGED <<decided, local>>
    \/ /\ r \notin attached
       /\ InProcess(q, r)

\* A request to /api arrives at replica r; both hooks run up to the call to Redis.
Arrive(q, r, k) ==
    /\ state[q] = "new"
    /\ kind' = [kind EXCEPT ![q] = k]
    /\ via' = [via EXCEPT ![q] = r]
    /\ asked' = [asked EXCEPT ![q] = now]
    /\ stamp' = [stamp EXCEPT ![q] = now + Skew[r]]
    /\ \/ k = "poll" /\ Throttle(q, r)
       \/ PassPoll(q, r, k) /\ Ask(q, r)
    /\ UNCHANGED <<now, shared, touched, attached, faults>>

\* What the script makes of the sorted set; a script sent twice adds one member.
Script(q) ==
    LET live == Live(shared, stamp, stamp[q])
    IN  \/ /\ HasRoom(live, Budget)
           /\ shared' = live \cup {q}
           /\ touched' = now
        \/ /\ ~HasRoom(live, Budget)
           /\ shared' = live
           /\ UNCHANGED touched

\* Redis runs the script and its answer arrives.
Answer(q) ==
    LET live == Live(shared, stamp, stamp[q])
    IN  /\ state[q] = "asked"
        /\ Script(q)
        /\ IF HasRoom(live, Budget)
           THEN Settle(q, "ok", "redis", 0)
           ELSE Settle(q, "refused", "redis", RetryAfter(live, stamp, stamp[q]))
        /\ UNCHANGED <<now, arrived, local, poll, attached, faults>>

\* Redis runs the script and the connection breaks: ioredis sends it again.
LoseReply(q) ==
    /\ state[q] = "asked"
    /\ faults < MaxFaults
    /\ faults' = faults + 1
    /\ Script(q)
    /\ UNCHANGED <<now, state, decided, arrived, local, poll, attached>>

\* ioredis gives the call up: the hook falls back to the process.
Fallback(q) ==
    /\ state[q] = "asked"
    /\ faults < MaxFaults
    /\ faults' = faults + 1
    /\ InProcess(q, via[q])
    /\ UNCHANGED <<now, arrived, shared, touched, poll, attached>>

\* Mutant: compares with the present time, not with the start of the window.
SweepNow(r) ==
    /\ local[r] # {}
    /\ \A p \in local[r] : settled[p] <= now
    /\ local' = [local EXCEPT ![r] = {}]
    /\ UNCHANGED <<now, state, decided, arrived, shared, touched, poll, attached, faults>>

\* The sweepers drop a bucket whose newest hit is out of the window.
Sweep(r) ==
    /\ local[r] # {}
    /\ \A p \in local[r] : settled[p] <= now - Window
    /\ local' = [local EXCEPT ![r] = {}]
    /\ UNCHANGED <<now, state, decided, arrived, shared, touched, poll, attached, faults>>

SweepPoll(r) ==
    /\ poll[r] # {}
    /\ \A p \in poll[r] : asked[p] <= now - Window
    /\ poll' = [poll EXCEPT ![r] = {}]
    /\ UNCHANGED <<now, state, decided, arrived, shared, touched, local, attached, faults>>

\* Mutant: the time to live is a second.
ExpireSoon ==
    /\ shared # {}
    /\ now >= touched + Second
    /\ shared' = {}
    /\ UNCHANGED <<now, state, decided, arrived, touched, local, poll, attached, faults>>

\* PEXPIRE: Redis drops the sorted set two windows after the last hit.
Expire ==
    /\ shared # {}
    /\ now >= touched + 2 * Window
    /\ shared' = {}
    /\ UNCHANGED <<now, state, decided, arrived, touched, local, poll, attached, faults>>

\* Time passes from the first arrival to the last decision, but no call to Redis
\* stays open longer than MaxDelay.
Elapse ==
    /\ now < MaxTime
    /\ \E p, q \in Requests : state[p] # "new" /\ state[q] \in {"new", "asked"}
    /\ \A q \in Requests : state[q] = "asked" => now - asked[q] < MaxDelay
    /\ now' = now + 1
    /\ UNCHANGED <<state, decided, arrived, shared, touched, local, poll, attached, faults>>

\* The end of the modelled time.
Idle ==
    /\ now = MaxTime \/ \A q \in Requests : state[q] # "new"
    /\ \A q \in Requests : state[q] # "asked"
    /\ UNCHANGED vars

Next ==
    \/ \E q \in Requests, r \in Replicas, k \in Kinds : Arrive(q, r, k)
    \/ \E q \in Requests : Answer(q) \/ LoseReply(q) \/ Fallback(q)
    \/ \E r \in Replicas : Sweep(r) \/ SweepPoll(r)
    \/ Expire
    \/ Elapse
    \/ Idle

Spec == Init /\ [][Next]_vars

-----------------------------------------------------------------------------
\* The types; no bucket outgrows its budget ("bucket length is capped by perMinute").
TypeOK ==
    /\ now \in 0 .. MaxTime
    /\ state \in [Requests -> {"new", "asked", "ok", "refused"}]
    /\ kind \in [Requests -> Kinds] /\ via \in [Requests -> Replicas]
    /\ by \in [Requests -> Limiters \cup {Nobody}]
    /\ asked \in [Requests -> Nat] /\ stamp \in [Requests -> Nat]
    /\ settled \in [Requests -> Nat] /\ retry \in [Requests -> Nat]
    /\ shared \subseteq Requests /\ touched \in Nat
    /\ local \in [Replicas -> SUBSET Requests]
    /\ poll \in [Replicas -> SUBSET Requests]
    /\ attached \subseteq Replicas /\ faults \in 0 .. MaxFaults
    /\ Cardinality(shared) <= Budget
    /\ \A r \in Replicas : Cardinality(local[r]) <= Budget /\ Cardinality(poll[r]) <= PollBudget

\* Requests that came in at or after time t and less than d later.
From(set, time, t, d) == {p \in set : t <= time[p] /\ time[p] < t + d}

AdmittedBy(limiter) == {q \in Requests : state[q] = "ok" /\ by[q] = limiter}

\* The quota holds over all replicas: whatever their clocks and however late Redis
\* gets to a call, it admits no more than the budget in any stretch of true time as
\* long as the window less the skew and the delay.  (Between bursts that are closer
\* than that to a whole window, clocks and delays may blur the edge.)
SharedWindowBounded ==
    \A q \in Requests :
        Cardinality(From(AdmittedBy("redis"), asked, asked[q],
                         Window - MaxSkew - MaxDelay)) <= Budget

\* Polls the polling class of replica r let pass.
PollsPassed(r) ==
    {q \in Requests : kind[q] = "poll" /\ via[q] = r /\ state[q] # "new" /\ by[q] # "poll"}

\* Neither sweeping nor an outage of Redis lets a replica admit more than its
\* budgets in any whole window of its own.
LocalWindowBounded ==
    \A r \in Replicas, q \in Requests :
        /\ Cardinality(From({p \in AdmittedBy("memory") : via[p] = r},
                            settled, settled[q], Window)) <= Budget
        /\ Cardinality(From(PollsPassed(r), asked, asked[q], Window)) <= PollBudget

\* Nobody is refused without cause: when a process refuses a request, its own
\* replica admitted a whole budget within the window that ends now, and a poll
\* is throttled by polls alone, never by probes or other requests.
RefusalsJustified ==
    \A q \in Requests : state[q] = "refused" =>
        /\ by[q] = "memory" =>
             Cardinality({p \in AdmittedBy("memory") :
                 via[p] = via[q] /\ settled[p] \in settled[q] - Window + 1 .. settled[q]}) >= Budget
        /\ by[q] = "poll" =>
             Cardinality({p \in PollsPassed(via[q]) :
                 asked[p] \in asked[q] - Window + 1 .. asked[q]}) >= PollBudget

\* The bucket that refused q, as it is now, and the clock it is read by.
BucketOf(q) ==
    CASE by[q] = "redis" -> shared
      [] by[q] = "memory" -> local[via[q]]
      [] by[q] = "poll" -> poll[via[q]]

ClockOf(q) == IF by[q] = "redis" THEN stamp[q] ELSE settled[q]

SameBucket(p, q) == by[p] = by[q] /\ (by[p] # "redis" => via[p] = via[q])

\* Retry-After tells the truth: a request that is refused when the advice given to an
\* earlier one has run out finds in its bucket a hit that came after the advice, or one
\* of a call that is still open.  The hit is another's, with one exception: Redis has
\* recorded the request's own hit, the reply was lost, and the script that ioredis
\* sends again counts that hit against the request it belongs to.
RetryHonest ==
    [][\A p, q \in Requests :
          ( /\ state[p] = "refused"
            /\ state[q] # "refused" /\ state'[q] = "refused"
            /\ SameBucket(p, q)'
            /\ ClockOf(q)' >= ClockOf(p) + retry[p] * Second )
          => \E o \in BucketOf(q)' :
                /\ state'[o] = "asked" \/ settled'[o] >= settled[p]
                /\ o = q => by'[q] = "redis" /\ q \in shared]_vars
=============================================================================
