---------------------------- MODULE InMemoryQueue ---------------------------
(***************************************************************************)
(* packages/queue/src/in-memory.ts: the queue a server without Redis uses. *)
(*                                                                         *)
(* One setTimeout timer at most is armed at any time.  When it fires,      *)
(* tick() starts every due job that has a handler, all of them at once,    *)
(* and arms the timer again if jobs are left.  enqueue() and process() arm *)
(* it only when it is not armed ("kick").                                  *)
(*                                                                         *)
(* Time is relative: wait[j] is what is left of j's delay and `timer' what *)
(* is left until the timer is due, both counted down by Elapse and never   *)
(* below 0.  A timer at 0 may fire later than it is due, as Node's may.    *)
(* A job is one enqueue call: ids may repeat in the code, the queue never  *)
(* looks at them.  A handler calls no method of the queue before its first *)
(* await (the worker's does not), so tick() runs without interruption.     *)
(***************************************************************************)
EXTENDS Integers, FiniteSets, Sequences, SequencesExt

CONSTANTS
    Jobs,             \* the enqueue calls of a behaviour
    Names,            \* job names (the key of the handler table)
    NameOf,           \* NameOf[j]: the name job j is enqueued under
    Delays,           \* the delayMs values callers use
    MinWait,          \* the 5 ms floor of a re-armed timer, in units of time
    FailureRingSize   \* how many recent failures are kept

ASSUME JobsAssumption == IsFiniteSet(Jobs) /\ NameOf \in [Jobs -> Names]
ASSUME DelaysAssumption == Delays \subseteq Nat /\ MinWait \in Nat \ {0}
ASSUME RingAssumption == FailureRingSize \in Nat \ {0}

NoTimer == -1

VARIABLES
    pending,        \* jobs accepted and not started
    wait,           \* wait[j]: time until j is due (0 when due, or not pending)
    timer,          \* time until the armed timer is due, or NoTimer
    handlers,       \* names with a handler
    closed,
    running,        \* jobs whose handler promise has not settled
    inflight,       \* the counter health() reports
    inflightJobs,   \* the list details() reports
    failures,       \* ring of recent failures, oldest first
    settled,        \* history: how a job that left the queue ended
    behind          \* history: jobs enqueued after the timer now armed was armed

vars == <<pending, wait, timer, handlers, closed, running, inflight,
          inflightJobs, failures, settled, behind>>

Ending == {"no", "resolved", "rejected", "dropped"}

\* The values the code means its fields to have: among them a counter that is
\* never negative, whatever close() and late settles do to it, and a ring that
\* recordFailure() cuts back to its size.
TypeOK ==
    /\ pending \in SUBSET Jobs
    /\ wait \in [Jobs -> Nat]
    /\ timer \in Nat \cup {NoTimer}
    /\ handlers \in SUBSET Names
    /\ closed \in BOOLEAN
    /\ running \in SUBSET Jobs
    /\ inflight \in 0 .. Cardinality(Jobs)
    /\ inflightJobs \in SUBSET Jobs
    /\ failures \in Seq(Jobs)
    /\ Len(failures) <= FailureRingSize
    /\ settled \in [Jobs -> Ending]
    /\ behind \in SUBSET Jobs

Init ==
    /\ pending = {}
    /\ wait = [j \in Jobs |-> 0]
    /\ timer = NoTimer
    /\ handlers = {}
    /\ closed = FALSE
    /\ running = {}
    /\ inflight = 0
    /\ inflightJobs = {}
    /\ failures = <<>>
    /\ settled = [j \in Jobs |-> "no"]
    /\ behind = {}

-----------------------------------------------------------------------------
\* The jobs that were never handed to enqueue().
Fresh == {j \in Jobs : j \notin pending /\ j \notin running /\ settled[j] = "no"}

\* The pending jobs the next tick starts.
Due == {j \in pending : wait[j] = 0 /\ NameOf[j] \in handlers}

\* kick(): arm the timer for "now", unless it is armed or the queue is closed.
Kick == timer' = IF timer # NoTimer \/ closed THEN timer ELSE 0

\* Mutant: enqueue() does not look at `closed'.
EnqueueWhenClosed(j, d) ==
    /\ j \in Fresh
    /\ pending' = pending \cup {j}
    /\ wait' = [wait EXCEPT ![j] = d]
    /\ Kick
    /\ behind' = IF timer = NoTimer THEN behind ELSE behind \cup {j}
    /\ UNCHANGED <<handlers, closed, running, inflight, inflightJobs, failures, settled>>

\* enqueue(); a closed queue throws and changes nothing.
Enqueue(j, d) ==
    /\ ~closed
    /\ j \in Fresh
    /\ pending' = pending \cup {j}
    /\ wait' = [wait EXCEPT ![j] = d]
    /\ Kick
    /\ behind' = IF timer = NoTimer THEN behind ELSE behind \cup {j}
    /\ UNCHANGED <<handlers, closed, running, inflight, inflightJobs, failures, settled>>

\* process(); it has no guard of its own, a closed queue takes handlers too.
Process(n) ==
    /\ handlers' = handlers \cup {n}
    /\ Kick
    /\ UNCHANGED <<pending, wait, closed, running, inflight, inflightJobs, failures, settled, behind>>

\* Mutant: no timer for jobs that have no handler yet.
RearmStartable(rest) ==
    \/ (\A j \in rest : NameOf[j] \notin handlers) /\ timer' = NoTimer
    \/ (\E j \in rest : NameOf[j] \in handlers) /\ timer' = MinWait

\* Mutant: tick() leaves the next wake-up to kick().
RearmNever(rest) == timer' = NoTimer

\* Mutant: the timer is armed for the last of the jobs that stay pending.
RearmLatest(rest) ==
    \/ rest = {} /\ timer' = NoTimer
    \/ \E j \in rest :
          /\ \A k \in rest : wait[j] >= wait[k]
          /\ timer' = IF wait[j] < MinWait THEN MinWait ELSE wait[j]

\* The timer is armed for the soonest of the jobs that stay pending, due or
\* not, and never for less than the floor.
Rearm(rest) ==
    \/ rest = {} /\ timer' = NoTimer
    \/ \E j \in rest :
          /\ \A k \in rest : wait[j] <= wait[k]
          /\ timer' = IF wait[j] < MinWait THEN MinWait ELSE wait[j]

\* tick(): every due job with a handler starts now.  The code's test of
\* `closed' never decides: close() has cancelled the timer.
Tick ==
    /\ timer = 0
    /\ ~closed
    /\ pending' = pending \ Due
    /\ running' = running \cup Due
    /\ inflightJobs' = inflightJobs \cup Due
    /\ inflight' = inflight + Cardinality(Due)
    /\ Rearm(pending \ Due)
    /\ behind' = {}
    /\ UNCHANGED <<wait, handlers, closed, failures, settled>>

\* The handler's promise settles: recordFailure() on rejection, then the
\* finally() callback.  An entry close() has already removed is not found.
Leave(j) ==
    /\ j \in running
    /\ running' = running \ {j}
    /\ inflight' = inflight - 1
    /\ inflightJobs' = inflightJobs \ {j}
    /\ UNCHANGED <<pending, wait, timer, handlers, closed, behind>>

Resolve(j) ==
    /\ Leave(j)
    /\ settled' = [settled EXCEPT ![j] = "resolved"]
    /\ UNCHANGED failures

\* Mutant: the ring is cut one entry late.
RecordedLate(j) ==
    LET longer == Append(failures, j)
    IN  IF Len(longer) > FailureRingSize + 1 THEN Tail(longer) ELSE longer

\* The ring keeps the newest FailureRingSize entries.
Recorded(j) ==
    LET longer == Append(failures, j)
    IN  IF Len(longer) > FailureRingSize THEN Tail(longer) ELSE longer

\* Mutant: a failed job goes back to the list.
RejectRequeues(j) ==
    /\ j \in running
    /\ running' = running \ {j}
    /\ inflight' = inflight - 1
    /\ inflightJobs' = inflightJobs \ {j}
    /\ pending' = pending \cup {j}
    /\ failures' = Recorded(j)
    /\ UNCHANGED <<wait, timer, handlers, closed, settled, behind>>

Reject(j) ==
    /\ Leave(j)
    /\ settled' = [settled EXCEPT ![j] = "rejected"]
    /\ failures' = Recorded(j)

\* Mutant: close() resets the counter with the list.
CloseResets ==
    /\ closed' = TRUE
    /\ timer' = NoTimer
    /\ handlers' = {}
    /\ settled' = [j \in Jobs |-> IF j \in pending THEN "dropped" ELSE settled[j]]
    /\ pending' = {}
    /\ wait' = [j \in Jobs |-> 0]
    /\ inflightJobs' = {}
    /\ inflight' = 0
    /\ behind' = {}
    /\ UNCHANGED <<running, failures>>

\* close(): cancels the timer, forgets handlers, pending jobs and the list of
\* running ones.  It neither stops the running handlers nor resets `inflight'.
Close ==
    /\ closed' = TRUE
    /\ timer' = NoTimer
    /\ handlers' = {}
    /\ settled' = [j \in Jobs |-> IF j \in pending THEN "dropped" ELSE settled[j]]
    /\ pending' = {}
    /\ wait' = [j \in Jobs |-> 0]
    /\ inflightJobs' = {}
    /\ behind' = {}
    /\ UNCHANGED <<running, inflight, failures>>

\* What is left of n after one unit of time.
Less(n) == IF n > 0 THEN n - 1 ELSE n

\* One unit of time passes.
Elapse ==
    /\ timer > 0 \/ \E j \in pending : wait[j] > 0
    /\ timer' = Less(timer)
    /\ wait' = [j \in Jobs |-> Less(wait[j])]
    /\ UNCHANGED <<pending, handlers, closed, running, inflight, inflightJobs, failures, settled, behind>>

Next ==
    \/ \E j \in Jobs, d \in Delays : Enqueue(j, d)
    \/ \E n \in Names : Process(n)
    \/ Tick
    \/ \E j \in Jobs : Resolve(j) \/ Reject(j)
    \/ Close
    \/ Elapse

Spec == Init /\ [][Next]_vars

\* Time passes, Node runs a timer that is due, and a handler settles.  Nothing
\* obliges a caller to enqueue, to register a handler or to close.
FairSpec ==
    /\ Spec
    /\ WF_vars(Elapse)
    /\ WF_vars(Tick)
    /\ \A j \in Jobs : WF_vars(Resolve(j) \/ Reject(j))

-----------------------------------------------------------------------------
(* Properties *)

\* The counter health() reports is the number of handlers that really run,
\* also after close() has emptied the list beside it; and until close() the
\* list names exactly those jobs.
InflightExact ==
    /\ inflight = Cardinality(running)
    /\ inflightJobs \subseteq running
    /\ ~closed => inflightJobs = running

\* No lost wake-up: while jobs are pending a timer is armed.  kick() returns
\* early when it sees a timer, so one path that dropped the timer without
\* arming it again would leave the queue asleep for ever.
NoLostWakeup == pending # {} => timer # NoTimer

\* A job is in one place: waiting, running or ended, and a closed queue has
\* no timer and nothing waiting.
Conservation ==
    /\ pending \cap running = {}
    /\ \A j \in Jobs : settled[j] # "no" => j \notin pending /\ j \notin running
    /\ closed => pending = {} /\ timer = NoTimer

\* How long a job may oversleep.  kick() sees an armed timer and returns, so a
\* job enqueued behind it sleeps until that timer fires, though it may be due
\* now.  That is never later than the soonest of the jobs the timer was armed
\* for, or the floor: a timer not yet due was armed for a job that is still
\* waiting, and for none later.
WokenInTime ==
    /\ timer > 0 => pending \ behind # {}
    /\ \A j \in pending \ behind : timer <= MinWait \/ timer <= wait[j]

\* A job whose name has a handler leaves the pending list, whatever is
\* enqueued around it: it starts or the queue is closed.
EveryJobStarts ==
    \A j \in Jobs : (j \in pending /\ NameOf[j] \in handlers) ~> (j \notin pending)

-----------------------------------------------------------------------------
(* Refinement: the queue is a QueueAdapter with a single attempt per job.  *)

PhaseOf(j) ==
    CASE j \in pending -> "queued"
      [] j \in running -> "running"
      [] settled[j] = "resolved" -> "done"
      [] settled[j] = "rejected" -> "failed"
      [] settled[j] = "dropped" -> "dropped"
      [] OTHER -> "new"

AttemptsOf(j) ==
    IF j \in running \/ settled[j] \in {"resolved", "rejected"} THEN 1 ELSE 0

Adapter == INSTANCE QueueAdapter WITH
    MaxAttempts <- 1,
    phase <- [j \in Jobs |-> PhaseOf(j)],
    attempts <- [j \in Jobs |-> AttemptsOf(j)],
    open <- ~closed

\* The queue keeps the promise of the adapter interface.
ImplementsAdapter == Adapter!AdapterSpec
=============================================================================
