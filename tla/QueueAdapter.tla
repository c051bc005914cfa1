---------------------------- MODULE QueueAdapter ----------------------------
(***************************************************************************)
(* What the rest of the server relies on when it uses a QueueAdapter       *)
(* (packages/queue/src/adapter.ts): an accepted job is run by a handler,   *)
(* at most MaxAttempts times and never twice at once, until it is done,    *)
(* has failed for good, or was still waiting when the queue was closed.    *)
(* Neither timers nor delays nor handler tables appear here; InMemoryQueue *)
(* is shown to implement this module.                                      *)
(***************************************************************************)
EXTENDS Naturals

CONSTANTS
    Jobs,        \* the enqueue calls of a behaviour, one element per call
    MaxAttempts  \* how many times a job may be handed to its handler

VARIABLES
    phase,       \* phase[j]: where job j is in its life
    attempts,    \* attempts[j]: how often j was handed to its handler
    open         \* FALSE once close() was called

adapterVars == <<phase, attempts, open>>

Phase == {"new", "queued", "running", "done", "failed", "dropped"}

AdapterTypeOK ==
    /\ phase \in [Jobs -> Phase]
    /\ attempts \in [Jobs -> 0 .. MaxAttempts]
    /\ open \in BOOLEAN

AdapterInit ==
    /\ phase = [j \in Jobs |-> "new"]
    /\ attempts = [j \in Jobs |-> 0]
    /\ open = TRUE

Submit(j) ==
    /\ open
    /\ phase[j] = "new"
    /\ phase' = [phase EXCEPT ![j] = "queued"]
    /\ UNCHANGED <<attempts, open>>

\* A queue hands out any set of waiting jobs in one go.
Start(S) ==
    /\ open
    /\ \A j \in S : phase[j] = "queued" /\ attempts[j] < MaxAttempts
    /\ phase' = [j \in Jobs |-> IF j \in S THEN "running" ELSE phase[j]]
    /\ attempts' = [j \in Jobs |-> IF j \in S THEN attempts[j] + 1 ELSE attempts[j]]
    /\ UNCHANGED open

Finish(j) ==
    /\ phase[j] = "running"
    /\ phase' = [phase EXCEPT ![j] = "done"]
    /\ UNCHANGED <<attempts, open>>

\* A failed attempt may be retried while attempts are left, and is final when
\* none is.
Fail(j) ==
    /\ phase[j] = "running"
    /\ \/ attempts[j] < MaxAttempts /\ phase' = [phase EXCEPT ![j] = "queued"]
       \/ phase' = [phase EXCEPT ![j] = "failed"]
    /\ UNCHANGED <<attempts, open>>

\* Closing drops what still waits; what runs is left to finish.
Shut ==
    /\ open' = FALSE
    /\ phase' = [j \in Jobs |-> IF phase[j] = "queued" THEN "dropped" ELSE phase[j]]
    /\ UNCHANGED attempts

AdapterNext ==
    \/ \E j \in Jobs : Submit(j) \/ Finish(j) \/ Fail(j)
    \/ \E S \in SUBSET Jobs : Start(S)
    \/ Shut

AdapterSpec == AdapterInit /\ [][AdapterNext]_adapterVars

=============================================================================
