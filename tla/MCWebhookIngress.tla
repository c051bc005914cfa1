-------------------------- MODULE MCWebhookIngress --------------------------
(***************************************************************************)
(* TLC instances of WebhookIngress, and a claim of a comment in            *)
(* routes/webhook-replay.ts that the code does not keep.                   *)
(***************************************************************************)
EXTENDS WebhookIngress, TLC

CONSTANTS opened, draft, manual, head

\* Every request is about the same head of the pull request.
MCHeadOf == [s \in Deliveries \cup Reruns |-> head]

\* A replay is there to "re-trigger" a review whose job died: the queue takes it
\* and a job is due to run for the head.
ReplayRetriggers ==
    [][\A n \in DOMAIN records :
          (records[n].replay /\ jobs[head].state = "failed" /\ Enqueue(n))
              => jobs'[head].state = "waiting"]_vars
=============================================================================
