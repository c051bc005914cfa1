----------------------------- MODULE RepoHealth -----------------------------
(***************************************************************************)
(* apps/server/src/services/repo-health.ts: the circuit breaker that keeps *)
(* a failing repository from being reviewed over and over.  This module    *)
(* holds one repository's entry and what each method makes of it;          *)
(* WebhookIngress composes it with the webhook route and the worker.       *)
(*                                                                         *)
(* Time is relative: `until' is what is left of a pause, 0 once it is over *)
(* and not yet cleared, NoPause when none is set.                          *)
(***************************************************************************)
EXTENDS Integers

CONSTANTS
    Threshold,   \* consecutive failures that trip an automatic pause
    Cooldown     \* how long an automatic pause lasts

ASSUME BreakerAssumption == Threshold \in Nat \ {0} /\ Cooldown \in Nat \ {0}

NoPause == -1

\* An entry: consecutiveFailures, pausedUntil, manuallyPaused.  The code only
\* compares the streak with the threshold, so it is counted no further.
HealthType == [failures : 0 .. Threshold, until : Nat \cup {NoPause}, manual : BOOLEAN]

Healthy == [failures |-> 0, until |-> NoPause, manual |-> FALSE]

\* isPaused(): a pause that is over counts only when an operator set it.
IsPaused(h) == h.until # NoPause /\ (h.until > 0 \/ h.manual)

\* What isPaused() leaves behind: it clears the automatic pause that is over.
Ticked(h) == IF IsPaused(h) THEN h ELSE [h EXCEPT !.until = NoPause]

\* recordSuccess(): the streak ends, and an automatic pause with it.
AfterSuccess(h) ==
    [h EXCEPT !.failures = 0, !.until = IF h.manual THEN @ ELSE NoPause]

\* consecutiveFailures after one more.
Streak(h) == IF h.failures < Threshold THEN h.failures + 1 ELSE Threshold

\* Mutant: the pause trips one failure early.
AfterFailureEarly(h) ==
    [h EXCEPT !.failures = Streak(h),
              !.until = IF Streak(h) + 1 >= Threshold /\ @ = NoPause THEN Cooldown ELSE @]

\* Mutant: every failure past the threshold starts the cooldown anew.
AfterFailureExtends(h) ==
    [h EXCEPT !.failures = Streak(h),
              !.until = IF Streak(h) >= Threshold THEN Cooldown ELSE @]

\* recordFailure(): at the threshold a pause begins, one in force (or over and
\* not yet cleared) is not extended.
AfterFailure(h) ==
    [h EXCEPT !.failures = Streak(h),
              !.until = IF Streak(h) >= Threshold /\ @ = NoPause THEN Cooldown ELSE @]

\* pause() by an operator: for a time, or for a year; either way it lasts until
\* resume(), for isPaused() never lets a manual pause expire.
AfterPause(h, time) == [h EXCEPT !.manual = TRUE, !.until = time]

\* resume(); of a repository that has no entry it changes nothing.
AfterResume(h) == Healthy
=============================================================================
