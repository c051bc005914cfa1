--------------------------- MODULE MCInMemoryQueue --------------------------
(***************************************************************************)
(* TLC instances of InMemoryQueue: three jobs, two under one name and one  *)
(* under another, immediate and delayed, so that a job without a handler,  *)
(* a job not yet due and a startable job can be pending together.          *)
(***************************************************************************)
EXTENDS InMemoryQueue, TLC

CONSTANTS a, b, c, review, other

MCJobs == {a, b, c}
MCNames == {review, other}
MCNameOf == a :> review @@ b :> review @@ c :> other
MCDelays == {0, 2}
=============================================================================
