----------------------------- MODULE AgentPool ------------------------------
(***************************************************************************)
(* packages/agents/src/pipeline.ts: every agent runs over every chunk, in  *)
(* a pool of workers that share one cursor over the tasks; the results are *)
(* put together in the order of the tasks.  A pool is a record of that     *)
(* state; PullRequest holds one for each review under way.                 *)
(*                                                                         *)
(* A reply of the model is one of: a sequence of findings, Garbled (JSON   *)
(* that is not of the expected shape), Throws (the call fails, or what     *)
(* comes back is no JSON at all).                                          *)
(***************************************************************************)
EXTENDS DiffLines

CONSTANTS
    Garbled, Throws,   \* replies that are no findings
    NotYet,            \* where a result is to be put
    TaskTokens,        \* tokens that one call uses up
    Skips(_, _)        \* Skips(agent, path): preFilter leaves this file out

ASSUME PoolAssumption == Garbled # Throws /\ TaskTokens \in Nat \ {0}

-----------------------------------------------------------------------------
(* One task: an agent on a chunk.                                          *)

\* Whether the agent calls the model at all: the secrets agent does only when
\* the scan has hits, others may skip a language (preFilter).
Calls(task) ==
    IF task.agent = "secrets" THEN SecretLines(task.chunk) # {} ELSE ~task.filtered

\* PromptedAgent.run(): findings are stamped with the agent's name and must
\* begin in the chunk, or up to two lines below it.
Prompted(task, found) ==
    LET stamped == [i \in DOMAIN found |-> [found[i] EXCEPT !.agent = task.agent]]
    IN  Selected(stamped, {i \in DOMAIN found :
                              found[i].line \in task.chunk.first .. task.chunk.last + 2})

\* SecretsAgent.run(): what the model confirms is taken as it is.
Confirmed(found) ==
    [i \in DOMAIN found |-> [found[i] EXCEPT !.agent = "secrets", !.category = "secrets"]]

\* ... and without a usable answer every hit is reported.
RegexOnly(chunk) ==
    LET hits == Ascending(SecretLines(chunk))
    IN  [i \in DOMAIN hits |->
            [agent |-> "secrets", category |-> "secrets", severity |-> 0,
             title |-> <<"possible", "secret", "committed">>, why |-> <<"pattern", "matched">>,
             file |-> chunk.path, line |-> hits[i], endLine |-> hits[i],
             confidence |-> 60, tags |-> {<<"regex-only">>}]]

Found(task, reply) ==
    CASE ~Calls(task) -> <<>>
      [] Calls(task) /\ reply = Garbled ->
            IF task.agent = "secrets" THEN RegexOnly(task.chunk) ELSE <<>>
      [] OTHER -> IF task.agent = "secrets" THEN Confirmed(reply) ELSE Prompted(task, reply)

\* The execution that a task leaves.  Its cost is 0, whatever it used up.
Execution(task, reply) ==
    IF Calls(task) /\ reply = Throws
    THEN [agent |-> task.agent, status |-> "error", tokens |-> 0, costUsd |-> 0, findings |-> <<>>]
    ELSE [agent |-> task.agent, status |-> "ok",
          tokens |-> IF Calls(task) THEN TaskTokens ELSE 0, costUsd |-> 0,
          findings |-> Found(task, reply)]

\* The tasks of a review: the agents of the configuration, chunk by chunk.
Tasks(chunks, agents) ==
    LET n == Len(agents)
    IN  [i \in 1 .. Len(chunks) * n |->
            LET chunk == chunks[1 + ((i - 1) \div n)]
                agent == agents[1 + ((i - 1) % n)]
            IN  [agent |-> agent, chunk |-> chunk, filtered |-> Skips(agent, chunk.path)]]

-----------------------------------------------------------------------------
(* runWithConcurrency                                                      *)

\* No worker has a task, nothing has been asked.
NoPool == [cursor |-> 0, busy |-> {}, results |-> <<>>]

\* Every worker takes a task at once, as far as there are any.
NewPool(tasks, limit) ==
    LET started == Min({limit, Len(tasks)})
    IN  [cursor |-> started, busy |-> 1 .. started, results |-> [i \in DOMAIN tasks |-> NotYet]]

\* Mutant: results are collected in the order in which they arrive.
SettlePushes(pool, i, execution) ==
    LET place == Min({k \in DOMAIN pool.results : pool.results[k] = NotYet})
        more == pool.cursor < Len(pool.results)
    IN  [cursor |-> IF more THEN pool.cursor + 1 ELSE pool.cursor,
         busy |-> (pool.busy \ {i}) \cup (IF more THEN {pool.cursor + 1} ELSE {}),
         results |-> [pool.results EXCEPT ![place] = execution]]

\* Task i is done: its result has its place, and its worker goes on with the
\* next task, if there is one.
Settle(pool, i, execution) ==
    LET more == pool.cursor < Len(pool.results)
    IN  [cursor |-> IF more THEN pool.cursor + 1 ELSE pool.cursor,
         busy |-> (pool.busy \ {i}) \cup (IF more THEN {pool.cursor + 1} ELSE {}),
         results |-> [pool.results EXCEPT ![i] = execution]]

\* Promise.all(workers) is through.
Finished(pool) == pool.busy = {}

-----------------------------------------------------------------------------
(* mergeExecutions                                                         *)

\* One row for an agent, in the order in which agents appear: one failed chunk
\* makes it an error, the findings of the others stay.
MergeExecution(rows, e) ==
    LET own == {i \in DOMAIN rows : rows[i].agent = e.agent}
    IN  IF own = {} THEN Append(rows, e)
        ELSE [rows EXCEPT ![Min(own)] =
                [agent |-> e.agent,
                 status |-> IF e.status = "error" THEN "error" ELSE @.status,
                 tokens |-> @.tokens + e.tokens,
                 costUsd |-> @.costUsd + e.costUsd,
                 findings |-> @.findings \o e.findings]]

MergeExecutions(executions) == FoldLeft(MergeExecution, <<>>, executions)

AllFindings(rows) == FoldLeft(LAMBDA fs, e : fs \o e.findings, <<>>, rows)
TotalCostUsd(rows) == Total([i \in DOMAIN rows |-> rows[i].costUsd])
TotalTokens(rows) == Total([i \in DOMAIN rows |-> rows[i].tokens])
=============================================================================
