---------------------------- MODULE ReviewWorker ----------------------------
(***************************************************************************)
(* apps/server/src/worker.ts at work on one pull request: review jobs that *)
(* BullMQ hands to the server's replicas, each running the worker handler  *)
(* step by step between its awaits, against GitHub's issue comments,       *)
(* inline reviews and check runs (packages/github/src/client.ts), and      *)
(* against the in-memory ReviewStore of the replica that runs it.          *)
(*                                                                         *)
(* Every GitHub call goes through withRetry (packages/llm/src/retry.ts): a *)
(* call may fail, with or without having taken effect, and is then either  *)
(* tried again (408, 429, 5xx, ECONNRESET) or thrown at the handler.       *)
(* A replica may crash between any two steps; its store is gone then, the  *)
(* job is not: BullMQ finds it stalled and delivers it again.              *)
(*                                                                         *)
(* The server has its GitHub App credentials; without them the handler     *)
(* only fails the record and returns.                                      *)
(***************************************************************************)
EXTENDS Naturals, FiniteSets, Sequences, Functions

CONSTANTS
    Jobs,         \* review jobs, all for the same pull request
    Replicas,     \* server processes, each with a worker and a store
    Slots,        \* jobs a worker runs at once (BullMQ "concurrency")
    MaxAttempts,  \* failed attempts after which a job has failed ("attempts")
    MaxStalls,    \* how often a job may stall before BullMQ gives it up
    MaxTries,     \* tries withRetry makes of one call
    MaxFaults,    \* bound: failed calls in a behaviour
    MaxCrashes,   \* bound: crashes in a behaviour
    PageSize,     \* comments one listing returns ("per_page", 100), the oldest
    MaxChatter,   \* bound: comments of other people before the first of ours
    LostReplies,  \* whether a failed call may have taken effect
    Inline,       \* whether the repository asks for inline comments
    NoReplica     \* where a job without an attempt is

ASSUME WorkerAssumption ==
    /\ IsFiniteSet(Jobs) /\ IsFiniteSet(Replicas)
    /\ Slots \in Nat \ {0} /\ MaxAttempts \in Nat \ {0} /\ MaxTries \in Nat \ {0}
    /\ MaxStalls \in Nat /\ MaxFaults \in Nat /\ MaxCrashes \in Nat
    /\ PageSize \in Nat \ {0} /\ MaxChatter \in Nat
    /\ LostReplies \in BOOLEAN /\ Inline \in BOOLEAN
    /\ NoReplica \notin Replicas

VARIABLES
    queue,      \* queue[j]: BullMQ's state of job j
    failures,   \* failures[j]: attempts of j that failed (attemptsMade)
    stalls,     \* stalls[j]: how often j stalled
    at,         \* at[j]: replica of j's current attempt
    pc,         \* pc[j]: next step of that attempt
    tries,      \* tries[j]: failed tries of the call it is making
    checkId,    \* checkId[j]: inProgressCheckRunId, 0 when undefined
    target,     \* target[j]: the comment the listing found, 0 when none
    blocked,    \* blocked[j]: the attempt posts a budget notice, not a review
    rec,        \* rec[r][j]: status of j's record in the store of replica r
    comments,   \* marker comments on the PR, by id: whose body each shows
    chatter,    \* comments of other people that are older than the first of them
    inline,     \* inline[j]: inline reviews posted for j
    checks,     \* check runs on the PR's commits, by id: job and status
    lost,       \* history: comment writes that took effect, the reply lost
    runs,       \* history: runs[j] counts the pipeline runs j has paid for
    began,      \* history: began[j] are the replicas where an attempt of j began
    faults,     \* failed calls so far
    crashes     \* crashes so far

queueVars  == <<queue, failures, stalls>>
localVars  == <<checkId, target, blocked>>
githubVars == <<comments, chatter, inline, checks>>
vars == <<queue, failures, stalls, at, pc, tries, checkId, target, blocked, rec,
          comments, chatter, inline, checks, lost, runs, began, faults, crashes>>

Step == {"idle", "dead", "gate", "startCheck", "pipeline", "list", "post",
         "inline", "finishCheck", "recreate", "store", "cleanup", "giveUp"}
RecStatus == {"absent", "queued", "running", "completed", "failed"}

TypeOK ==
    /\ queue \in [Jobs -> {"new", "waiting", "active", "completed", "failed"}]
    /\ failures \in [Jobs -> 0 .. MaxAttempts]
    /\ stalls \in [Jobs -> 0 .. MaxStalls + 1]
    /\ at \in [Jobs -> Replicas \cup {NoReplica}]
    /\ pc \in [Jobs -> Step]
    /\ tries \in [Jobs -> 0 .. MaxTries - 1]
    /\ checkId \in [Jobs -> Nat]
    /\ target \in [Jobs -> Nat]
    /\ blocked \in [Jobs -> BOOLEAN]
    /\ rec \in [Replicas -> [Jobs -> RecStatus]]
    /\ comments \in Seq(Jobs)
    /\ chatter \in 0 .. MaxChatter
    /\ inline \in [Jobs -> Nat]
    /\ checks \in Seq([job : Jobs, status : {"in_progress", "review", "failure"}])
    /\ lost \in 0 .. faults
    /\ runs \in [Jobs -> Nat]
    /\ began \in [Jobs -> SUBSET Replicas]
    /\ faults \in 0 .. MaxFaults
    /\ crashes \in 0 .. MaxCrashes

Init ==
    /\ queue = [j \in Jobs |-> "new"]
    /\ failures = [j \in Jobs |-> 0]
    /\ stalls = [j \in Jobs |-> 0]
    /\ at = [j \in Jobs |-> NoReplica]
    /\ pc = [j \in Jobs |-> "idle"]
    /\ tries = [j \in Jobs |-> 0]
    /\ checkId = [j \in Jobs |-> 0]
    /\ target = [j \in Jobs |-> 0]
    /\ blocked = [j \in Jobs |-> FALSE]
    /\ rec = [r \in Replicas |-> [j \in Jobs |-> "absent"]]
    /\ comments = <<>>
    /\ chatter = 0
    /\ inline = [j \in Jobs |-> 0]
    /\ checks = <<>>
    /\ lost = 0
    /\ runs = [j \in Jobs |-> 0]
    /\ began = [j \in Jobs |-> {}]
    /\ faults = 0
    /\ crashes = 0

-----------------------------------------------------------------------------
(* The queue and the start of an attempt.                                  *)

\* A webhook or a manual re-run: store.start on the replica that serves the
\* request, then queue.enqueue (routes/webhooks.ts, routes/rerun.ts).
Submit(j, r) ==
    /\ queue[j] = "new"
    /\ queue' = [queue EXCEPT ![j] = "waiting"]
    /\ rec' = [rec EXCEPT ![r][j] = "queued"]
    /\ UNCHANGED <<failures, stalls, at, pc, tries, localVars, githubVars, lost, runs,
                   began, faults, crashes>>

Running(r) == {j \in Jobs : at[j] = r /\ pc[j] \notin {"idle", "dead"}}

\* A record that the store does not hold is left alone, in silence.
SetRecord(j, status) ==
    rec' = [rec EXCEPT ![at[j]][j] = IF @ = "absent" THEN @ ELSE status]

\* BullMQ hands j to the worker of r, whose handler calls markRunning.
Begin(j, r) ==
    /\ queue[j] = "waiting"
    /\ Cardinality(Running(r)) < Slots
    /\ queue' = [queue EXCEPT ![j] = "active"]
    /\ at' = [at EXCEPT ![j] = r]
    /\ pc' = [pc EXCEPT ![j] = "gate"]
    /\ rec' = [rec EXCEPT ![r][j] = IF @ = "absent" THEN @ ELSE "running"]
    /\ began' = [began EXCEPT ![j] = @ \cup {r}]
    /\ UNCHANGED <<failures, stalls, tries, localVars, githubVars, lost, runs, faults, crashes>>

Goto(j, step) == pc' = [pc EXCEPT ![j] = step]

-----------------------------------------------------------------------------
(* withRetry around one GitHub call.                                       *)

\* The call answers and the handler goes on at `step'.
Answer(j, step) ==
    /\ Goto(j, step)
    /\ tries' = [tries EXCEPT ![j] = 0]
    /\ UNCHANGED faults

\* The call fails: it is made again, or the error reaches the handler, which
\* goes on at `step'.
Fault(j, step) ==
    /\ faults < MaxFaults
    /\ faults' = faults + 1
    /\ \/ /\ tries[j] + 1 < MaxTries
          /\ tries' = [tries EXCEPT ![j] = @ + 1]
          /\ UNCHANGED pc
       \/ /\ tries' = [tries EXCEPT ![j] = 0]
          /\ Goto(j, step)

-----------------------------------------------------------------------------
(* The handler, one action per await that matters.                         *)

\* Installation token, .clawreview.yml, budget gate, diff, cost preflight:
\* reads, after which the attempt goes on or posts a budget notice instead.
Gate(j) ==
    /\ pc[j] = "gate"
    /\ \/ Answer(j, "startCheck") /\ UNCHANGED blocked
       \/ Answer(j, "list") /\ blocked' = [blocked EXCEPT ![j] = TRUE]
       \/ Fault(j, "cleanup") /\ UNCHANGED blocked
    /\ UNCHANGED <<queueVars, at, checkId, target, rec, githubVars, lost, runs, began, crashes>>

NewCheck(j, status) == checks' = Append(checks, [job |-> j, status |-> status])

\* createCheckRun(in_progress); a failure is logged and the review goes on
\* without a check-run id.
StartCheck(j) ==
    /\ pc[j] = "startCheck"
    /\ \/ /\ Answer(j, "pipeline")
          /\ NewCheck(j, "in_progress")
          /\ checkId' = [checkId EXCEPT ![j] = Len(checks) + 1]
       \/ /\ Fault(j, "pipeline")
          /\ UNCHANGED checks \/ (LostReplies /\ NewCheck(j, "in_progress"))
          /\ UNCHANGED checkId
    /\ UNCHANGED <<queueVars, at, target, blocked, rec, comments, chatter, inline, lost, runs, began, crashes>>

\* runPipeline and everything computed from its findings.
Pipeline(j) ==
    /\ pc[j] = "pipeline"
    /\ runs' = [runs EXCEPT ![j] = @ + 1]
    /\ \/ Answer(j, "list")
       \/ /\ faults < MaxFaults
          /\ faults' = faults + 1
          /\ Goto(j, "cleanup")
          /\ UNCHANGED tries
    /\ UNCHANGED <<queueVars, at, localVars, rec, githubVars, lost, began, crashes>>

\* Somebody else comments on the pull request.  GitHub lists the oldest comments
\* first, so only comments older than all of ours can push ours off the page.
Chat ==
    /\ comments = <<>>
    /\ chatter < MaxChatter
    /\ chatter' = chatter + 1
    /\ UNCHANGED <<queueVars, at, pc, tries, localVars, rec, comments, inline, checks,
                   lost, runs, began, faults, crashes>>

\* upsertReviewComment, first call: list one page of comments, keep the first
\* one on it that carries the marker.
List(j) ==
    /\ pc[j] = "list"
    /\ \/ /\ Answer(j, "post")
          /\ target' = [target EXCEPT ![j] = IF comments = <<>> \/ chatter >= PageSize THEN 0 ELSE 1]
       \/ Fault(j, "cleanup") /\ UNCHANGED target
    /\ UNCHANGED <<queueVars, at, checkId, blocked, rec, githubVars, lost, runs, began, crashes>>

\* Mutant: the comment found by the listing is not updated.
UpsertAlwaysPosts(j) == comments' = Append(comments, j)

\* upsertReviewComment, second call: PATCH the comment found, else POST one.
Upsert(j) ==
    comments' = IF target[j] = 0 THEN Append(comments, j)
                ELSE [comments EXCEPT ![target[j]] = j]

Post(j) ==
    /\ pc[j] = "post"
    /\ \/ /\ Answer(j, IF blocked[j] THEN "store" ELSE "inline")
          /\ Upsert(j)
          /\ UNCHANGED lost
       \/ Fault(j, "cleanup") /\ UNCHANGED <<comments, lost>>
       \/ /\ Fault(j, "cleanup")
          /\ LostReplies
          /\ Upsert(j)
          /\ lost' = lost + 1
    /\ UNCHANGED <<queueVars, at, localVars, rec, chatter, inline, checks, runs, began, crashes>>

\* createReview with the inline comments, when the repository asks for them and
\* a finding has a line to hang on; a failure is logged and the review goes on.
PostInline(j) ==
    LET posted == inline' = [inline EXCEPT ![j] = @ + 1]
    IN  /\ pc[j] = "inline"
        /\ \/ Answer(j, "finishCheck") /\ (UNCHANGED inline \/ (Inline /\ posted))
           \/ /\ Inline /\ Fault(j, "finishCheck")
              /\ UNCHANGED inline \/ (LostReplies /\ posted)
        /\ UNCHANGED <<queueVars, at, localVars, rec, comments, chatter, checks, lost, runs, began, crashes>>

SetCheck(j, status) == checks' = [checks EXCEPT ![checkId[j]].status = status]

\* Mutant: the review's verdict always gets a check run of its own.
FinishCheckAfresh(j) ==
    /\ pc[j] = "finishCheck"
    /\ Goto(j, "recreate")
    /\ UNCHANGED <<tries, faults, checks>>
    /\ UNCHANGED <<queueVars, at, localVars, rec, comments, chatter, inline, lost, runs, began, crashes>>

\* updateCheckRun to completed; if that fails, or there is nothing to update,
\* a check run is created afresh.
FinishCheck(j) ==
    /\ pc[j] = "finishCheck"
    /\ \/ checkId[j] = 0 /\ Goto(j, "recreate") /\ UNCHANGED <<tries, faults, checks>>
       \/ checkId[j] # 0 /\ Answer(j, "store") /\ SetCheck(j, "review")
       \/ /\ checkId[j] # 0 /\ Fault(j, "recreate")
          /\ UNCHANGED checks \/ (LostReplies /\ SetCheck(j, "review"))
    /\ UNCHANGED <<queueVars, at, localVars, rec, comments, chatter, inline, lost, runs, began, crashes>>

Recreate(j) ==
    /\ pc[j] = "recreate"
    /\ \/ Answer(j, "store") /\ NewCheck(j, "review")
       \/ /\ Fault(j, "cleanup")
          /\ UNCHANGED checks \/ (LostReplies /\ NewCheck(j, "review"))
    /\ UNCHANGED <<queueVars, at, localVars, rec, comments, chatter, inline, lost, runs, began, crashes>>

\* An attempt is over for the jobs in S, and its local variables with it.
Forget(S) ==
    /\ checkId' = [j \in Jobs |-> IF j \in S THEN 0 ELSE checkId[j]]
    /\ target' = [j \in Jobs |-> IF j \in S THEN 0 ELSE target[j]]
    /\ blocked' = [j \in Jobs |-> j \notin S /\ blocked[j]]

Leave(j) ==
    /\ pc' = [pc EXCEPT ![j] = "idle"]
    /\ at' = [at EXCEPT ![j] = NoReplica]
    /\ Forget({j})

\* Mutant: a budget notice completes the record.
StoreCompletes(j) ==
    /\ pc[j] = "store"
    /\ \/ /\ rec[at[j]][j] # "absent"
          /\ SetRecord(j, "completed")
          /\ queue' = [queue EXCEPT ![j] = "completed"]
          /\ Leave(j)
       \/ /\ rec[at[j]][j] = "absent"
          /\ Goto(j, "cleanup")
          /\ UNCHANGED <<rec, queue, at, localVars>>
    /\ UNCHANGED <<failures, stalls, tries, githubVars, lost, runs, began, faults, crashes>>

\* Mutant: an unknown review is waited for.
StorePolls(j) ==
    /\ pc[j] = "store"
    /\ \/ /\ blocked[j] \/ rec[at[j]][j] # "absent"
          /\ SetRecord(j, IF blocked[j] THEN "failed" ELSE "completed")
          /\ queue' = [queue EXCEPT ![j] = "completed"]
          /\ Leave(j)
       \/ /\ ~blocked[j] /\ rec[at[j]][j] = "absent"
          /\ UNCHANGED <<rec, queue, at, pc, localVars>>
    /\ UNCHANGED <<failures, stalls, tries, githubVars, lost, runs, began, faults, crashes>>

\* The end of the handler: store.fail after a budget notice, else
\* store.complete, which throws when this replica does not know the review.
Store(j) ==
    /\ pc[j] = "store"
    /\ \/ /\ blocked[j] \/ rec[at[j]][j] # "absent"
          /\ SetRecord(j, IF blocked[j] THEN "failed" ELSE "completed")
          /\ queue' = [queue EXCEPT ![j] = "completed"]
          /\ Leave(j)
       \/ /\ ~blocked[j] /\ rec[at[j]][j] = "absent"
          /\ Goto(j, "cleanup")
          /\ UNCHANGED <<rec, queue, at, localVars>>
    /\ UNCHANGED <<failures, stalls, tries, githubVars, lost, runs, began, faults, crashes>>

\* The catch block, first part: flip the check run to failure, best effort.
Cleanup(j) ==
    /\ pc[j] = "cleanup"
    /\ \/ checkId[j] = 0 /\ Goto(j, "giveUp") /\ UNCHANGED <<tries, faults, checks>>
       \/ checkId[j] # 0 /\ Answer(j, "giveUp") /\ SetCheck(j, "failure")
       \/ /\ checkId[j] # 0 /\ Fault(j, "giveUp")
          /\ UNCHANGED checks \/ (LostReplies /\ SetCheck(j, "failure"))
    /\ UNCHANGED <<queueVars, at, localVars, rec, comments, chatter, inline, lost, runs, began, crashes>>

\* Mutant: one attempt too many.
GiveUpLate(j) ==
    /\ pc[j] = "giveUp"
    /\ SetRecord(j, "failed")
    /\ failures' = [failures EXCEPT ![j] = @ + 1]
    /\ queue' = [queue EXCEPT ![j] = IF failures[j] < MaxAttempts THEN "waiting" ELSE "failed"]
    /\ Leave(j)
    /\ UNCHANGED <<stalls, tries, githubVars, lost, runs, began, faults, crashes>>

\* Mutant: the catch block forgets store.fail.
GiveUpSilently(j) ==
    /\ pc[j] = "giveUp"
    /\ failures' = [failures EXCEPT ![j] = @ + 1]
    /\ queue' = [queue EXCEPT ![j] = IF failures'[j] < MaxAttempts THEN "waiting" ELSE "failed"]
    /\ Leave(j)
    /\ UNCHANGED <<rec, stalls, tries, githubVars, lost, runs, began, faults, crashes>>

\* The catch block, second part: store.fail, then rethrow; BullMQ retries the
\* job or, after MaxAttempts failures, marks it failed.
GiveUp(j) ==
    /\ pc[j] = "giveUp"
    /\ SetRecord(j, "failed")
    /\ failures' = [failures EXCEPT ![j] = @ + 1]
    /\ queue' = [queue EXCEPT ![j] = IF failures'[j] < MaxAttempts THEN "waiting" ELSE "failed"]
    /\ Leave(j)
    /\ UNCHANGED <<stalls, tries, githubVars, lost, runs, began, faults, crashes>>

-----------------------------------------------------------------------------
(* Crashes.                                                                *)

\* A replica dies and restarts: its attempts end where they were, its store is
\* empty.
Crash(r) ==
    /\ crashes < MaxCrashes
    /\ crashes' = crashes + 1
    /\ rec' = [rec EXCEPT ![r] = [j \in Jobs |-> "absent"]]
    /\ pc' = [j \in Jobs |-> IF j \in Running(r) THEN "dead" ELSE pc[j]]
    /\ tries' = [j \in Jobs |-> IF j \in Running(r) THEN 0 ELSE tries[j]]
    /\ Forget(Running(r))
    /\ UNCHANGED <<queueVars, at, githubVars, lost, runs, began, faults>>

\* BullMQ notices that nobody renews the lock of j.
Stall(j) ==
    /\ pc[j] = "dead"
    /\ stalls' = [stalls EXCEPT ![j] = @ + 1]
    /\ queue' = [queue EXCEPT ![j] = IF stalls[j] < MaxStalls THEN "waiting" ELSE "failed"]
    /\ Leave(j)
    /\ UNCHANGED <<failures, tries, rec, githubVars, lost, runs, began, faults, crashes>>

-----------------------------------------------------------------------------
Worker(j) ==
    \/ Gate(j) \/ StartCheck(j) \/ Pipeline(j) \/ List(j) \/ Post(j)
    \/ PostInline(j) \/ FinishCheck(j) \/ Recreate(j) \/ Store(j)
    \/ Cleanup(j) \/ GiveUp(j)

Settled(j) == queue[j] \in {"completed", "failed"}

\* Every job is settled: the workers wait for work that never comes.
Quiet == (\A j \in Jobs : Settled(j)) /\ UNCHANGED vars

Next ==
    \/ \E j \in Jobs, r \in Replicas : Submit(j, r) \/ Begin(j, r)
    \/ \E j \in Jobs : Worker(j) \/ Stall(j)
    \/ \E r \in Replicas : Crash(r)
    \/ Chat
    \/ Quiet

Spec == Init /\ [][Next]_vars

\* A running handler goes on (its awaits are HTTP calls that answer or time
\* out), BullMQ hands out waiting jobs and finds stalled ones.
FairSpec ==
    /\ Spec
    /\ \A j \in Jobs : /\ WF_vars(Worker(j))
                       /\ WF_vars(Stall(j))
                       /\ WF_vars(\E r \in Replicas : Begin(j, r))

-----------------------------------------------------------------------------
(* Properties                                                              *)

\* How many attempts may be between their listing and their comment at once.
Workers == Cardinality(Replicas) * Slots

\* How often BullMQ has handed out j.
AttemptsOf(j) ==
    failures[j] + stalls[j] + (IF queue[j] \in {"active", "completed"} THEN 1 ELSE 0)

\* upsertReviewComment lists one page and then creates, in two calls.  While the
\* first of our comments is on that page, the PR has one comment for every attempt
\* that listed before the first existed, at most one for each worker slot, and
\* one for every reply that was lost.  Off the page it is not found and every
\* attempt of a job posts anew, one comment each and one for every reply that was
\* lost.  createReview always posts: a job repeats its inline comments, once for
\* a run of the pipeline and once for a failed call at most.
CommentsBounded ==
    /\ chatter < PageSize => Len(comments) <= Workers + lost
    /\ \A j \in Jobs :
          /\ Cardinality({c \in DOMAIN comments : comments[c] = j}) <= AttemptsOf(j) + lost
          /\ inline[j] <= runs[j] + faults

\* A check run that still says in_progress and that no attempt will finish.
Stranded ==
    {c \in DOMAIN checks :
        /\ checks[c].status = "in_progress"
        /\ \A j \in Jobs : checkId[j] # c}

\* Only a failed call or a crash leaves a check run in progress for ever, each
\* failed call at most one, each crash at most those of the replica's slots.
StrandedBounded == Cardinality(Stranded) <= faults + crashes * Slots

\* What the dashboard shows as completed is on the PR: the comment, and a check
\* run with the review's verdict.  The worker posts first and stores last.
CompletedIsPosted ==
    \A r \in Replicas, j \in Jobs :
        rec[r][j] = "completed" =>
            /\ comments # <<>>
            /\ [job |-> j, status |-> "review"] \in Range(checks)

\* What the records of a settled job say, on every replica: none is left running,
\* one is left queued only where no attempt of the job ever began (the replica
\* that took the request while another one did the work), and one says completed
\* only of a job that is.  Crashes empty a store in between, and an attempt on a
\* replica without the record fails or, over budget, completes without it.
RecordsAgree ==
    \A r \in Replicas, j \in Jobs :
        /\ Settled(j) => rec[r][j] # "running"
        /\ Settled(j) /\ r \in began[j] => rec[r][j] # "queued"
        /\ rec[r][j] = "completed" => queue[j] = "completed"

\* Retries and redeliveries included, a job pays for its agents at most this
\* many times.
RunsBounded == \A j \in Jobs : runs[j] <= MaxAttempts + MaxStalls

\* Every job the queue accepted is completed or failed in the end.
EveryJobSettles == \A j \in Jobs : queue[j] = "waiting" ~> Settled(j)

-----------------------------------------------------------------------------
(* BullMQ, used as bullmq.ts uses it, is a QueueAdapter that hands a job out *)
(* once for every failure it tolerates and every stall.                      *)
Adapter == INSTANCE QueueAdapter WITH
    MaxAttempts <- MaxAttempts + MaxStalls,
    phase <- [j \in Jobs |->
                CASE queue[j] = "new" -> "new"
                  [] queue[j] = "waiting" -> "queued"
                  [] queue[j] = "active" -> "running"
                  [] queue[j] = "completed" -> "done"
                  [] queue[j] = "failed" -> "failed"],
    attempts <- [j \in Jobs |-> AttemptsOf(j)],
    open <- TRUE

\* Every step of the queue and the workers is one the adapter interface allows.
ImplementsAdapter == Adapter!AdapterSpec
=============================================================================
