---------------------------- MODULE PullRequest -----------------------------
(***************************************************************************)
(* One pull request, from a push to what reviewers see of its review and   *)
(* do with it: the worker of apps/server/src/worker.ts as far as findings, *)
(* tokens and money go.  Every push starts a review of its head; reviews   *)
(* run side by side (BullMQ), each with a pool of agents; the passes of    *)
(* Aggregator and Report make of its findings what is posted and stored;   *)
(* reviewers dismiss and reopen; operators change the budget.              *)
(*                                                                         *)
(* How calls to GitHub fail and take effect, and what a crash leaves, is   *)
(* in ReviewWorker; here a call fails as a whole, and BullMQ starts the    *)
(* handler again.                                                          *)
(***************************************************************************)
EXTENDS ReviewStore, Formats, AgentPool, BudgetGuard

CONSTANTS
    Pushes,              \* how often the pull request is pushed to
    Diff,                \* Diff[h]: the files of the diff at head h
    Configs,             \* Configs[h]: what .clawreview.yml may say at head h
    Agents,              \* the agents, in the order of the configuration
    Replies(_, _),       \* Replies(agent, chunk): what the model may answer
    Concurrency,         \* REVIEW_CONCURRENCY
    Rate,                \* what the estimate reckons for one agent on one chunk
    Limits,              \* the limits that PUT /api/budget may set
    MaxFaults,           \* bound: failed calls to GitHub
    MaxActs,             \* bound: requests of reviewers
    MaxBudgetOps         \* bound: requests to the budget routes

Reviews == 1 .. Pushes

\* A job has three attempts; here they are never used up.
ASSUME PullRequestAssumption ==
    /\ Pushes \in Nat /\ Concurrency \in Nat \ {0} /\ Rate \in Nat
    /\ MaxFaults \in 0 .. 2 /\ MaxActs \in Nat /\ MaxBudgetOps \in Nat
    /\ Limits \subseteq Nat \ {0}

VARIABLES
    head,       \* the last push; review h is the review of head h
    cfg,        \* cfg[r]: .clawreview.yml at the head of r
    rows,       \* the review store's rows
    memory,     \* dismissedByPr: the fingerprints that reviewers dismissed
    ledger,     \* the budget guard's entry of the installation
    step,       \* step[r]: where the handler of r stands
    seen,       \* seen[r]: the head whose diff the attempt fetched
    pool,       \* pool[r]: runWithConcurrency
    made,       \* made[r]: summary, aggregated findings and digest of the attempt
    comment,    \* GitHub: the comment that carries the marker
    inline,     \* inline[r]: GitHub: the inline reviews submitted for r
    verdict,    \* verdict[r]: GitHub: conclusion of the check run of r
    faults, acts, budgetOps   \* used up of the bounds

workerVars == <<step, seen, pool, made>>
githubVars == <<comment, inline, verdict>>
bounds == <<faults, acts, budgetOps>>
vars == <<head, cfg, rows, memory, ledger, step, seen, pool, made, comment, inline, verdict,
          faults, acts, budgetOps>>

-----------------------------------------------------------------------------
(* What an attempt makes of a diff.                                        *)

NoReport == [executions |-> <<>>, summed |-> Summed(<<>>), suppressed |-> <<>>,
             digest |-> FindingDigest(<<>>, 0, Nit)]

\* What is reviewed of the diff that r has fetched, task by task.
TasksOf(files, c) ==
    Tasks(Chunks(Reviewable(files, c.ignore, c.limits)), Agents)

\* Diffs come from the parser; agents, configuration and the findings of a reply
\* have passed their schemas.
IsConfig(c) ==
    /\ IsSequence(c.rules) /\ \A rule \in ToSet(c.rules) : IsRule(rule)
    /\ c.floor \in 0 .. 100 /\ c.threshold \in Severities /\ c.maxPerFile \in Nat \ {0}
    /\ c.limits.maxLines \in Nat /\ c.inline.min \in Severities /\ c.inline.max \in Nat \ {0}
    /\ c.budget \in Nat

IsReply(reply) ==
    reply \in {Garbled, Throws} \/ (IsSequence(reply) /\ \A f \in ToSet(reply) : IsFinding(f))

ASSUME InputsAssumption ==
    /\ IsSequence(Agents)
    /\ \A h \in Reviews : IsSequence(Diff[h]) /\ \A f \in ToSet(Diff[h]) : IsFile(f)
    /\ \A r \in Reviews : \A c \in Configs[r] : IsConfig(c)
    /\ \A h, r \in Reviews : \A c \in Configs[r] :
          \A task \in ToSet(TasksOf(Diff[h], c)) :
             \A reply \in Replies(task.agent, task.chunk) : IsReply(reply)

\* severity rules, calibration: the findings that compete for the report.
Competing(executions, c) ==
    CalibrateConfidence(ApplySeverityRules(AllFindings(executions), c.rules))

\* similarity merge and aggregate, before the markers in the diff are looked at.
Aggregated(executions, c) ==
    Aggregate(SimilarityMerge(Competing(executions, c)), c.threshold, c.maxPerFile, c.floor)

\* The passes of worker.ts, in its order; the totals are taken again after the
\* suppression.
Published(results, files, c) ==
    LET executions == MergeExecutions(results)
        aggregated == Aggregated(executions, c)
        hidden == {i \in DOMAIN aggregated.findings : Suppressed(aggregated.findings[i], files)}
        kept == Selected(aggregated.findings, DOMAIN aggregated.findings \ hidden)
        summed == Recompute(aggregated, kept)
    IN  [executions |-> executions, summed |-> summed,
         suppressed |-> Selected(aggregated.findings, hidden),
         digest |-> FindingDigest(summed.findings, c.floor, c.threshold)]

\* `clawreview run' on the same diff with the same answers: after the suppression
\* it takes the totals again and leaves the groups of its JSON report as they were.
LocalReport(results, files, c) ==
    LET aggregated == Aggregated(MergeExecutions(results), c)
        kept == Selected(aggregated.findings,
                         {i \in DOMAIN aggregated.findings : ~Suppressed(aggregated.findings[i], files)})
    IN  [aggregated EXCEPT !.findings = kept, !.totals = Totals(kept)]

\* estimateReviewCost(): every agent on every chunk, filtered or not.
Estimate(files, c) == Rate * Len(TasksOf(files, c))

\* The two gates before any token is spent.
Blocked(r) ==
    \/ WouldExceed(ledger, cfg[r].budget)
    \/ PreflightBlocks(Snapshot(ledger, cfg[r].budget).spent,
                       Estimate(Diff[head], cfg[r]), cfg[r].budget)

NoComment == [review |-> 0, kind |-> "none", body |-> PrComment(NoReport.summed, NoReport.digest)]

-----------------------------------------------------------------------------
Init ==
    /\ head = 0
    /\ cfg \in {c \in [Reviews -> UNION {Configs[r] : r \in Reviews}] :
                  \A r \in Reviews : c[r] \in Configs[r]}
    /\ rows = [r \in Reviews |-> NoRow]
    /\ memory = {}
    /\ ledger = NoEntry
    /\ step = [r \in Reviews |-> "new"]
    /\ seen = [r \in Reviews |-> 0]
    /\ pool = [r \in Reviews |-> NoPool]
    /\ made = [r \in Reviews |-> NoReport]
    /\ comment = NoComment
    /\ inline = [r \in Reviews |-> <<>>]
    /\ verdict = [r \in Reviews |-> "none"]
    /\ faults = 0 /\ acts = 0 /\ budgetOps = 0

\* A push: the webhook route writes the row and queues the job.
Push ==
    /\ head < Pushes
    /\ head' = head + 1
    /\ rows' = [rows EXCEPT ![head + 1] = Started]
    /\ step' = [step EXCEPT ![head + 1] = "queued"]
    /\ UNCHANGED <<cfg, memory, ledger, seen, pool, made, githubVars, bounds>>

-----------------------------------------------------------------------------
(* The handler.  Each step ends at an await.                               *)

Go(r, from, to) == step[r] = from /\ step' = [step EXCEPT ![r] = to]

\* markRunning
Begin(r) ==
    /\ Go(r, "queued", "gate")
    /\ rows' = [rows EXCEPT ![r].status = "running"]
    /\ UNCHANGED <<head, cfg, memory, ledger, seen, pool, made, githubVars, bounds>>

\* Over budget, or likely to be: one comment says so, and the row has failed.
Block(r) ==
    /\ Go(r, "gate", "done")
    /\ Blocked(r)
    /\ comment' = [NoComment EXCEPT !.review = r, !.kind = "blocked"]
    /\ rows' = [rows EXCEPT ![r].status = "failed"]
    /\ UNCHANGED <<head, cfg, memory, ledger, seen, pool, made, inline, verdict, bounds>>

\* The diff is that of the pull request, whatever its head is by now.
Start(r) ==
    /\ Go(r, "gate", "agents")
    /\ ~Blocked(r)
    /\ seen' = [seen EXCEPT ![r] = head]
    /\ pool' = [pool EXCEPT ![r] = NewPool(TasksOf(Diff[head], cfg[r]), Concurrency)]
    /\ UNCHANGED <<head, cfg, rows, memory, ledger, made, githubVars, bounds>>

\* An agent is done with its chunk, in any order.
Answer(r) ==
    /\ step[r] = "agents"
    /\ \E i \in pool[r].busy :
         LET task == TasksOf(Diff[seen[r]], cfg[r])[i]
         IN  \E reply \in Replies(task.agent, task.chunk) :
               pool' = [pool EXCEPT ![r] = Settle(pool[r], i, Execution(task, reply))]
    /\ UNCHANGED <<head, cfg, rows, memory, ledger, step, seen, made, githubVars, bounds>>

\* The pool is through; all passes run without an await.
Publish(r) ==
    /\ Go(r, "agents", "comment")
    /\ Finished(pool[r])
    /\ made' = [made EXCEPT ![r] = Published(pool[r].results, Diff[seen[r]], cfg[r])]
    /\ UNCHANGED <<head, cfg, rows, memory, ledger, seen, pool, githubVars, bounds>>

\* upsertReviewComment
PostComment(r) ==
    /\ Go(r, "comment", "inline")
    /\ comment' = [review |-> r, kind |-> "report", body |-> PrComment(made[r].summed, made[r].digest)]
    /\ pool' = [pool EXCEPT ![r] = NoPool]
    /\ UNCHANGED <<head, cfg, rows, memory, ledger, seen, made, inline, verdict, bounds>>

\* createReview; its failure is only logged.
PostInline(r) ==
    LET options == cfg[r].inline
        anchored == InlineComments(made[r].summed.findings, Diff[seen[r]], options.min, options.max)
    IN  /\ Go(r, "inline", "check")
        /\ \/ /\ options.enabled /\ anchored # <<>>
              /\ inline' = [inline EXCEPT ![r] = Append(@, [of |-> seen[r], comments |-> anchored])]
              /\ UNCHANGED faults
           \/ /\ ~options.enabled \/ anchored = <<>>
              /\ UNCHANGED <<inline, faults>>
           \/ /\ options.enabled /\ anchored # <<>> /\ faults < MaxFaults
              /\ faults' = faults + 1
              /\ UNCHANGED inline
        /\ UNCHANGED <<head, cfg, rows, memory, ledger, seen, pool, made, comment, verdict,
                       acts, budgetOps>>

\* The check run is completed, or created anew.
FinishCheck(r) ==
    /\ Go(r, "check", "store")
    /\ verdict' = [verdict EXCEPT ![r] = Conclusion(made[r].summed.totals)]
    /\ UNCHANGED <<head, cfg, rows, memory, ledger, seen, pool, made, comment, inline, bounds>>

\* store.complete and budget.spent
Store(r) ==
    LET cost == TotalCostUsd(made[r].executions)
    IN  /\ Go(r, "store", "done")
        /\ rows' = [rows EXCEPT ![r] = Completed(@, made[r].summed.findings, made[r].digest, cost,
                                                 TotalTokens(made[r].executions), memory)]
        /\ ledger' = Spent(ledger, cost, cfg[r].budget)
        /\ made' = [made EXCEPT ![r] = NoReport]
        /\ seen' = [seen EXCEPT ![r] = 0]
        /\ UNCHANGED <<head, cfg, memory, pool, githubVars, bounds>>

\* A call to GitHub fails for good: the catch block, and BullMQ's next attempt.
Fail(r) ==
    /\ faults < MaxFaults
    /\ faults' = faults + 1
    /\ step[r] \in {"gate", "comment", "check"}
    /\ step' = [step EXCEPT ![r] = "queued"]
    /\ rows' = [rows EXCEPT ![r].status = "failed"]
    /\ verdict' = [verdict EXCEPT ![r] = IF step[r] = "gate" THEN @ ELSE "failure"]
    /\ seen' = [seen EXCEPT ![r] = 0]
    /\ pool' = [pool EXCEPT ![r] = NoPool]
    /\ made' = [made EXCEPT ![r] = NoReport]
    /\ UNCHANGED <<head, cfg, memory, ledger, comment, inline, acts, budgetOps>>

-----------------------------------------------------------------------------
(* Reviewers and operators.                                                *)

\* applyAction() on some findings of a row.
Apply(r, S, state) ==
    /\ rows' = [rows EXCEPT ![r] = WithState(@, S, state)]
    /\ memory' = Remember(memory, rows[r], S, state)

\* POST /api/findings/:id, whatever the finding's state is.
FindingAction(r, i, state) ==
    /\ acts < MaxActs
    /\ acts' = acts + 1
    /\ Apply(r, {i}, state)
    /\ UNCHANGED <<head, cfg, ledger, workerVars, githubVars, faults, budgetOps>>

\* POST /api/reviews/:id/findings/bulk
BulkFindingAction(r, severities, state) ==
    /\ acts < MaxActs
    /\ acts' = acts + 1
    /\ Apply(r, BulkTargets(rows[r], severities, state), state)
    /\ UNCHANGED <<head, cfg, ledger, workerVars, githubVars, faults, budgetOps>>

Triage(r) ==
    \E state \in {"open", "dismissed"} :
        \/ \E i \in DOMAIN rows[r].findings : FindingAction(r, i, state)
        \/ \E severities \in {Severities, {Critical, High}} : BulkFindingAction(r, severities, state)

\* POST /api/budget/:installationId/reset
ResetBudget ==
    /\ budgetOps < MaxBudgetOps
    /\ budgetOps' = budgetOps + 1
    /\ ledger' = NoEntry
    /\ UNCHANGED <<head, cfg, rows, memory, workerVars, githubVars, faults, acts>>

\* PUT /api/budget/:installationId
SetBudget(limit) ==
    /\ budgetOps < MaxBudgetOps
    /\ budgetOps' = budgetOps + 1
    /\ ledger' = Spent(ledger, 0, limit)
    /\ UNCHANGED <<head, cfg, rows, memory, workerVars, githubVars, faults, acts>>

\* Nothing is left to do.
Quiet ==
    /\ head = Pushes /\ \A r \in Reviews : step[r] = "done"
    /\ UNCHANGED vars

Next ==
    \/ Push
    \/ \E r \in Reviews :
         \/ Begin(r) \/ Block(r) \/ Start(r) \/ Answer(r) \/ Publish(r) \/ PostComment(r)
         \/ PostInline(r) \/ FinishCheck(r) \/ Store(r) \/ Fail(r) \/ Triage(r)
    \/ ResetBudget
    \/ \E limit \in Limits : SetBudget(limit)
    \/ Quiet

Spec == Init /\ [][Next]_vars

-----------------------------------------------------------------------------
(* Properties.                                                             *)

Steps == {"new", "queued", "gate", "agents", "comment", "inline", "check", "store", "done"}
Verdicts == {"none", "success", "neutral", "action_required", "failure"}

\* Every variable has its type; a severity stays on the scale through rules,
\* calibration and merging, in what is about to be posted and in the store.
TypeOK ==
    /\ head \in 0 .. Pushes
    /\ step \in [Reviews -> Steps]
    /\ seen \in [Reviews -> 0 .. head]
    /\ verdict \in [Reviews -> Verdicts]
    /\ ledger \in [known : BOOLEAN, spent : Nat, limit : Nat]
    /\ comment.review \in 0 .. head /\ comment.kind \in {"none", "blocked", "report"}
    /\ \A r \in Reviews :
         /\ rows[r].status \in {"absent", "queued", "running", "completed", "failed"}
         /\ \A f \in ToSet(rows[r].findings) \cup ToSet(made[r].summed.findings) :
              f.severity \in Severities
         /\ \A i \in DOMAIN rows[r].findings : rows[r].findings[i].state \in {"open", "dismissed"}
    /\ \A p \in memory : p.severity \in Severities
    /\ faults \in 0 .. MaxFaults /\ acts \in 0 .. MaxActs /\ budgetOps \in 0 .. MaxBudgetOps

\* What a task can leave.
OwnResults(task) == {Execution(task, reply) : reply \in Replies(task.agent, task.chunk)}

\* The pool never runs more agents than it may and leaves none idle while tasks
\* remain; a task is running, or done, exactly when the cursor has passed it,
\* and a result that is there is one that its own task can have, in whatever
\* order the agents came back (runWithConcurrency).
PoolSound ==
    \A r \in {q \in Reviews : step[q] = "agents"} :
        LET tasks == TasksOf(Diff[seen[r]], cfg[r])
            results == pool[r].results
        IN  /\ DOMAIN results = DOMAIN tasks
            /\ Cardinality(pool[r].busy) <= Concurrency
            /\ pool[r].cursor < Len(tasks) => Cardinality(pool[r].busy) = Concurrency
            /\ \A i \in DOMAIN tasks :
                 IF i > pool[r].cursor \/ i \in pool[r].busy
                 THEN results[i] = NotYet
                 ELSE results[i] \in OwnResults(tasks[i])

\* No finding is lost between the agents and the comment, and none between the
\* store and the SARIF export, without a reason of Accounted: merging, dedup,
\* floor, threshold, cap and suppression hide a finding only behind a stronger
\* one (similarity.ts, aggregate.ts, suppress.ts; routes/reviews.ts).
NothingLost ==
    \A r \in Reviews :
        /\ step[r] = "comment" =>
             Accounted(Competing(made[r].executions, cfg[r]), made[r].summed.findings,
                       made[r].suppressed, cfg[r].floor, cfg[r].threshold, cfg[r].maxPerFile)
        /\ Accounted(OpenOnes(rows[r].findings), SarifResults(rows[r].findings), <<>>,
                     0, Nit, ExportCap)

\* The shapes `clawreview stats' can be asked for.
StatsLines(floor) ==
    LET Line(format, cut, shape) ==
            [by |-> "agent", format |-> format, floor |-> floor, threshold |-> Nit, failOn |-> {High},
             top |-> [file |-> cut, agent |-> cut, category |-> {}], filterSummary |-> shape # "plain",
             header |-> shape \in {"header", "stream", "short"},
             jsonl |-> shape \in {"stream", "short"}, noFooter |-> shape = "short"]
    IN  {Line("text", {}, "plain"), Line("text", {1}, "summary"), Line("json", {1}, "header"),
         Line("json", {}, "stream"), Line("json", {}, "short")}

\* Whatever its shape, stats tells the same counts and ends with the same exit code,
\* its header leaves no finding out, and its totals add up to what it shows.
OneSummary(report, floor) ==
    LET full == [by |-> "severity", format |-> "json", floor |-> floor, threshold |-> Nit,
                 failOn |-> {High}, top |-> [file |-> {}, agent |-> {}, category |-> {}],
                 filterSummary |-> TRUE, header |-> TRUE, jsonl |-> FALSE, noFooter |-> FALSE]
        whole == RunStats(report, full)
        header == whole.json[1].header
        document == whole.json[1].document[1]
    IN  /\ header[1].showing + header[1].droppedTotal = Len(report.findings)
        /\ header[1].showing = Total([s \in 1 .. Nit + 1 |-> document.totals[s - 1]])
        /\ \A line \in StatsLines(floor) :
            LET ran == RunStats(report, line)
            IN  /\ ran.exit = whole.exit
                /\ \A i \in DOMAIN ran.text :
                      /\ ran.text[i].header \in {<<>>, header}
                      /\ ran.text[i].severity = document.totals
                      /\ ran.text[i].agent.rows <= Cardinality(DOMAIN document.counts.byAgent)
                /\ \A i \in DOMAIN ran.json :
                      /\ ran.json[i].header = header
                      /\ \A b \in DOMAIN ran.json[i].buckets :
                            LET bucket == ran.json[i].buckets[b]
                            IN  bucket.count = document.totals[bucket.severity]
                      /\ \A d \in DOMAIN ran.json[i].footer :
                            \A k \in {"byAgent", "byCategory", "byFile"} :
                                ran.json[i].footer[d][k] = document.counts[k]

\* Of those who wrote the lines git knows, each is charged with the findings on
\* theirs and nobody with another's, `clawreview authors' drops none, and `explain'
\* finds each finding by its fingerprint unless the report has another with the same.
OneAddress(report, files) ==
    LET paths == {f.path : f \in ToSet(files)}
        lines == UNION {{p} \X CommentableLines(files, p) : p \in paths}
        blame == [at \in lines |-> 1 + (at[2] % 2)]
        breakdown == AuthorBreakdown(report.findings, blame)
        authors == breakdown.authors
        charged == UNION {ToSet(authors[a].findings) : a \in DOMAIN authors}
        list == RunAuthors(report, blame, 1)
    IN  /\ charged \cup ToSet(breakdown.unknown) = ToSet(report.findings)
        /\ Len(breakdown.unknown) + Total([a \in 1 .. 2 |-> IF a \in DOMAIN authors THEN authors[a].total ELSE 0])
              = Len(report.findings)
        /\ list.rows + list.more = Cardinality(DOMAIN authors)
        /\ \A a \in DOMAIN authors :
              Conclusion(authors[a].bySeverity) = "failure" <=> authors[a].worst = Critical
        /\ \A f \in ToSet(report.findings) :
              LET answer == RunExplain(report, {Fingerprint(f)})
              IN  \/ answer.shown = <<f>>
                  \/ /\ answer.candidates > 1
                     /\ Cardinality(DOMAIN IndexByFingerprint(report.findings)) < Len(report.findings)

\* A local run tells of one report in all its formats: SARIF, JUnit, GitLab and
\* reviewdog see the same findings as serious, every SARIF result has its rule, and
\* `clawreview stats' fails on the JSON exactly when the run itself does and gives
\* one account of it, with the totals of the report and without.
OneReport(local) ==
    LET sarif == SarifLog(local.findings)
        gitlab == GitlabIssues(local.findings)
        rdjsonl == RdjsonlDiagnostics(local.findings)
        serious == {i \in DOMAIN sarif.results : sarif.results[i].level = "error"}
    IN  /\ serious = {i \in DOMAIN gitlab : gitlab[i].severity \in {"blocker", "critical"}}
        /\ serious = {i \in DOMAIN rdjsonl : rdjsonl[i].severity = "ERROR"}
        /\ Cardinality(serious) = JUnit(local.findings).failures
        /\ serious = {} <=> ExitCode(local.totals, Nit + 1) = 0
        /\ \A i \in DOMAIN gitlab :
              /\ sarif.rules[sarif.results[i].rule].id = gitlab[i].check
              /\ sarif.results[i].print = rdjsonl[i].print
        /\ \A failOn \in Severities :
              StatsExit(StatsTotals(local, FindingDigest(local.findings, 0, Nit)), {failOn})
                  = ExitCode(local.totals, failOn)
        /\ OneSummary(local, 0)
        /\ OneSummary([local EXCEPT !.totals = <<>>], 70)

\* `clawreview diff-stats' tells the sizes by which the review selects files: what
\* is skipped as too long has more changed lines there than the limit, and what is
\* reviewed has not.
SizesAgree(files, c) ==
    LET sizes == DiffStats(files)
        reviewed == ToSet(Reviewable(files, c.ignore, c.limits))
    IN  /\ \A i \in DOMAIN files :
              LET changed == sizes.files[i].added + sizes.files[i].removed
              IN  /\ SkipReason(files[i], c.limits) = "oversize-lines" => changed > c.limits.maxLines
                  /\ files[i] \in reviewed => changed \in 0 .. c.limits.maxLines
        /\ sizes.totals.added + sizes.totals.removed = Total([i \in DOMAIN files |-> ChangedLines(files[i])])

\* A local run with the same answers shows the findings and counts that are about
\* to be posted (worker.ts says so of the CLI), and all its outputs agree.
LocalAgrees(r) ==
    LET local == LocalReport(pool[r].results, Diff[seen[r]], cfg[r])
    IN  /\ local.findings = made[r].summed.findings
        /\ local.totals = made[r].summed.totals
        /\ OneReport(local)
        /\ OneAddress(local, Diff[seen[r]])
        /\ SizesAgree(Diff[seen[r]], cfg[r])

\* The comment on the pull request tells of the findings that are stored.
CommentTells(r) ==
    LET fs == rows[r].findings
        digest == rows[r].digest
        body == comment.body
    IN  comment.review = r =>
          /\ body.totals = Totals(fs)
          /\ body.byCategory = digest.byCategory
          /\ body.byAgent = digest.byAgent
          /\ body.byTag = digest.byTag
          /\ \A p \in {f.file : f \in ToSet(fs)} \cup DOMAIN body.files :
               LET stored == Selected(fs, {i \in DOMAIN fs : fs[i].file = p})
               IN  /\ Len(stored) = Len(body.files[p])
                   /\ \A i \in DOMAIN stored : SameFinding(body.files[p][i], stored[i])

\* So do the verdict of the check run and the exit code of the CLI.
VerdictTells(r) ==
    LET fs == rows[r].findings
    IN  /\ verdict[r] = Conclusion(Totals(fs))
        /\ verdict[r] \in {"failure", "action_required"} <=> ExitCode(Totals(fs), Nit + 1) # 0

\* A finding that comes back dismissed is one that the CLI's baseline knows from
\* another review.
KnownElsewhere(r) ==
    LET fs == rows[r].findings
    IN  \A f \in ToSet(fs) : f.auto =>
          \E q \in Reviews \ {r} : \E g \in BaselineDelta(fs, rows[q].findings).unchanged :
             Fingerprint(g) = Fingerprint(f)

\* An inline comment is of a finding that is stored, unless an attempt failed after
\* it had submitted its own.
InlineTells(r) ==
    LET fs == rows[r].findings
    IN  faults = 0 =>
          \A b \in DOMAIN inline[r] : \A i \in DOMAIN inline[r][b].comments :
             \E j \in DOMAIN fs : SameFinding(fs[j], inline[r][b].comments[i])

\* The reads of the API tell of the same findings: digest, list, Markdown, JUnit, CSV.
ReadsTell(r) ==
    LET fs == rows[r].findings
        entry == ListEntry(rows[r])
        report == ReportTotals(fs)
    IN  /\ ~HasDrift(DigestDrift(rows[r].digest, FindingDigest(fs, 0, Nit)))
        /\ FilterReport(fs, cfg[r].floor, cfg[r].threshold).droppedTotal = 0
        /\ entry.totalFindings = report.open + report.dismissed
        /\ entry.openFindings = JUnitCounts(fs).tests
        /\ entry.openFindings = Len(CsvRows(fs, FALSE))
        /\ JUnitCounts(fs).failures = report.totals[Critical] + report.totals[High]

\* The statistics of the week add up to the entries of the list.
StatsAddUp ==
    /\ WeeklyStats(rows).totalFindings = Total([r \in Reviews |-> ListEntry(rows[r]).totalFindings])
    /\ WeeklyStats(rows).openFindings = Total([r \in Reviews |-> ListEntry(rows[r]).openFindings])

\* Every place that tells of a review tells the same: a local run beside the one
\* that is about to be posted; the comment, the verdict, the inline comments and the
\* reads of the API once it is completed, whatever reviewers dismissed since.
PostedAgrees ==
    /\ \A r \in {q \in Reviews : step[q] = "comment"} : LocalAgrees(r)
    /\ \A r \in {q \in Reviews : rows[q].status = "completed"} :
          CommentTells(r) /\ VerdictTells(r) /\ KnownElsewhere(r) /\ InlineTells(r) /\ ReadsTell(r)
    /\ StatsAddUp

\* Wherever the fingerprint p occurs in the store, it is in this state.
Everywhere(p, state) ==
    /\ \E q \in Reviews : \E g \in ToSet(rows[q].findings) : Fingerprint(g) = p
    /\ \A q \in Reviews : \A g \in ToSet(rows[q].findings) : Fingerprint(g) = p => g.state = state

\* What reviewers decided on a pull request holds for the next review: when a
\* review is completed, a finding that is dismissed wherever it was seen before
\* comes back dismissed, and one that is open wherever it was seen comes back
\* open (dismissedByPr in review-store.ts).
DismissalsFollow ==
    [][\A r \in Reviews :
          rows[r].status # "completed" /\ rows'[r].status = "completed" =>
            \A f \in ToSet(rows'[r].findings) : \A state \in {"open", "dismissed"} :
                Everywhere(Fingerprint(f), state) => f.state = state]_vars

\* Inline comments stand on lines of the diff that was reviewed, and that is
\* the diff of the commit they are submitted for unless a later push came
\* between (buildInlineComments; createReview in client.ts asks for the former).
AnchoredUnlessMoved ==
    \A r \in Reviews : \A b \in DOMAIN inline[r] :
        LET batch == inline[r][b]
        IN  /\ batch.of = r \/ batch.of \in r + 1 .. head
            /\ \A i \in DOMAIN batch.comments :
                 batch.comments[i].line
                    \in CommentableLines(Diff[batch.of], batch.comments[i].file)
=============================================================================
