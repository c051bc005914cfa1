# clawreview: TLA+ models and proofs

clawreview reviews GitHub pull requests: a webhook becomes a row in a review
store and a job in a queue, a worker runs agents over the diff, passes their
findings through an aggregator and writes the result back to the pull request,
where reviewers dismiss some of it before the next push. Operators page through
what the server keeps, and a CLI gates builds on it. This directory models the
part of the program where steps of several actors meet, and the passes whose
order decides what a reviewer sees. Paths below are relative to the repository.

## 1. Inventory

| component | state | operations | meets |
|---|---|---|---|
| in-memory queue (`packages/queue/src/in-memory.ts`) | pending list, one shared timer, handler table, counter and list of running jobs, failure ring, closed flag | `enqueue`, `process`, timer `tick`, a handler settling, `close` | callers of `enqueue`, handlers |
| BullMQ adapter (`bullmq.ts`) | none of its own; jobs, attempts, job ids in Redis | `enqueue` (3 attempts, back-off, retention), `process` (4 at a time) | all server replicas |
| worker (`apps/server/src/worker.ts`) | locals of one attempt: check-run id, comment found, GitHub client | one handler of about twelve awaits, with a catch block | queue, GitHub, LLM pipeline, review store, budget, circuit breaker, notifier |
| GitHub client (`packages/github/src/client.ts`) | none | `upsertReviewComment` (list, then create or update), `createReview`, `createCheckRun`, `updateCheckRun`, `fetchPrDiff`; each call inside `withRetry` | worker |
| webhook route, replay, re-run (`routes/webhooks.ts`, `webhook-replay.ts`, `rerun.ts`) | delivery cache, webhook store | deliver, replay, re-run; list with a cursor, statistics | GitHub, operators, queue, review store, breaker |
| circuit breaker (`services/repo-health.ts`) | per repository: failure streak, pause, manual flag | success, failure, pause, resume, lazy expiry | webhook route, worker, operators |
| review store (`services/review-store.ts`) | rows by id, row counter, finding index, dismissals per pull request | start, markRunning, complete, fail, dismiss, reopen, list with a cursor, reads | worker, routes |
| budget guard (`budget.ts`) | per installation: month, spent, limit | wouldExceed, spent, reset | worker, budget routes |
| agent pipeline (`packages/agents`) | one cursor over tasks, results by index | fan-out over chunks and agents, merge | LLM providers |
| LLM access (`packages/llm`) | token bucket | acquire, refill, `withRetry`, `chatJson` | agents, GitHub client |
| aggregator (`packages/aggregator`) | none | rules, calibration, similarity merge, dedupe, caps, suppression, digests, report formats | worker, routes, CLI |
| API rate limits (`plugins/rate-limit*.ts`) | sliding windows, in memory or in Redis | check and record, sweep | every API request |
| CLI commands (`apps/cli/src/commands`) | locals of one command: last reply, what the hooks were told, exit code | run, review drift and filter-report (once, compared, in a loop), stats, presets | server, files, git, operator's hooks |
| presets (`packages/types/src/presets.ts`, `apps/cli/src/config.ts`) | none; directories in the working tree and at refs | resolve, merge, compare | CLI, configuration |
| data requests (`packages/db`, `routes/gdpr.ts`, `routes/audit.ts`) | audit log, users | audit, export, erasure in steps | routes |
| telemetry (`packages/telemetry`) | counters | `record*` | worker, routes |
| dashboard (`apps/dashboard`) | URL, pages as last rendered, palette, toasts with timers | server actions, navigation, key commands | server, Next.js |
| API authentication, notifier, health routes, UI kit, infra | none | | |

What is hard here: the queue's single timer shared by all jobs; handlers that
interleave at every `await`; GitHub calls that fail after they took effect; a
job that outlives the memory of the process that knows its review; marks that
are set before the work they stand for is done; ids that one component reuses
and another remembers; counters and caches at their limit; a dozen passes over
findings, each of which may lose one or disagree with a count taken before it;
dismissals that must follow a finding into reviews that are already under way; a
cursor into a list that changes between two pages; a page that shows what was so
when it was rendered; an undo that comes after somebody else's decision; exit
codes that builds trust.
`PROJECT.json` lists these hazards one by one, each at its line and with the
properties that cover it.

What makes each component correct: a queue starts every job it accepted, once
per attempt and not early; the worker leaves one comment, one finished check
run and a truthful record, and spends a bounded amount; a delivery is reviewed
once and not lost; a pause rests on a streak and ends; a finding an agent made is
shown, or hidden for a reason that can be named, and every place that reports a
review reports the same; a dismissal survives to the next review; the pool runs
every task once; a walk through a list misses and repeats no more than the
changes beside it explain; all reads of a review agree with each other and with
the counters; a gate opens and closes on what was read; a toast, a badge and a
link tell what is so.

## 2. Modules

| module | models | role |
|---|---|---|
| `QueueAdapter` | `adapter.ts` | abstract specification: accepted jobs, attempts, closing |
| `InMemoryQueue` | `in-memory.ts` | refines `QueueAdapter` with one attempt per job |
| `ReviewWorker` | `worker.ts`, `client.ts`, `retry.ts`, BullMQ | the handler against GitHub and crashes; its queue refines `QueueAdapter` |
| `RepoHealth` | `repo-health.ts` | one entry and what every method makes of it |
| `WebhookIngress` | webhook, replay and re-run routes, both bounded maps, rows and job ids | composes `RepoHealth` with the routes and the jobs |
| `RateLimit` | `rate-limit.ts`, `rate-limit-redis.ts` | both hooks of an API request, buckets in the process and in Redis |
| `Ordering` | `Array.prototype.sort`, `filter` | operators: sorting and filtering, in a form that can be reasoned about |
| `DiffLines` | `packages/diff` | operators: lines of hunks, ignore rules, selection, chunks |
| `Aggregator` | `aggregate.ts`, `similarity.ts`, `severity-rules.ts`, `calibrate.ts`, `suppress.ts` | operators: every pass over the findings |
| `Report` | `digest.ts`, `hotspots.ts`, `inline.ts`, `fingerprint.ts`, `check.ts`, exports, `run.ts` | operators: what is computed from the findings that are left |
| `Formats` | `comment.ts`, `render.ts`, `sarif.ts`, `gitlab.ts`, `rdjsonl.ts`, `stats.ts`, `explain.ts`, `authors.ts`, `diff-stats.ts` | operators: what each output says of them |
| `AgentPool` | `pipeline.ts`, the agents | a pool as a record, and its steps |
| `BudgetGuard` | `budget.ts`, the cost preflight | an installation's entry, and what every method makes of it |
| `ReviewStore` | `review-store.ts` | rows with findings, the memory of dismissals |
| `PullRequest` | `worker.ts` from push to record, finding and budget routes | composes the seven from `DiffLines` on |
| `DeliveryListing` | `webhook-store.ts`, list and statistics of `webhook-replay.ts` | a reader's walk beside captures and evictions |
| `ReviewListing` | `list` of `review-store.ts` | a reader's walk beside reviews that change |
| `ReviewReads` | reads of `routes/reviews.ts`, `digest.ts`, `metrics.ts` | one review's reads beside its runs and its triage |
| `ReviewCommands` | `commands/review.ts` | the CLI's drift and filter-report commands with hooks and signals |
| `PresetCommands` | `commands/presets.ts`, `presets.ts`, `config.ts` | presets that extend each other, and the commands that compare them |
| `TriageDesk` | the dashboard's findings page, toasts, server actions | one operator beside colleagues and failing calls |
| `SlaBoard`, `ReviewBrowser` | `sla.ts`, list, palette, navigation, overview, SLA page | one operator who browses while reviews go on |
| `ApiClients` | | puts the seven clients above into one specification |
| `MC*` | | instances for TLC; claims of the docs that the code does not keep |
| `InMemoryQueue_proofs`, `ReviewWorker_proofs`, `WebhookIngress_proofs`, `RateLimit_proofs`, `Findings_proofs`, `PullRequest_proofs`, `Dashboard_proofs`, `Clients_proofs` | | theorems |

### InMemoryQueue

`pending`, `handlers`, `closed`, `inflight`, `inflightJobs`, `failures` are the
fields of the class; `timer` is what is left until the armed timer is due and
`wait[j]` what is left of a job's delay; `settled` is history, and so is `behind`,
the jobs that arrived while a timer was armed already. `Enqueue`,
`Process` and `Close` are the methods, `Tick` the timer callback with the
re-arming, `Resolve` and `Reject` the `catch`/`finally` chain of a handler, and
`Elapse` the clock. A timer that is due may fire late. A handler is taken to call
no queue method before its first `await`: the one handler in the program awaits
`markRunning` first.

### ReviewWorker

All jobs are for one pull request. `pc[j]` is the await the attempt of job `j`
stands at; each action is the code from one await to the next, in the order of
the handler: token, config and budget gate (`Gate`), in-progress check run
(`StartCheck`), agents (`Pipeline`), the two calls of `upsertReviewComment`
(`List`, `Post`), the inline review (`PostInline`), the check run's verdict
(`FinishCheck`, `Recreate`), the record (`Store`), the catch block (`Cleanup`,
`GiveUp`). `Answer` and `Fault` are `withRetry` around one call; with
`LostReplies` a failed call may have taken effect. `comments`, `checks` and
`inline` are GitHub's side (`lost` counts the comments written by a call that
then failed), `rec[r]` the store of replica `r`, `queue`,
`failures` and `stalls` BullMQ's. GitHub lists the oldest comments first and the
client asks for one page of `PageSize` (100): `Chat` is somebody else's comment
before the first of ours, and with a page full of those `List` does not find ours.
A request is recorded in the store of the replica that served it (`Submit`), and
any replica may run the job; `began[j]` (history) are those that did. A crash of a
replica empties its store and leaves its attempts to `Stall`. The server has its
GitHub App credentials.

### WebhookIngress and RepoHealth

`seen` and `stored` are the two bounded maps (delivery marks, payloads for
replay) in insertion order; `records` are the rows, whose position is the number
in their id; `jobs[k]` is what BullMQ keeps under the id `k`, one id per head and
one per manual re-run. A dispatch (`Deliver`, `Replay`, `Rerun`) runs up to
`store.start`, and `Enqueue` or `EnqueueFails` is what the queue answers. The
worker's attempt is reduced to `Begin`, `Succeed`, `Skip` (over budget), `Fail`;
`ReviewWorker` has its inside. `health` is one `RepoHealth` entry. `Restart`
empties what is in memory, the marks included; jobs stay. The histories
`reviews[d]` and `lost[d]` count the reviews that the sendings of a delivery have
opened and how often its own mark was evicted or forgotten; no restart touches
them. A job writes to a row only if number and
head agree, as its review id does. The streak is counted up to the threshold,
which is all the code compares it with.

### RateLimit

All requests carry one token; buckets of different keys share nothing. A bucket
(`poll[r]`, `local[r]`, `shared`) is the set of requests whose hits it holds, and
the time of a hit is a function of the request: `asked` in the polling class,
`settled` in the process, `stamp` (the replica's own `Date.now()`) in Redis.
`Arrive` is both `onRequest` hooks up to the call to Redis; `Answer` is the script
with its answer, `LoseReply` a script whose reply is lost and which ioredis sends
again, `Fallback` the `catch` of the hook. `Sweep`, `SweepPoll` are the interval
timers, which may fire at any moment, `Expire` is the PEXPIRE of the script,
and `attached` holds the replicas whose ping succeeded at boot. A forced probe
(`?force=1`) is an "other" request: the polling class does not count it.
A restart, which empties the buckets of a process, is not modelled, nor are
clocks that jump. Members of the sorted set are unique (time, counter and a random
number in the code).

### PullRequest and the modules it composes

One pull request. `head` counts the pushes and `Push` starts a review for each; `rows` and `memory` are the
review store (its rows and `dismissedByPr`), `ledger` the installation's budget
entry, `comment`, `inline` and `verdict` GitHub's side. Per review, `cfg` is its
configuration, `step` the place of its handler, `seen` the head whose diff it
fetched, `pool` its agents, `made` what its passes produced.

| action | code |
|---|---|
| `Push` | the webhook route's `store.start` and the job |
| `Begin`, `Block` | `markRunning`, configuration and diff; the budget gate and the preflight, which may end the review as skipped |
| `Start`, `Answer` | a worker of the pool takes the next task; a model answers it |
| `Publish` | every pass from the merge of executions to the digest, in the order of `worker.ts:212-371` |
| `PostComment`, `PostInline`, `FinishCheck` | the calls to GitHub |
| `Store` | `store.complete`, `recordSpend`, dismissals carried over |
| `Fail` | the catch block; BullMQ starts the handler again |
| `FindingAction`, `BulkFindingAction` | `routes/reviews.ts`: dismiss, reopen, in bulk |
| `ResetBudget`, `SetBudget` | the budget routes; a changed `budget_usd_monthly` |

The passes are operators: a finding is a record of agent, category, severity
(0 critical to 4 nit), words of title and rationale, file, lines, confidence in
percent and tags; files are numbers. A pass keeps its order of comparison and its
ties. A chunk is its lines with the numbers the secret scan gives them, which
differ from the diff's own after a gap (`DiffLines`). A model's reply is a
sequence of findings, JSON of another shape, or an exception. A call here fails
as a whole, and the three attempts BullMQ makes are never used up; `ReviewWorker`
has lost replies, crashes and the last attempt.

### The readers: DeliveryListing, ReviewListing, ReviewReads

`DeliveryListing`: `stamp[d]` is when a delivery was last captured, so the order
of the stamps is the order of the store's Map; `walk`, `query`, `cursor` are the
reader's. `Put` captures (and evicts), `Forget` is a restart, `Open` and `Page`
are the reader's requests; the statistics are operators on the same state.
`ReviewListing`: `status` and `turn` of every row, the reader's `want` and
`offset`; a page is cut from the list as it is when it is asked for. The store
guards no change of status, so a row may leave and enter any list: a second run of
a stalled job sets a completed review running, and ends it either way.
`ReviewReads`: one row (`record`, `summary`), the runs before (`working`) and
after (`posting`) their passes, the dismissals remembered (`prints`), the counters
the last step moved (`counted`) and the last `reply`. `BeginRun`, `Summarise`, `CompleteRun`, `FailRun` are the worker's
writes, `ActOnFindings` the reviewers', `ReadReview` any GET of the routes with
its query, and `Look` the reader who compares. Two runs may overlap, which is what
a stalled job gives.

### The commands: ReviewCommands, PresetCommands

`ReviewCommands`: `line` is the command line, `at` the place in its loop, `code`,
`polls`, `stopped`, `prev`, `fired` the locals of the loop, `due` the hook that
runs; `first`, `seen` and `told` are history. `Launch` is everything up to the first request, `Read` one
reply of the server or the file, `Write` the output file, `Hook` one hook and how
it ended, `Wake` the end of a pause, `Interrupt` SIGINT. `PresetCommands`:
`dirs` are the preset directories of the working tree and of a ref
(`EditPresets` before the command starts; nobody edits them while it runs),
`StartPresets` checks the command line, `ReadPresets` resolves, `WritePresets`
and `RunHook` write and tell, `KillPresets` is a signal.

### The dashboard: TriageDesk, SlaBoard, ReviewBrowser

`TriageDesk`: `server` is what the API holds, `page` what was last rendered,
`view` the filter in the URL (a missing severity or state lets nothing through,
see `FindingsPage`; a missing agent all), `toasts` and `timers` the toaster, `sent` the server
actions under way, and `issued`, `calls`, `answered`, `taken`, `outdated` history
and bounds. `TriageRow`, `TriageAll` are clicks and keys, `UndoToast`, `UndoAll`,
`Expire`, `ClearToasts`, `CopyLink` the toasts', `Succeed` and `Fall` the two ways
a server action ends (a failed one may have taken effect, and makes no toast when its
message is empty), `Visit` a navigation
and `Colleague` somebody else. `ReviewBrowser`: `fleet` are the reviews, `url`,
`screen`, `recents`, `palette`, `moved`, `led` the browser's; the actions are the
clicks, keys and navigations of list, chips, palette and navigation bar. Left
out: the 900 ms window of key chords, the focus of chips, the help panel.
`SlaBoard` is the report of the server and the page that shows it; its ages are
whole hours, so rounding has no effect, and the form for its policy is not
modelled because the page throws before it is shown (see `SlaPage`). Next.js is
external: server actions are sent one at a time, and the answer of one that
called `revalidatePath` renders the current page.

`ApiClients` lets a behaviour follow one of the seven clients, which share
nothing; `client` says which.

## 3. Runs

| run | instance | shows |
|---|---|---|
| `InMemoryQueue` | 3 jobs, 2 names, delays 0 and 2, floor 1, ring 2 | no lost wake-up, no sleep past the jobs a timer was armed for, exact counter and bounded ring across `close`, every startable job starts, refinement |
| `ReviewWorkerFaults` | 2 jobs, 2 replicas of one slot, 1 failed call with 2 tries, 1 crash, a page of 1 comment, 1 comment of others, inline comments | comments at most one per worker slot and lost reply while ours are on the page, at most one per attempt and lost reply off it; inline reviews of a job at most one per run of the pipeline and failed call; what the records of both replicas say of a settled job |
| `ReviewWorkerCrash` | 2 jobs, 1 crash, 1 stall, 2 attempts | jobs settle, pay a bounded number of runs; stranded check runs are explained by crashes; completed means posted; BullMQ as used refines `QueueAdapter` |
| `WebhookIngress` | 2 deliveries (one filtered), 1 re-run, 1 replay, 1 restart, 1 failed enqueue, cache of 1, threshold 2 | one review per delivery, and one more for each time its mark was evicted or forgotten in the restart; swallowed deliveries are explained by queue failures; rows wait for jobs that exist; pauses earned and never extended |
| `RateLimit` | 3 requests, 2 replicas one of which is ahead by 1, budgets of 1 (and 2 for polls), window 4, calls of at most 1, 1 failed call, 8 units of time | no quota exceeded, in Redis or in a process; refusals have a cause; Retry-After is honest; no bucket outgrows its budget |
| `PullRequest` | 2 pushes, 3 configurations, 6 and 3 tasks, 2 at a time, 1 failed call, 2 requests of reviewers, 1 of operators | the pool is sound; no finding is lost without a reason; comment, check run, record, exports, local run and statistics report the same; inline comments stand on lines of the diff; dismissals follow |
| `ApiClients` | 4 deliveries in a store of 2, 3 queries; 3 reviews in pages of 1; a review with 3 outcomes run twice, 2 triage actions, 44 digest and 22 report queries; about 120 command lines; 42 preset requests over 8 directories in tree and ref; a desk with 2 findings, 3 views, 2 calls, 3 toasts of which 2 fit; a browser with 3 reviews, 4 routes, 7 typed queries, 3 clicks, 2 changes | walks are faithful, misses bounded, statistics agree with listings, reads agree, commands tell the truth, preset chains resolve, the dashboard shows what is so |
| `WebhookIngressReplay` | 1 replay of a failed job | **violated**: the queue ignores the replay |
| `PullRequestBudget` | 1 review, no fault | **violated**: every execution costs 0, so nothing is ever spent |
| `PullRequestLocal` | 1 review | **violated**: the text of `clawreview run` shows what a marker hides |
| `SlaPage` | 1 visit | **violated**: the SLA page throws on the server's answer |
| `FindingsPage` | 2 findings, 1 call, 1 toast | **violated**: the severity bar of a review leads to a findings page without findings |

The five violations are disagreements between the code and what the repository
says of it; `PROJECT.json` quotes the lines under `findings`. The bounded forms
(`CommentsBounded`, `StrandedBounded`, `SwallowedBounded`, `MissesBounded`) say
what the code does guarantee where an exact promise is not kept.

Why the bounds are enough. *Queue*: three jobs let one that has no handler, one
that is not due and one that can start be pending together, which is every case
the re-arming of the timer tells apart; delay 2 is above the floor of 1 and 0
below it; three rejections overflow a ring of two. *Worker*: two jobs in two slots,
of one replica or of two, give the race of the upsert, and with two replicas a job
may run where its record is not, or move there when it is retried. One failed call
is one that is made again, one that fails for good, or one inside the catch block
after a crash made the attempt fail. One comment of others fills the page of one. One
crash finds each attempt at each of its steps, and the next attempt, after the
stall, runs against an emptied store or on the other replica; failed calls and a
second failed attempt are in no run together, only in the theorems. *Ingress*: a cache of one mark is evicted by any second
delivery or replay; threshold 2 has a streak that is broken and one that is not.
*Rate limits*: with a budget of 1, three requests give one that is admitted, one
that is refused with advice and one that follows the advice; a polling budget of
2 is above it, as in the code, and has buckets of which one hit leaves and one
stays. Eight units are two windows, so hits leave the window and the key in Redis
expires; with skew 1 and delay 1 the stretch for which the shared quota is exact
is half the window; a second of two units makes rounding visible.
*Pull request*: two reviews are the fewest between which a dismissal can be carried
or arrive late and a comment be overwritten; the answers were chosen so that every
pass changes something (a rule bumps and drops, a severe but unsure finding is
merged into a sure one, a duplicate goes, a cap cuts, a marker hides, a secret
stands in the second hunk of a chunk, an agent throws and another garbles).
*Clients*: a store of two evicts with the third capture, and pages of one give a walk of
several requests with changes between; two runs of a review overlap; the command
lines contain every flag in every state its command looks at, one hook at a time
and together; the directories are one per way of extending; a limit of two toasts
is overflowed by the third. The bounds on faults, crashes, sends, requests and
clicks are guards of the actions they bound and appear as constants.

`ReviewWorkerFaults` uses symmetry over jobs and replicas and `RateLimit` over the requests
(no liveness is checked there). No configuration switches deadlock checking off:
the queue can always elapse, close again or take handlers, `Quiet` is the idle
worker, `WebhookIngress` always has its operator, `Idle` is the end of
`RateLimit`'s requests, and every client can always ask again.

Fairness. `InMemoryQueue`: time passes, Node runs a due timer, a handler settles
(its awaits are HTTP calls that end). Callers owe nothing: no fairness on
`Enqueue`, `Process`, `Close`. `ReviewWorker`: a running handler goes on, BullMQ
hands out waiting jobs and finds stalled ones; none on `Submit` or `Crash`.
`WebhookIngress`: time passes. `PullRequest` and the clients state none: a watch's
`fetch` and hooks have no timeout of their own, a reviewer need not answer, and
what must come to an end there is the worker's, which `ReviewWorkerCrash` covers.

Every property has a mutant in the module it is about: an operator beside the
original, under a comment that starts with `Mutant`, that changes the code the
way a plausible slip would. They are not part of any specification.

## 4. Proofs

`InMemoryQueue_proofs` (for all finite sets of jobs, all names, natural delays,
any positive floor and ring size; these are `JobsAssumption`,
`DelaysAssumption`, `RingAssumption`):

- `TypeCorrect`: `[]TypeOK`. The bounds of the counter need `QueueInv`, by which it
  is the number of running handlers.
- `JobsConserved`: `[]Conservation`, inductive with `TypeOK`: a job moves between
  `pending`, `running` and `settled`, each action guarding the place it takes
  the job from.
- `WakeupNotLost`: `[]NoLostWakeup`; needs `Conservation`, for `closed` makes
  `kick()` return without a timer and only an empty list makes that harmless.
- `SleepIsBounded`: `[]WokenInTime`: whenever the timer is armed, it is armed for the
  soonest of the jobs that are pending then, and time takes as much from the timer
  as from their delays; only a job that arrives behind it is exempt.
- `InflightIsExact`: `[]InflightExact`; the cardinality argument needs
  `Conservation` (the jobs started are not among the running) and that
  `running` is finite.
- `QueueImplementsAdapter`: every step of the queue is a step of `QueueAdapter`
  or a stutter under the mapping `PhaseOf`, `AttemptsOf`, `~closed`, using
  `TypeOK` and `Conservation`.

`ReviewWorker_proofs` (any finite jobs, replicas and slots, any numbers of
attempts, tries, faults, crashes and stalls):

- `TypeCorrect`, `RunsAreBounded`: `WorkerInv` is the types with, for every job, how
  its place in the handler, its place in BullMQ and its counters hang together
  (`Life`) and that its open check run is its own (`OwnCheck`).
- `CompletedMeansPosted`: `PostedInv` says what a handler that is past the comment,
  or past the verdict, has left on GitHub.
- `RecordsStayTrue`, for any replicas: what the record of a job says on each replica
  at each place of the job's life (`RecordOf`). A record stays queued where the
  request was served and no attempt began, which is why `began` is there.
- `CommentsAreBounded`: while ours are on the page, a comment is posted only by a
  handler that listed none, so those who may still post, the comments and the
  replies lost are weighed together (`CommentsInv`); off the page, each job's
  comments are weighed against its attempts; `SlotsInv` and `BusyFits` bound the handlers by an
  injection into replicas and slots. Inline reviews are weighed for each job
  against its runs and the failed calls (`InlineInv`).
- `StrandedAreBounded`: `FreshInv` and `DoomedInv` attribute every check run that
  nobody will finish to a failed call or a crash.
- `WorkerImplementsAdapter`: BullMQ, as used, refines `QueueAdapter`.

`WebhookIngress_proofs` (from `BreakerAssumption` and `IngressAssumption`): every
step of the ingress leaves the breaker's entry alone or applies one of the six
changes of `RepoHealth` (`StepChangesHealth`); those keep the invariant (an
automatic pause in force implies a full streak) and do not extend a pause.
`PausesAreEarned` and `PausesAreNotExtended` follow, for any traffic. `IngressInv`
carries the rest: the maps are without repetitions and within capacity
(`MapsInv`, with two lemmas on what `Put` does to a map), rows and jobs belong
to each other (`RowsInv`, `JobsInv`), the counters stay within their bounds
(`CountsInv`), and a delivery whose mark is in the cache has opened at most one
review more than its mark was lost, one without a mark none more (`MarkedInv`). From it
follow `IngressTyped`, `DeliveriesOpenOneReview`, `QueuedReviewsHaveJobs` and
`FewAreSwallowed`.

`RateLimit_proofs` (from `RateAssumption`: any finite set of requests, any
replicas, budgets, window, skews within `MaxSkew`, calls within `MaxDelay`, a
window longer than both together):

- `TypeCorrect`: `[]TypeOK`, with the sizes of the three kinds of bucket.
- `SharedQuota`: `[]SharedWindowBounded`. `SharedInv` says that an admitted hit is
  in the sorted set until even the fastest clock puts it out of the window, so the
  script that admits a request counted every hit of its stretch (`ScriptKeeps`);
  `WindowGrows` turns that into a cardinality. The set's expiry needs that no hit
  is younger than the last addition. It needs `Timely`, which relates the stamps
  and the open calls to the true time.
- `LocalQuota`: `[]LocalWindowBounded`, the same argument for the buckets of a
  process (`LocalInv`, `PollInv`) with its own clock, hence for whole windows.
- `RefusalsHaveCause`: `[]RefusalsJustified`, from the converse (`CauseInv`): a
  process's buckets hold only hits that the process let pass, so what a check
  finds full lies within the window that ends at the check.
- `AdviceHonest`: the action property `RetryHonest`. A `Retry-After` is rounded up,
  so it outlasts the oldest hit it was computed from (`AdviceOutlasts`); hence
  fewer hits than the budget survive the advice, and later steps add none to them
  (`AdviceInv`, `AdviceKept`). A refusal after it has run out thus finds a hit
  that came later. It is another request's, unless Redis recorded the request's own
  hit and the reply was lost. `OneActs` says that a step is of one request at most.

`Findings_proofs` is about operators, for any findings, and about no state; the three
modules below stand on it. It begins with what makes up for the library's induction
theorems, whose predicate is a parameter: a property of numbers is the set of those
that have it, and its least exception is refuted (`Least`). That gives ranks in a
strict order (`RanksNumber`, which is why a sort by counting predecessors is one), the
sizes of the classes of a set (`ClassesAddUp`), sums that do not depend on the order in
which they are taken (`SumEquals`), and the steps of a fold (`FoldExists`,
`FoldSteps`): a `FoldLeft` is the last of a sequence of values of which each is made
from the one before. Every fold of the passes is reasoned about through these steps.
Then, for the passes:

- Typing, pass by pass: severity rules (`BumpStaysOnScale`: a bump is clamped),
  calibration, merging, ranking, suppression.
- `MergeKeepsAll`: what similarityMerge holds at any time has, for every finding it
  has read, one of that finding's cluster that is not weaker (`StandsFor`,
  `NoneIsDropped`). The cluster is closed under the echoes that make the pass merge
  (`ClusterClosed`), so replacing a winner keeps the claim. dedupFindings steps the
  same way and shares the argument.
- `RankTells`: rankFindings is a permutation, sorted by a strict total order
  (`TurnsOrder`). `CapTells`: what the cap hides has as many before it in its file.
- `AggregateAccounts`, `SuppressionDivides`: hence what aggregate() returns, with what
  markers suppress, accounts for every finding that competed.
- What the outputs say is about counts: a sum over severities, files or agents is a
  `Total`, which is the last of its running sums (`TotalSteps`), adds up
  (`TotalOfSums`) and is the size of a set whose classes it sums (`CountsAddUp`).
  `ReadsTold` and `StatsTold` follow for what the store keeps.

`PullRequest_proofs` (any number of reviews, faults and requests; from
`InputsAssumption`: diffs are what the parser returns, agents, configuration and replies
have passed their schemas):

- `PublishedTells`: what the agents' executions become is typed (`TasksTyped` on), and
  what is published of it accounts for every finding that competed, in the SARIF export
  too, for the open ones.
- `OneReportTold` (the formats of a local run, with an index of SARIF rules and the exit
  codes), `AddressesTold` (explain, and the breakdown by author, which charges each
  finding once, `ChargedOnce`), `SizesTold` (diff-stats beside the limits of the
  review), `CommentTold`. That a suppressed finding is counted nowhere and that
  recomputing gives what a computation from scratch would (`DigestOf`) is in
  `PublishedTold`.
- `MemoryIsRight`, `DismissalsHold`: `RowsInv` (the shape of what is stored) and
  `MemoryAgrees` (a fingerprint is remembered as dismissed exactly as the rows
  show it) are inductive together, a `Store` that races a dismissal included.
- `PoolStaysSound`: `PoolInv`, the pool of workers over the tasks of a diff.
- `CommentsAreAnchored`: `StepsInv` (a job has fetched the head of its push or a later
  one), `MadeInv` (what a job is about to post accounts for what it collected) and
  `InlineInv`.
- `NoFindingIsLost`: `MadeInv` with `StockInv` (what is stored can be ranked).
- `TypesAreKept`: all of these with `ShownInv`.
- `PostedIsTold`: three invariants of the jobs, each inductive with those above, and
  facts about the outputs that hold for any findings. `ToldInv`: a review that is
  about to be posted was published from its own answers, and a completed row keeps
  the findings that the comment and the verdict told of, with their digest
  (`Keeps`, `Announced`); a dismissal changes what a finding's state is, not which
  it is (`Retold`). `BackedInv`: unless a call failed, an inline comment is of a
  finding that its review is about to store or has stored. `RecordInv`: what is
  remembered is stored somewhere, what comes back dismissed is stored elsewhere
  too; `MemoryAgrees` does not say so, for it is about fingerprints that are stored.

`Dashboard_proofs`:

- `DeskTellsTruth`, for any findings, views and toast limit, whatever colleagues do and
  however late and in whatever way calls end. `ToastsInv`: no toast stands without its
  timer, the newest message is the last toast until its timer fires or it is taken
  away, and the undo of a dismissal that was answered is on it. `SentInv`: a bulk
  action that was asked for on a page as the server has it is the next to be carried
  out, and changes no more rows than were confirmed. `PageAgrees` is inductive with
  them. Which file comes first, what a segment of the severity bar counts and what a
  link to one file or finding shows is so in any view (`LinksHold`), whatever was
  clicked before.
- `BrowserTellsTruth`, for any reviews, limits, policies and commands. Most of it holds
  of whatever is rendered: a list and a table can be read back from their addresses
  (`ListReadBack` and its like for the table), the report's totals, percentages and
  groups are those of one set of findings (`SlaHolds`, with `SumsOver` of
  `Findings_proofs`), the numbers at the palette's options are exact (`OptionsHold`),
  and Recent shows each of the newest reviews once (`RecentTells`). What has to be kept
  from click to click is `BrowserInv`: the palette's cursor is inside what it lists, and
  the link that was followed led where it said. `ReviewBrowserAssumption`: the palette
  looks at no more reviews than the list fetches, no status begins another, and
  windows and repositories are numbers.

`Clients_proofs`:

- `WalksAreFaithful` from `StoreInv` (stamps are distinct and no more than the
  capacity), `ReaderInv`, and `Ahead`/`Behind`: what the reader is owed lies behind
  the cursor, so it is older than the cursor's entry, and that entry is there or
  the walk has started over. `DeliveriesTyped` is on the way.
- `StatsAlwaysAgree`: events, repositories and buckets are classes of the counted
  deliveries, so their sizes add up (`ClassesAddUp`).
- `MissesAreBounded`: `PagingInv`; of the rows before the cursor, those that are owed
  and were not shown (`Passed`) are at most as many as left the list, since each
  that leaves pulls one row past the cursor. It asks nothing of the changes of status.
- `CommandsTellTruth` from `SightsInv` (what the loop keeps as previous is the last
  thing seen), `PollsInv`, `HeardInv` (hooks heard what was seen when it first was)
  and `GateHonest`, for watches of any length.
- `ChainsAlwaysResolve`, for any directories, built-in presets and requests.
  `resolveOne` recurses with a set of the presets above; the set grows inside the finite
  set of names, so the recursion ends and what it comes to exists (`ResolutionExists`).
  A directory that loads has no circle (`LoadedIsSound`): in one, a preset would come
  back to a preset above it. So its presets can be ranked, and rank by rank the merge
  says of each field what the last name that says something says (`ResolvedSays`,
  `ChainSays`); merging is last-wins on every field (`MergedSays`, `MergeAllSays`), and
  a delta is empty exactly when all words agree (`DeltaSays`). `PresetsInv` carries this
  through reading, writing and the hook. `PresetAssumption` has directories of finitely
  many files and chains that are lists of names: what a file system and a YAML list are.
- `ReadsAlwaysAgree`, for any findings, filters, queries and dismissals, with two runs of
  one job under way at once. A read takes the findings of now and sets them against a
  digest and a report that were stored with the last run, so `ReadsAgree` says nothing
  that could be kept from step to step: most answers are gone a step later. What is kept
  is `ReadsInv` (`ReadsKeepTrack`). `RowTold`: the digest and the report that are stored
  are of findings that the row still shows, whatever state reviewers have put them in
  since (`Holds`; counts do not look at the state, which is why a dismissal is no
  drift), and row and summary are replaced together. `PostingTold`: what a run has
  summarised and not stored yet is of its own findings, so a second run that overtakes
  it changes nothing about that. `RunsCounted`: no run ends that did not begin.
  From there each answer is a statement about findings: sums over a breakdown are the
  sizes of its classes (`SumOfIs`, `CountsOf`, `DigestSums`), the drift is what the
  query's own filters drop (`DriftTells`), a normalised filter gives the same digest
  when it is asked for again (`ThresholdNamed`), slimming and projecting only leave out
  (`SlimTells`, `BodyTells`), and each document lists the open findings once
  (`SectionsTell`). `ReviewReadsAssumption`: what a run returns has passed its own
  filters, the order of names has a place for each name, and a query's numbers are whole
  (confidences are counted in hundredths).
- `ClientsTyped`: the types of all seven clients side by side; those of the reads
  (`ReadsTypesKept`) come from `ReadsInv`.
- `DashboardTellsTruth` and `ClientsCanRely` put them beside the other clients: each
  behaves there as it does alone (`ClientsBehave`).

The operators that sort and filter are stated with `Ascending`, `Selected` and `Sorted` of
`Ordering` where a theorem needs them, since the provers know nothing of `SortSeq`
and `SelectSeq`.

Every invariant and every action property that a passing run checks is proved for all
values of the constants. Only model-checked, and out of the prover's reach, are
`EveryJobStarts` and `EveryJobSettles` (liveness under fairness).

## 5. Plan

Done: the queue with its refinement, the worker, the way in, the rate limits, the
composition from push to posted review with budget and dismissals, the readers,
the gating commands, the dashboard's findings and list pages, and their theorems.

What could follow:

1. The erasure of a person's data, once it can get past its first statement
   (section 7), against the audit rows that are written beside it.
2. The remaining pages of the dashboard (audit, webhooks, installations), and
   `lint-config`.
3. The in-memory queue without limit and the token bucket of `packages/llm`, whose
   waiters are woken in no order: both delay reviews, neither changes a result.

## 6. Not modelled

The layout, wording and escaping of all outputs; the text of a diff, of git's
blame output and of `.clawreview.yml`; schemas; prompts, language rules and the
patterns of secrets. GitHub App authentication and webhook signatures, API
tokens: lookups without state. The notifier: it reads a record and posts it.
Cost reports: sums over the review store. Counters that nothing reads, logs and
traces. Health, configuration and installation routes, which only read. Of the
CLI: `lint-config`, `agents`, `presets list`, `validate`. Of the dashboard: pages
that render what the API answers. GitHub, Redis, BullMQ, Node, React and Next.js
appear only through what the code uses of them, and their definitions are marked
external. Of other people's comments only those before the first of ours are in
`ReviewWorker`: later ones cannot push it off the first page. `BudgetGuard` has
one installation within one month.

## 7. Observations

What was noticed while the code was modelled, and is not a property of a run.

*Worker and store.* `createReview` posts a new review whenever it is called, so an attempt
that fails after it is followed by one that posts the inline comments again, though
README.md:9 has "a stable id so reruns don't duplicate comments"; `CommentsBounded`
says how often. Two jobs may leave two comments, though ADR 0001:18 has one;
`CommentsBounded` is what holds. After a restart the in-memory store has
forgotten the review: the attempt posts, and then fails (ADR 0004:17). The chart
ships two replicas (`infra/helm/clawreview/values.yaml:11`), each with a store of its
own: a job that the other replica runs leaves its record queued for good where the
request was served, and a review without a record cannot be completed. Only the
first 100 comments are listed (`client.ts:84`): on a pull request with 100 older
ones, every attempt posts another comment. `reviewsCompletedTotal` counts
attempts (`worker.ts:81`, `:616`), and so does a counter documented as firing
twice per completed review (`metrics.ts:725`). The configuration snapshot of ADR
0006 is not persisted. `getQueue` awaits between its test and its assignment
(`bullmq.ts:130`); the in-memory queue has no limit on concurrency.

*Budget.* Jobs check the budget before they run and record their cost after, so
concurrent jobs all pass the check (`budget.ts:32`), and `snapshot` (`:28`) answers with
the limit stored at the last spending. Neither has an effect while every cost is 0
(`SpendingCounted`).

*Webhooks.* `webhook-store.ts:243` has `nowMs` as the right edge of the newest bucket,
"exclusive"; the code counts a delivery captured at that very moment (`:586-587`), in
the listing as in the histogram, and `StatsAgree` compares the two as they are.
Row ids start from 1 again after a restart, while jobs survive it: a job may write its
outcome into the row of a later review of the same head.

*Findings.* The attribution "merged from" is lost when a later finding replaces
the winner (`similarity.ts:77`, against its lines 14-16). In the worker,
`filterReport.droppedTotal` is always 0, because what it would drop is gone. A
digest's drift does not see dismissals (`digest.ts:697`), while a read with filters
counts as stale. Fingerprints put ten lines into one region, so a full fingerprint may
be ambiguous to `explain`. A finding that ends before it starts can be
suppressed by a marker it does not cover (`suppress.ts:208`). The SARIF export
aggregates the open findings with the default cap per file (`routes/reviews.ts:545`),
whatever cap the repository has configured. A finding that a marker hides has used up
a place of the cap before, and a strong but uncertain finding may absorb a certain one
and then fall below the floor; `NothingLost` excuses both.

*Limits.* Polls count against the token's limit as well (`rate-limit.ts:151` against
`:375-377` and `server.ts:59-60`).

*CLI.* `stats --min-confidence 0.7 --fail-on high` is documented to gate on
confident findings only (`stats.ts:160-164`), but `computeTotals` (`:608`) takes the
totals of the report, which `run --format json` always writes, and no filter touches
them: gate and severity counts are about other findings than the breakdowns beside
them. `presets diff --since=` with an empty ref means HEAD although
`presets.ts:1147` says it is rejected; a misspelt ref reads as "no local
presets"; a local preset that names one parent twice loads, and `presets show`
exits with 2 on it. `--on-delta-once-per` is refused after the fetch and the
output, although `review.ts:3182-3186` says before. The caches of `once` are per
process. `?minConfidence=bogus` is echoed as `null`, which hides the typo the echo is
said to show (`routes/reviews.ts:168-172`, `:303`).

*Dashboard.* The findings page without a severity or without a state in its URL shows
nothing but a deep link's finding (`FindingsPage`): so does the plain page, and so do
its own links that drop an "all"; its form for the agent writes empty parameters, which
work. With a deep link and no severity the bulk bar sends `severities: [null]`, which the
server refuses (`routes/reviews.ts:625`); with a deep link and no state it asks about one
finding and acts on all that severity and agent let through. A bulk dismissal shows neither toast nor undo: the action reads
`updated`, the answer has `matched` and `changed` (`bulk-findings-bar.tsx:41`,
`findings/actions.ts:27`). "Go to list" with `status:fail` previews failed reviews
and pushes a parameter the page drops; after a chip, `status:failed ,` is no
continuation (`command-palette.tsx:606`, `:151`). The sections of the palette
reorder a fuzzy ranking, so arrow keys jump. The overview's running chip counts
queued reviews but links to running ones (`app/page.tsx:166-172`). `g r` with a
dismissed row in focus reopens it; `x` and `r` do not look at `pending`; `shift+u`
reports its undos before they are answered, and a fourth toast evicts one. A toast
without text is dropped (`toaster.tsx:138`), so a failed action whose error has an empty
message says nothing.
`sla-breaches-table.tsx:337` links to `#<findingId>`, the rows have
`finding-<id>`. The worst-decile mark can cover every row when many tie. The audit page
filters within the latest 50 rows.

*Database.* `schema.prisma` has `User.login` without `@unique`, and both data-request
routes look a user up with `findUnique({ where: { login } })`: Prisma refuses the
query, and export and erasure answer 503 whatever is stored (`packages/db/src/gdpr.ts`;
README.md:733-767 promises a receipt; the tests bring a Prisma of their own).
`AuditLog.installationId` refers to rows of `Installation`, which no code creates,
so every audit row that names an installation fails and the failure is logged and
dropped (`packages/db/src/audit.ts`, against README.md:461-491). Were both mended, an
audit row written between the erasure's `updateMany` and its `delete` would still
name the person erased, and a second attempt would find nobody to erase.
