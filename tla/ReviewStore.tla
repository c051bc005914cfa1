---------------------------- MODULE ReviewStore -----------------------------
(***************************************************************************)
(* apps/server/src/services/review-store.ts, as far as the findings of one *)
(* pull request go: a row for each review, its findings open or dismissed, *)
(* and the memory of dismissals that later reviews are completed with      *)
(* (dismissedByPr).  Rows and memory are values here; PullRequest holds    *)
(* them in its variables.                                                  *)
(***************************************************************************)
EXTENDS Report

NoRow == [status |-> "absent", findings |-> <<>>, digest |-> FindingDigest(<<>>, 0, Nit),
          costUsd |-> 0, tokens |-> 0]

\* start()
Started == [NoRow EXCEPT !.status = "queued"]

\* A finding as the store keeps it, dismissed when its fingerprint is in the
\* memory.
Stored(f, memory) ==
    [agent |-> f.agent, category |-> f.category, severity |-> f.severity, title |-> f.title,
     why |-> f.why, file |-> f.file, line |-> f.line, endLine |-> f.endLine,
     confidence |-> f.confidence, tags |-> f.tags,
     state |-> IF Fingerprint(f) \in memory THEN "dismissed" ELSE "open",
     auto |-> Fingerprint(f) \in memory]

\* complete()
Completed(row, fs, digest, cost, tokens, memory) ==
    [status |-> "completed", findings |-> [i \in DOMAIN fs |-> Stored(fs[i], memory)],
     digest |-> digest, costUsd |-> cost, tokens |-> tokens]

\* applyAction() on the findings of a row at the positions in S.
WithState(row, S, state) ==
    [row EXCEPT !.findings =
        [i \in DOMAIN @ |-> IF i \in S THEN [@[i] EXCEPT !.state = state, !.auto = FALSE] ELSE @[i]]]

Prints(row, S) == {Fingerprint(row.findings[i]) : i \in S}

\* Mutant: a reopened finding is still remembered as dismissed.
RememberForever(memory, row, S, state) ==
    IF state = "dismissed" THEN memory \cup Prints(row, S) ELSE memory

\* ... and what it leaves in the memory.
Remember(memory, row, S, state) ==
    IF state = "dismissed" THEN memory \cup Prints(row, S) ELSE memory \ Prints(row, S)

\* bulkFindingAction(): of the findings the filter matches, those that are not
\* yet in the state it asks for.
BulkTargets(row, severities, state) ==
    {i \in DOMAIN row.findings : /\ row.findings[i].severity \in severities
                                 /\ row.findings[i].state # state}

\* toReviewListDto()
ListEntry(row) ==
    [status |-> row.status, totalFindings |-> Len(row.findings),
     openFindings |-> Len(OpenOnes(row.findings)), costUsd |-> row.costUsd]

\* weeklyStats(), the counts over all rows of the window.
WeeklyStats(rows) ==
    LET fs == FoldLeft(LAMBDA all, r : all \o r.findings, <<>>, rows)
    IN  [totalReviews |-> Len(SelectSeq(rows, LAMBDA r : r.status # "absent")),
         completedReviews |-> Len(SelectSeq(rows, LAMBDA r : r.status = "completed")),
         failedReviews |-> Len(SelectSeq(rows, LAMBDA r : r.status = "failed")),
         totalFindings |-> Len(fs), openFindings |-> Len(OpenOnes(fs)),
         dismissedFindings |-> Len(fs) - Len(OpenOnes(fs)), bySeverity |-> Totals(fs)]
=============================================================================
