----------------------------- MODULE ReviewReads -----------------------------
(***************************************************************************)
(* What GET /api/reviews/:id and its sub-routes answer about one review    *)
(* while the worker runs it (twice, when BullMQ takes its job for stalled) *)
(* and reviewers dismiss and reopen: apps/server/src/routes/reviews.ts,    *)
(* the digest of packages/aggregator/src/digest.ts and the counters of     *)
(* packages/telemetry/src/metrics.ts that these reads move.                *)
(*                                                                         *)
(* A read changes nothing; its answer is kept until it has been looked at. *)
(* A confidence is in percent, as in Aggregator.                           *)
(***************************************************************************)
EXTENDS ReviewStore

CONSTANTS
    Outcomes,       \* what a run may end with: [findings, floor, threshold]
    DigestQueries,  \* the queries to the digest
    ReportQueries,  \* the queries to the filter report
    NameOrder,      \* NameOrder[k]: the names under key k of a digest, in order
    TopCut,         \* length of the top lists (8 of the route)
    MaxRuns, MaxTriage \* bounds: runs of the job, actions of reviewers

\* A run ends with findings, each of which passes its filters; a name has one place
\* in the alphabet; a query gives numbers, and its flags are set or not.
ASSUME ReviewReadsAssumption ==
    /\ TopCut \in Nat \ {0} /\ MaxRuns \in Nat /\ MaxTriage \in Nat
    /\ \A o \in Outcomes :
          /\ IsSequence(o.findings) /\ o.floor \in 0 .. 100 /\ o.threshold \in Severities
          /\ \A f \in ToSet(o.findings) :
                /\ IsFinding(f) /\ Passes(f, o.floor, o.threshold)
                /\ f.file \in ToSet(NameOrder.file) /\ f.agent \in ToSet(NameOrder.agent)
                /\ f.category \in ToSet(NameOrder.category) /\ TagsOf(f) \subseteq ToSet(NameOrder.tag)
    /\ \A k \in {"file", "agent", "category", "tag"} :
          IsSequence(NameOrder[k]) /\ \A i, j \in DOMAIN NameOrder[k] : NameOrder[k][i] = NameOrder[k][j] => i = j
    /\ \A q \in DigestQueries : q.confidence.value \in Int /\ q.severity.value \in Int
    /\ \A q \in ReportQueries : q.slim \in BOOLEAN

VARIABLES
    record,   \* the review's row
    summary,  \* what its last completed run left: {} or {[digest, report]}
    working,  \* how many runs are before the end of their passes
    posting,  \* the runs that are through their passes and not yet stored
    prints,   \* the fingerprints remembered as dismissed
    reply,    \* the answer to a read: {} or {it}
    counted,  \* the counters the last step moved
    runs, triage \* bounds

writeVars == <<record, summary, working, posting, prints, runs, triage>>
readVars == <<writeVars, reply, counted>>

ReadInit ==
    /\ record = NoRow
    /\ summary = {} /\ posting = {} /\ prints = {} /\ reply = {} /\ counted = {}
    /\ working = 0 /\ runs = 0 /\ triage = 0

-----------------------------------------------------------------------------
(* Filters: a confidence and a severity as a query gives them.             *)

\* normaliseDigestMinConfidence(): no number is no floor.
NormalConfidence(raw) ==
    IF ~raw.given \/ ~raw.number THEN 0 ELSE Max({0, Min({100, raw.value})})

\* normaliseDigestSeverityThreshold(), as a set: what is no severity is no threshold.
NormalSeverity(raw) == IF raw.given THEN {raw.value} \cap Severities ELSE {}

\* The threshold by which findingDigest() filters.
Threshold(raw) == IF NormalSeverity(raw) = {} THEN Nit ELSE Max(NormalSeverity(raw))

\* findingDigestWithFilterReport()
FilteredDigest(fs, confidence, severity) ==
    LET digest == FindingDigest(fs, NormalConfidence(confidence), Threshold(severity))
        floored == NormalConfidence(confidence) > 0
        limited == NormalSeverity(severity) # {}
    IN  [digest |-> digest,
         report |-> [inputTotal |-> Len(fs), droppedTotal |-> Len(fs) - digest.total,
                     floored |-> floored, limited |-> limited, any |-> floored \/ limited]]

Given(value) == [given |-> TRUE, number |-> TRUE, value |-> value]
NotGiven == [given |-> FALSE, number |-> FALSE, value |-> 0]

-----------------------------------------------------------------------------
(* Counters.                                                               *)

YesNo(b) == IF b THEN "yes" ELSE "no"

\* observeReviewDigestDrift()
DriftCount(drift) == {<<"digest drift", IF HasDrift(drift) THEN "stale" ELSE "fresh">>}

\* observeReviewDigestFilterApplied()
FilterCount(report) == {<<"digest filter", YesNo(report.floored), YesNo(report.limited)>>}

\* observeFindingsFilterPreApplied(), for both of its phases.
PreAppliedCount(report) ==
    {<<"pre-applied", phase, YesNo(report.any)>> : phase \in {"aggregate", "worker_post"}}

\* observeReviewDigestPersistedDrift()
PersistedDriftCount(prior, drift) ==
    {<<"persisted drift", CASE prior = {} -> "fresh"
                            [] prior # {} /\ HasDrift(drift) -> "stale"
                            [] prior # {} /\ ~HasDrift(drift) -> "unchanged">>}

Shape(slim) == IF slim THEN "slim" ELSE "full"

\* observeReviewFilterReportRead() and ...ReadDuration()
ReportCount(slim) == {<<"report read", Shape(slim)>>, <<"report duration", Shape(slim)>>}

\* observeReviewFilterReportReadProjection()
ProjectionCount(slim, fields) ==
    {<<"report projection", CASE slim -> "slim" [] ~slim /\ fields -> "fields"
                              [] ~slim /\ ~fields -> "full">>}

-----------------------------------------------------------------------------
(* Writes: the worker and the reviewers.                                   *)

Persisted == IF summary = {} THEN FindingDigest(<<>>, 0, Nit) ELSE (CHOOSE s \in summary : TRUE).digest

\* start()
StartReviewed ==
    /\ record = NoRow
    /\ record' = Started
    /\ counted' = {}
    /\ UNCHANGED <<summary, working, posting, prints, runs, triage, reply>>

\* markRunning(), whatever became of a run before it.
BeginRun ==
    /\ record # NoRow /\ runs < MaxRuns
    /\ runs' = runs + 1
    /\ working' = working + 1
    /\ record' = [record EXCEPT !.status = "running"]
    /\ counted' = {}
    /\ UNCHANGED <<summary, posting, prints, triage, reply>>

\* The passes of a run are through.  What the worker counts of them it counts
\* before it posts anything.
Summarise(o) ==
    LET made == FilteredDigest(o.findings, Given(o.floor), Given(o.threshold))
    IN  /\ working > 0
        /\ working' = working - 1
        /\ posting' = posting \cup {[id |-> runs - working, findings |-> o.findings,
                                      digest |-> made.digest, report |-> made.report]}
        /\ counted' = PreAppliedCount(made.report)
                      \cup PersistedDriftCount(summary, DigestDrift(Persisted, made.digest))
        /\ UNCHANGED <<record, summary, prints, runs, triage, reply>>

\* Everything is posted: complete().
CompleteRun(p) ==
    /\ posting' = posting \ {p}
    /\ record' = Completed(record, p.findings, p.digest, 0, 0, prints)
    /\ summary' = {[digest |-> p.digest, report |-> p.report]}
    /\ counted' = {}
    /\ UNCHANGED <<working, prints, runs, triage, reply>>

\* A call to GitHub fails: fail(), which leaves findings and digest of a run
\* before it.
FailRun ==
    /\ \/ working > 0 /\ working' = working - 1 /\ UNCHANGED posting
       \/ UNCHANGED working /\ \E p \in posting : posting' = posting \ {p}
    /\ record' = [record EXCEPT !.status = "failed"]
    /\ counted' = {}
    /\ UNCHANGED <<summary, prints, runs, triage, reply>>

\* findingAction() and bulkFindingAction() with a filter on severities.
Act(S, state) ==
    /\ triage < MaxTriage
    /\ triage' = triage + 1
    /\ record' = WithState(record, S, state)
    /\ prints' = Remember(prints, record, S, state)
    /\ counted' = {}
    /\ UNCHANGED <<summary, working, posting, runs, reply>>

ActOnFindings(state) ==
    \/ \E i \in DOMAIN record.findings : Act({i}, state)
    \/ \E severities \in {Severities, {Critical, High}} :
          BulkTargets(record, severities, state) # {} /\ Act(BulkTargets(record, severities, state), state)

-----------------------------------------------------------------------------
(* Parameters that list fields: allowed ones, or denied ones with a minus. *)

SlimFields == {"byAgent", "byCategory", "byFile", "byTag"}
ReportFields == {"appliedFilters", "inputTotal", "droppedTotal", "applied"}

Alias(name) == <<[minus |-> FALSE, name |-> name]>>

\* One form throughout, every entry a field: aliases stand alone, and nothing is
\* empty, bare or unknown.
WellFormed(list, fields) ==
    \/ list \in {<<>>, Alias("all"), Alias("none")}
    \/ \A i, j \in DOMAIN list : list[i].name \in fields /\ list[i].minus = list[j].minus

\* Mutant: fields with a minus are taken as if they had none.
ChosenUnsigned(list, fields) ==
    LET names == {list[i].name : i \in DOMAIN list}
    IN  CASE list \in {<<>>, Alias("none")} -> {}
          [] list = Alias("all") -> fields
          [] OTHER -> names

\* The fields a well-formed list stands for.
Chosen(list, fields) ==
    LET names == {list[i].name : i \in DOMAIN list}
    IN  CASE list \in {<<>>, Alias("none")} -> {}
          [] list = Alias("all") -> fields
          [] list \notin {<<>>, Alias("none"), Alias("all")} ->
                IF list[1].minus THEN fields \ names ELSE names

\* parseSlimDirective(): the fields to strip.
SlimOk(list) == WellFormed(list, SlimFields)
Stripped(list) == Chosen(list, SlimFields)

\* parseFilterReportFields(): the fields to answer with.
FieldsOk(list) == WellFormed(list, ReportFields)
Projected(list) == Chosen(list, ReportFields)

Without(body, fields) == [k \in DOMAIN body \ fields |-> body[k]]

-----------------------------------------------------------------------------
(* Answers.                                                                *)

\* The fields of one document, and those of another spread beside them.
Beside(a, b) == [k \in DOMAIN a \cup DOMAIN b |-> IF k \in DOMAIN a THEN a[k] ELSE b[k]]

\* The first names of a breakdown: the greatest counts, and of equal ones the
\* first in the alphabet.
TopList(counts, order) ==
    LET Place(k) == CHOOSE i \in DOMAIN order : order[i] = k
        Precedes(j, k) == counts[j] > counts[k] \/ (counts[j] = counts[k] /\ Place(j) < Place(k))
        names == Sorted([k \in DOMAIN counts |-> {j \in DOMAIN counts : Precedes(j, k)}])
    IN  [i \in 1 .. Min({TopCut, Len(names)}) |-> [name |-> names[i], count |-> counts[names[i]]]]

\* A digest as it is answered.
DigestBody(digest) ==
    Beside(digest, [topFiles |-> TopList(digest.byFile, NameOrder.file),
                    topAgents |-> TopList(digest.byAgent, NameOrder.agent),
                    topCategories |-> TopList(digest.byCategory, NameOrder.category),
                    topTags |-> TopList(digest.byTag, NameOrder.tag)])

\* slimDigestFields()
SlimDigest(digest, list) == Without(DigestBody(digest), Stripped(list))

Answer(read, status, query, body) ==
    reply' = {[read |-> read, status |-> status, query |-> query, body |-> body]}

Refuse(read, status, query) == Answer(read, status, query, <<>>) /\ counted' = {}

\* GET /api/reviews/:id/digest, ?recompute=cached: the kept digest; how many
\* findings its filters dropped comes from the kept report, which a review has
\* exactly when it has a digest.
CachedDigest(q) ==
    /\ Answer("digest", 200, q,
              [persisted |-> {SlimDigest(s.digest, q.slim) : s \in summary}, fresh |-> {}, drift |-> {},
               slimFields |-> Stripped(q.slim),
               confidence |-> NormalConfidence(q.confidence), severity |-> NormalSeverity(q.severity),
               filterDropped |-> IF summary = {} THEN 0 ELSE (CHOOSE s \in summary : TRUE).report.droppedTotal,
               filterInputTotal |-> IF summary = {} THEN Len(record.findings)
                                    ELSE (CHOOSE s \in summary : TRUE).report.inputTotal])
    /\ counted' = {}

\* ... ?recompute=fresh: a digest of the stored findings through the query's
\* filters, and its drift from the kept one.
FreshDigest(q) ==
    LET fresh == FilteredDigest(record.findings, q.confidence, q.severity)
        drift == DigestDrift(Persisted, fresh.digest)
    IN  /\ Answer("digest", 200, q,
                  [persisted |-> {SlimDigest(s.digest, q.slim) : s \in summary},
                   fresh |-> {SlimDigest(fresh.digest, q.slim)}, drift |-> {drift},
                   slimFields |-> Stripped(q.slim),
                   confidence |-> NormalConfidence(q.confidence), severity |-> NormalSeverity(q.severity),
                   filterDropped |-> fresh.report.droppedTotal,
                   filterInputTotal |-> fresh.report.inputTotal])
        /\ counted' = DriftCount(drift) \cup FilterCount(fresh.report)

ReadDigest(q) ==
    LET good == SlimOk(q.slim) /\ q.recompute \in {"cached", "fresh"}
    IN  \/ ~good /\ Refuse("digest", 400, q)
        \/ good /\ record = NoRow /\ Refuse("digest", 404, q)
        \/ good /\ record # NoRow /\ q.recompute = "cached" /\ CachedDigest(q)
        \/ good /\ record # NoRow /\ q.recompute = "fresh" /\ FreshDigest(q)

\* The whole filter report, and what of it the query asks for.
FullReport(report) ==
    [inputTotal |-> report.inputTotal, droppedTotal |-> report.droppedTotal,
     appliedFilters |-> <<report.floored, report.limited>>, applied |-> report.any]

ReportBody(report, q) ==
    CASE q.slim -> Without(FullReport(report), {"appliedFilters"})
      [] ~q.slim /\ q.fields = <<>> -> FullReport(report)
      [] ~q.slim /\ q.fields # <<>> -> Without(FullReport(report), ReportFields \ Projected(q.fields))

\* GET /api/reviews/:id/filter-report
ReadReport(q) ==
    LET good == FieldsOk(q.fields) /\ ~(q.slim /\ q.fields # <<>>)
    IN  \/ ~good /\ Refuse("filter-report", 400, q)
        \/ good /\ summary = {} /\ Refuse("filter-report", 404, q)
        \/ /\ good /\ summary # {}
           /\ \E s \in summary : Answer("filter-report", 200, q, ReportBody(s.report, q))
           /\ counted' = ReportCount(q.slim) \cup ProjectionCount(q.slim, q.fields # <<>>)

\* GET /api/reviews/:id
ReadDetail ==
    Answer("detail", 200, <<>>,
           Beside(ListEntry(record), [findings |-> record.findings, digest |-> {s.digest : s \in summary},
                                      report |-> {s.report : s \in summary}]))

\* renderReviewReport(): the open findings of each file, the severe ones first.
ReportSections(fs) ==
    LET InFile(p) == {i \in DOMAIN fs : fs[i].state = "open" /\ fs[i].file = p}
        Precedes(i, j) == \/ fs[i].severity < fs[j].severity
                          \/ fs[i].severity = fs[j].severity /\ fs[i].line < fs[j].line
                          \/ fs[i].severity = fs[j].severity /\ fs[i].line = fs[j].line /\ i < j
    IN  [p \in {f.file : f \in ToSet(OpenOnes(fs))} |->
            Sorted([j \in InFile(p) |-> {i \in InFile(p) : Precedes(i, j)}])]

\* GET /api/reviews/:id/report.md
ReadMarkdown(withDismissed) ==
    Answer("report.md", 200, withDismissed,
           [totals |-> ReportTotals(record.findings), sections |-> ReportSections(record.findings),
            dismissed |-> IF withDismissed
                          THEN {i \in DOMAIN record.findings : record.findings[i].state = "dismissed"}
                          ELSE {}])

\* GET /api/reviews/:id/junit.xml
ReadJUnit == Answer("junit.xml", 200, <<>>, JUnitCounts(record.findings))

\* GET /api/reviews/:id/sarif
ReadSarif == Answer("sarif", 200, <<>>, SarifResults(record.findings))

\* GET /api/reviews/:id/findings.csv
ReadCsv(withDismissed) ==
    Answer("findings.csv", 200, withDismissed, CsvRows(record.findings, withDismissed))

ReadReview ==
    /\ reply = {}
    /\ \/ \E q \in DigestQueries : ReadDigest(q)
       \/ \E q \in ReportQueries : ReadReport(q)
       \/ \E read \in {"report.md", "findings.csv"} : Refuse(read, 400, <<>>)
       \/ /\ record = NoRow
          /\ \E read \in {"detail", "report.md", "junit.xml", "sarif", "findings.csv"} : Refuse(read, 404, <<>>)
       \/ /\ record # NoRow
          /\ \/ ReadDetail \/ ReadJUnit \/ ReadSarif
             \/ \E withDismissed \in BOOLEAN : ReadMarkdown(withDismissed) \/ ReadCsv(withDismissed)
          /\ counted' = {}
    /\ UNCHANGED writeVars

\* The answer has been looked at.
Look == reply # {} /\ reply' = {} /\ counted' = {} /\ UNCHANGED writeVars

ChangeReview ==
    /\ reply = {}
    /\ \/ StartReviewed
       \/ BeginRun
       \/ \E o \in Outcomes : Summarise(o)
       \/ \E p \in posting : CompleteRun(p)
       \/ FailRun
       \/ \E state \in {"open", "dismissed"} : ActOnFindings(state)

ReadsNext == ChangeReview \/ ReadReview \/ Look

ReadsSpec == ReadInit /\ [][ReadsNext]_readVars

ReadTypes ==
    /\ record.status \in {"absent", "queued", "running", "completed", "failed"}
    /\ \A i \in DOMAIN record.findings : record.findings[i].state \in {"open", "dismissed"}
    /\ Cardinality(summary) <= 1 /\ Cardinality(reply) <= 1
    /\ working \in 0 .. MaxRuns /\ working + Cardinality(posting) <= MaxRuns
    /\ runs \in 0 .. MaxRuns /\ triage \in 0 .. MaxTriage

-----------------------------------------------------------------------------
Answered(read) == {a \in reply : a.read = read /\ a.status = 200}

\* The sum of the counts of a breakdown.
SumOf(counts) == FoldFunction(LAMBDA n, total : n + total, 0, counts)

\* The drift between the persisted digest and a fresh one says how many findings
\* the request's floors drop, and so does the counter that asks for it.
DriftAgrees(drift, dropped, moved) ==
    /\ HasDrift(drift) <=> dropped > 0
    /\ drift.total = - dropped
    /\ SumOf(drift.bySeverity) = drift.total
    /\ <<"digest drift", "stale">> \in moved <=> dropped > 0
    /\ Cardinality(moved) = 2

\* The digest, of a review with the row `row' when `moved' was counted: what is in it
\* and what its filters dropped are the findings the list of reviews counts; it drifts,
\* and is counted as stale, exactly when the query's own filters dropped something,
\* whatever was dismissed or run again; the filters it names give the same digest when
\* they are asked for; slimming takes away what was asked for, in both digests alike.
DigestAgrees(a, row, moved) ==
    LET fs == row.findings
        body == a.body
        whole == FilteredDigest(fs, a.query.confidence, a.query.severity).digest
    IN  /\ body.filterInputTotal = ListEntry(row).totalFindings
        /\ \A d \in body.persisted : d.total = Len(fs)
        /\ \A d \in body.persisted \cup body.fresh :
             /\ SumOf(d.totalsBySeverity) = d.total
             /\ DOMAIN d = DOMAIN DigestBody(whole) \ body.slimFields
             /\ "byFile" \in DOMAIN d => SumOf(d.byFile) = d.total
        /\ \A d \in body.fresh :
             /\ d.total + body.filterDropped = Len(fs)
             /\ \A i \in DOMAIN d.topFiles : d.topFiles[i].count = whole.byFile[d.topFiles[i].name]
             /\ \A i, j \in DOMAIN d.topFiles : i < j => d.topFiles[i].count >= d.topFiles[j].count
             /\ whole = FindingDigest(fs, body.confidence, Threshold([given |-> body.severity # {},
                             number |-> TRUE, value |-> IF body.severity = {} THEN 0 ELSE Max(body.severity)]))
        /\ \A drift \in body.drift : DriftAgrees(drift, body.filterDropped, moved)
        /\ a.query.recompute = "cached" => body.filterDropped = 0 /\ moved = {}

\* Answering a report counts one read and one duration of the body's shape,
\* and one projection, "slim" for the slim body alone.
CountsAgree(moved, slim) ==
    /\ {c[2] : c \in {d \in moved : d[1] # "report projection"}} = {Shape(slim)}
    /\ <<"report projection", "slim">> \in moved <=> slim
    /\ Cardinality(moved) = 3

\* The filter report: a projection never says other than the whole, slim is the
\* whole without its filters however it is asked for, and it is about the
\* findings that the list counts; its three counters tell of one read.
ReportAgrees(a, report, row, moved) ==
    LET body == a.body
        slim == a.query.slim
    IN  /\ \A k \in DOMAIN body : body[k] = FullReport(report)[k]
        /\ "inputTotal" \in DOMAIN body => body.inputTotal = ListEntry(row).totalFindings
        /\ "droppedTotal" \in DOMAIN body => body.droppedTotal = 0
        /\ slim \/ a.query.fields = <<[minus |-> TRUE, name |-> "appliedFilters"]>>
             => DOMAIN body = ReportFields \ {"appliedFilters"}
        /\ a.query.fields = <<[minus |-> FALSE, name |-> "appliedFilters"]>>
             => DOMAIN body = {"appliedFilters"}
        /\ CountsAgree(moved, slim)

\* The detail has a digest and a report of one run, and all its findings.
DetailAgrees(a) ==
    /\ (a.body.digest = {}) <=> (a.body.report = {})
    /\ \A d \in a.body.digest : d.total = a.body.totalFindings

\* The documents: each shows the open findings that the list of reviews counts,
\* and with the dismissed ones all of them.
MarkdownAgrees(a, row) ==
    LET fs == row.findings
    IN  /\ a.body.totals.open = ListEntry(row).openFindings
        /\ (UNION {ToSet(a.body.sections[p]) : p \in DOMAIN a.body.sections}) \cup a.body.dismissed
               = (IF a.query THEN DOMAIN fs ELSE {i \in DOMAIN fs : fs[i].state = "open"})

JUnitAgrees(a, row) ==
    LET totals == ReportTotals(row.findings).totals
    IN  /\ a.body.tests = ListEntry(row).openFindings
        /\ a.body.failures = totals[Critical] + totals[High]

CsvAgrees(a, row) ==
    Len(a.body) = IF a.query THEN ListEntry(row).totalFindings ELSE ListEntry(row).openFindings

SarifAgrees(a, row) ==
    \A r \in ToSet(a.body) :
        \E f \in ToSet(OpenOnes(row.findings)) : f.file = r.file /\ f.line = r.line /\ f.title = r.title

\* All reads of one review agree about it, and with the counters they move
\* (routes/reviews.ts, digest.ts and metrics.ts, each of which has its own count).
ReadsAgree ==
    /\ \A a \in Answered("digest") : DigestAgrees(a, record, counted)
    /\ \A a \in Answered("filter-report") : \A s \in summary : ReportAgrees(a, s.report, record, counted)
    /\ \A a \in Answered("detail") : DetailAgrees(a)
    /\ \A a \in Answered("report.md") : MarkdownAgrees(a, record)
    /\ \A a \in Answered("junit.xml") : JUnitAgrees(a, record)
    /\ \A a \in Answered("findings.csv") : CsvAgrees(a, record)
    /\ \A a \in Answered("sarif") : SarifAgrees(a, record)
=============================================================================
