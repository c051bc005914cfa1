------------------------------ MODULE Formats -------------------------------
(***************************************************************************)
(* What the outputs for people and for other tools contain: the comment on *)
(* the pull request (comment.ts), the text of a local run (render.ts), the *)
(* SARIF, GitLab and reviewdog formats, and `clawreview stats' over the    *)
(* JSON of a local run.  An output is what it says about the findings;     *)
(* wording and layout are left out.                                        *)
(***************************************************************************)
EXTENDS Report

Nothing(totals) == \A s \in Severities : totals[s] = 0

\* renderPrComment(): counts, the breakdowns of the digest, and the findings by
\* file; without findings a single line.  The tops of the breakdowns are cut at 8.
PrComment(summed, digest) ==
    IF Nothing(summed.totals)
    THEN [totals |-> summed.totals, byCategory |-> <<>>, byAgent |-> <<>>, byTag |-> <<>>, files |-> <<>>]
    ELSE [totals |-> summed.totals, byCategory |-> digest.byCategory, byAgent |-> digest.byAgent,
          byTag |-> digest.byTag, files |-> summed.grouped]

\* renderTextReport(): counts, and the findings by file.
TextReport(report) ==
    [totals |-> report.totals, files |-> IF Nothing(report.totals) THEN <<>> ELSE report.grouped]

-----------------------------------------------------------------------------
(* sarif.ts                                                                *)

LevelFor(severity) ==
    CASE severity \in {Critical, High} -> "error"
      [] severity \in {Medium, Low} -> "warning"
      [] severity = Nit -> "note"

RuleId(f) == <<f.agent, f.category>>

\* buildRules(): each rule once, in the order of the findings, with the level of
\* the first of them.
SarifRules(fs) ==
    LET firsts == {i \in DOMAIN fs : \A j \in 1 .. i - 1 : RuleId(fs[j]) # RuleId(fs[i])}
        order == Ascending(firsts)
    IN  [n \in DOMAIN order |-> [id |-> RuleId(fs[order[n]]), level |-> LevelFor(fs[order[n]].severity)]]

\* toSarif()
SarifLog(fs) ==
    LET rules == SarifRules(fs)
        Index(id) == CHOOSE n \in DOMAIN rules : rules[n].id = id
    IN  [rules |-> rules,
         results |-> [i \in DOMAIN fs |->
                        [rule |-> Index(RuleId(fs[i])), level |-> LevelFor(fs[i].severity),
                         file |-> fs[i].file, line |-> fs[i].line, endLine |-> fs[i].endLine,
                         print |-> Fingerprint(fs[i])]]]

-----------------------------------------------------------------------------
(* gitlab.ts and rdjsonl.ts                                                *)

GitlabSeverity == [s \in Severities |-> <<"blocker", "critical", "major", "minor", "info">>[s + 1]]

\* toGitlabCodeQuality()
GitlabIssues(fs) ==
    [i \in DOMAIN fs |->
        [check |-> RuleId(fs[i]), severity |-> GitlabSeverity[fs[i].severity], file |-> fs[i].file,
         line |-> fs[i].line, endLine |-> fs[i].endLine, print |-> Fingerprint(fs[i])]]

RdjsonlSeverity == [s \in Severities |-> <<"ERROR", "ERROR", "WARNING", "WARNING", "INFO">>[s + 1]]

\* toRdjsonlDiagnostics()
RdjsonlDiagnostics(fs) ==
    [i \in DOMAIN fs |->
        [code |-> RuleId(fs[i]), severity |-> RdjsonlSeverity[fs[i].severity], file |-> fs[i].file,
         line |-> fs[i].line, endLine |-> fs[i].endLine, print |-> Fingerprint(fs[i])]]

-----------------------------------------------------------------------------
(* stats.ts: the JSON of a local run, counted again.  The arguments are a  *)
(* record; an option that takes a number is the set of the numbers given.  *)

DefaultTop == [file |-> 5, agent |-> 10, category |-> 10]
MaxTop == 200

\* parseTopFlag()
TopFlag(given, default) ==
    IF given = {} THEN default ELSE Max({1, Min({MaxTop, CHOOSE n \in given : TRUE})})

\* computeTotals(): those the report came with, and its findings are counted only
\* if it came with none.
StatsTotals(report, digest) ==
    IF DOMAIN report.totals # {} THEN report.totals ELSE digest.totalsBySeverity

\* applyFailOn(): only with --fail-on does it fail, and a severity that is not on
\* the scale is an error of its own.
StatsExit(totals, failOn) ==
    CASE failOn = {} -> 0
      [] failOn # {} /\ failOn \cap Severities = {} -> 2
      [] failOn \cap Severities # {} ->
            IF \E s \in Severities : s <= Max(failOn) /\ totals[s] > 0 THEN 1 ELSE 0

\* renderFilterSummaryLine() and renderFilterSummaryJson()
FilterSummary(report, args, digest) ==
    LET filtered == FilterReport(report.findings, args.floor, args.threshold)
    IN  [showing |-> digest.total, inputTotal |-> filtered.inputTotal,
         droppedTotal |-> filtered.droppedTotal, floorApplied |-> filtered.floorApplied]

\* The rows of a breakdown: the greatest counts, as many as the option lets in.
TopRows(counts, n) ==
    [rows |-> Min({n, Cardinality(DOMAIN counts)}), of |-> Cardinality(DOMAIN counts)]

\* The counts of the digest that every shape of the output carries.
Breakdown(args, digest) ==
    [byAgent |-> digest.byAgent, byCategory |-> digest.byCategory, byFile |-> digest.byFile,
     topFiles |-> TopRows(digest.byFile, TopFlag(args.top.file, DefaultTop.file)),
     topAgents |-> TopRows(digest.byAgent, TopFlag(args.top.agent, DefaultTop.agent)),
     topCategories |-> TopRows(digest.byCategory, TopFlag(args.top.category, DefaultTop.category))]

\* --format json: a header if two options ask for it; then one document, or with
\* a third option a line for every severity and a footer.
StatsJson(report, args, totals, digest) ==
    LET header == args.header /\ args.filterSummary
        stream == header /\ args.jsonl
    IN  [header |-> IF header THEN <<FilterSummary(report, args, digest)>> ELSE <<>>,
         document |-> IF stream THEN <<>> ELSE <<[totals |-> totals, counts |-> Breakdown(args, digest)]>>,
         buckets |-> IF stream
                     THEN [n \in 1 .. Nit + 1 |-> [severity |-> n - 1, count |-> totals[n - 1]]]
                     ELSE <<>>,
         footer |-> IF stream /\ ~args.noFooter THEN <<Breakdown(args, digest)>> ELSE <<>>]

\* The text: the block of --by comes first, and of a breakdown that is not empty
\* its title counts the rows it has and those there are.
StatsText(report, args, totals, digest) ==
    LET tops == Breakdown(args, digest)
    IN  [header |-> IF args.filterSummary THEN <<FilterSummary(report, args, digest)>> ELSE <<>>,
         first |-> args.by, severity |-> totals,
         agent |-> tops.topAgents, category |-> tops.topCategories, file |-> tops.topFiles]

\* runStats() on an input that is a report.
RunStats(report, args) ==
    LET digest == FindingDigest(report.findings, args.floor, args.threshold)
        totals == StatsTotals(report, digest)
    IN  IF \/ args.by \notin {"severity", "agent", "category", "file"}
           \/ args.format \notin {"text", "json"}
        THEN [exit |-> 2, text |-> <<>>, json |-> <<>>]
        ELSE [exit |-> StatsExit(totals, args.failOn),
              text |-> IF args.format = "text" THEN <<StatsText(report, args, totals, digest)>>
                       ELSE <<>>,
              json |-> IF args.format = "json" THEN <<StatsJson(report, args, totals, digest)>>
                       ELSE <<>>]

-----------------------------------------------------------------------------
(* explain.ts and authors.ts                                               *)

ListedCandidates == 8

\* runExplain(): the findings whose fingerprint begins as asked for, of which there
\* must be one.
RunExplain(report, prints) ==
    LET fs == report.findings
        matches == Selected(fs, {i \in DOMAIN fs : Fingerprint(fs[i]) \in prints})
    IN  CASE matches = <<>> -> [exit |-> 1, shown |-> <<>>, candidates |-> 0]
          [] Len(matches) = 1 -> [exit |-> 0, shown |-> matches, candidates |-> 0]
          [] Len(matches) > 1 ->
                [exit |-> 2, shown |-> <<>>, candidates |-> Min({ListedCandidates, Len(matches)})]

\* attributeFindingsToAuthors(): blame knows who wrote some of the lines.
AuthorBreakdown(fs, blame) ==
    LET At(f) == <<f.file, f.line>>
        known == {i \in DOMAIN fs : At(fs[i]) \in DOMAIN blame}
        By(a) == Selected(fs, {i \in known : blame[At(fs[i])] = a})
        authors == {blame[At(fs[i])] : i \in known}
    IN  [authors |-> [a \in authors |->
                        [findings |-> By(a), bySeverity |-> Totals(By(a)), total |-> Len(By(a)),
                         worst |-> Min({f.severity : f \in ToSet(By(a))})]],
         unknown |-> Selected(fs, DOMAIN fs \ known)]

\* runAuthors(): the text lists no more than `top' authors and counts the rest.
RunAuthors(report, blame, top) ==
    LET all == AuthorBreakdown(report.findings, blame)
        n == Cardinality(DOMAIN all.authors)
    IN  IF report.findings = <<>> THEN [exit |-> 2, rows |-> 0, more |-> 0, unknown |-> 0]
        ELSE [exit |-> 0, rows |-> Min({Max({1, top}), n}), more |-> Max({0, n - Max({1, top})}),
              unknown |-> Len(all.unknown)]

-----------------------------------------------------------------------------
(* diff-stats.ts: the size of a diff, before any agent is paid.            *)

\* computeDiffStats(); of the languages and the ten largest files only that they
\* are the same files sorted.
DiffStats(files) ==
    LET Count(file, kind) ==
            Total([k \in DOMAIN file.hunks |->
                      Cardinality({i \in DOMAIN file.hunks[k].lines :
                                      /\ file.hunks[k].lines[i].kind = kind
                                      /\ ~file.hunks[k].lines[i].doubled})])
        stats == [i \in DOMAIN files |->
                    [path |-> files[i].path, binary |-> files[i].binary, hunks |-> Len(files[i].hunks),
                     added |-> Count(files[i], "+"), removed |-> Count(files[i], "-")]]
    IN  [files |-> stats,
         totals |-> [files |-> Len(stats),
                     hunks |-> Total([i \in DOMAIN stats |-> stats[i].hunks]),
                     added |-> Total([i \in DOMAIN stats |-> stats[i].added]),
                     removed |-> Total([i \in DOMAIN stats |-> stats[i].removed]),
                     binary |-> Cardinality({i \in DOMAIN stats : stats[i].binary})]]
=============================================================================
