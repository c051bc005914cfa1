------------------------------- MODULE Report -------------------------------
(***************************************************************************)
(* What is said about the findings that are left: the digest that is kept  *)
(* with the review and printed in the comment, its drift, hotspots, the    *)
(* verdict of the check run, inline comments, the fingerprint by which a   *)
(* finding is known again, and the exports of routes/reviews.ts.           *)
(***************************************************************************)
EXTENDS Aggregator

CONSTANTS
    Region,         \* lines that share a fingerprint (10 in fingerprint.ts)
    HotspotWindow,  \* lines between neighbours in a hotspot (windowLines)
    ExportCap       \* findings per file that aggregate() keeps by default

ASSUME ReportAssumption ==
    Region \in Nat \ {0} /\ HotspotWindow \in Nat /\ ExportCap \in Nat \ {0}

\* fingerprint(): what makes two findings of two reviews the same.
Fingerprint(f) ==
    [agent |-> f.agent, category |-> f.category, severity |-> f.severity, file |-> f.file,
     region |-> f.line \div Region, title |-> f.title, why |-> f.why]

-----------------------------------------------------------------------------
(* hotspots.ts                                                             *)

\* One finding, in the order of lines, joins the last group of its file or
\* starts one.
JoinHotspot(groups, f) ==
    LET last == Last(groups)
    IN  IF groups # <<>> /\ f.line - last.last <= HotspotWindow
        THEN [groups EXCEPT ![Len(groups)] =
                [@ EXCEPT !.last = Max({@, f.endLine}), !.count = @ + 1,
                          !.top = Min({@, f.severity})]]
        ELSE Append(groups, [file |-> f.file, first |-> f.line, last |-> f.endLine,
                             count |-> 1, top |-> f.severity])

\* detectHotspots(), as a set: groups of at least two findings.
DetectHotspots(fs) ==
    LET InFile(p) == SelectSeq(fs, LAMBDA f : f.file = p)
        ByLine(p) == SetToSortSeq(DOMAIN InFile(p),
                        LAMBDA i, j : \/ InFile(p)[i].line < InFile(p)[j].line
                                      \/ InFile(p)[i].line = InFile(p)[j].line /\ i < j)
        GroupsIn(p) == FoldLeft(LAMBDA gs, i : JoinHotspot(gs, InFile(p)[i]), <<>>, ByLine(p))
    IN  UNION {{g \in ToSet(GroupsIn(p)) : g.count >= 2} : p \in {f.file : f \in ToSet(fs)}}

-----------------------------------------------------------------------------
(* digest.ts                                                               *)

\* A finding without tags counts once under "untagged".
TagsOf(f) == IF f.tags = {} THEN {<<"untagged">>} ELSE f.tags

\* findingDigest(); its top lists are these counts, sorted and cut for print.
FindingDigest(fs, floor, threshold) ==
    LET counted == Selected(fs, {i \in DOMAIN fs : Passes(fs[i], floor, threshold)})
        tags == UNION {TagsOf(f) : f \in ToSet(counted)}
    IN  [total |-> Len(counted),
         totalsBySeverity |-> Totals(counted),
         byCategory |-> CountBy(counted, "category"),
         byAgent |-> CountBy(counted, "agent"),
         byFile |-> CountBy(counted, "file"),
         byTag |-> [t \in tags |-> Cardinality({i \in DOMAIN counted : t \in TagsOf(counted[i])})],
         hotspots |-> DetectHotspots(counted)]

\* findingDigestWithFilterReport(): how many findings the digest left out.
FilterReport(fs, floor, threshold) ==
    [inputTotal |-> Len(fs), droppedTotal |-> Len(fs) - FindingDigest(fs, floor, threshold).total,
     floorApplied |-> floor > 0]

\* sparseDelta(): the keys whose count changed.
SparseDelta(persisted, fresh) ==
    LET At(counts, k) == IF k \in DOMAIN counts THEN counts[k] ELSE 0
        keys == DOMAIN persisted \cup DOMAIN fresh
    IN  [k \in {k \in keys : At(fresh, k) # At(persisted, k)} |-> At(fresh, k) - At(persisted, k)]

\* computeDigestDrift()
DigestDrift(persisted, fresh) ==
    [total |-> fresh.total - persisted.total,
     bySeverity |-> SparseDelta(persisted.totalsBySeverity, fresh.totalsBySeverity),
     byCategory |-> SparseDelta(persisted.byCategory, fresh.byCategory),
     byAgent |-> SparseDelta(persisted.byAgent, fresh.byAgent),
     byFile |-> SparseDelta(persisted.byFile, fresh.byFile),
     byTag |-> SparseDelta(persisted.byTag, fresh.byTag)]

HasDrift(drift) ==
    \/ drift.total # 0
    \/ \E d \in {drift.bySeverity, drift.byCategory, drift.byAgent, drift.byFile, drift.byTag} :
           DOMAIN d # {}

-----------------------------------------------------------------------------
(* check.ts and inline.ts                                                  *)

\* deriveCheckRun(): the verdict of the most severe finding.
Conclusion(totals) ==
    LET present == {s \in Severities : totals[s] > 0}
    IN  CASE present = {} -> "success"
          [] Critical \in present -> "failure"
          [] Critical \notin present /\ High \in present -> "action_required"
          [] present \cap {Critical, High} = {} /\ present \cap {Medium, Low} # {} -> "neutral"
          [] present = {Nit} -> "success"

\* Mutant: findings are anchored wherever they point.
InlineAnywhere(fs, files, minSeverity, max) ==
    LET anchored == SelectSeq(fs, LAMBDA f : f.severity <= minSeverity)
    IN  SubSeq(anchored, 1, Min({max, Len(anchored)}))

\* buildInlineComments(), anchored: severe enough, on a line of the diff.
InlineComments(fs, files, minSeverity, max) ==
    LET anchored == Selected(fs, {i \in DOMAIN fs :
                                     /\ fs[i].severity <= minSeverity
                                     /\ fs[i].line \in CommentableLines(files, fs[i].file)})
    IN  SubSeq(anchored, 1, Min({max, Len(anchored)}))

-----------------------------------------------------------------------------
(* The command line: run.ts and baseline.ts.                               *)

\* applyRunFailOn(): with --fail-on, any finding at or above that severity fails
\* the run; without it (a severity beyond the scale) only high and critical do.
ExitCode(totals, failOn) ==
    LET present == {s \in Severities : totals[s] > 0}
    IN  CASE failOn \in Severities -> IF present \cap (Critical .. failOn) = {} THEN 0 ELSE 1
          [] failOn \notin Severities /\ Critical \in present -> 2
          [] failOn \notin Severities /\ Critical \notin present ->
                IF High \in present THEN 1 ELSE 0

\* indexByFingerprint(): of findings that share one, the last stays.
IndexByFingerprint(fs) ==
    [p \in {Fingerprint(f) : f \in ToSet(fs)} |->
        fs[Max({i \in DOMAIN fs : Fingerprint(fs[i]) = p})]]

\* diffAgainstBaseline(), as sets.
BaselineDelta(current, baseline) ==
    LET now == IndexByFingerprint(current)
        before == IndexByFingerprint(baseline)
    IN  [added |-> {now[p] : p \in DOMAIN now \ DOMAIN before},
         removed |-> {before[p] : p \in DOMAIN before \ DOMAIN now},
         unchanged |-> {now[p] : p \in DOMAIN now \cap DOMAIN before}]

-----------------------------------------------------------------------------
(* Exports over the stored findings of a review.                           *)

OpenOnes(fs) == Selected(fs, {i \in DOMAIN fs : fs[i].state = "open"})

\* GET /api/reviews/:id/sarif aggregates the open findings anew, with the
\* default cap per file.
SarifResults(fs) == Aggregate(OpenOnes(fs), Nit, ExportCap, 0).findings

\* toJUnitXml(): a test case for every finding, failed if critical or high.
JUnit(fs) ==
    LET failures == Cardinality({i \in DOMAIN fs : fs[i].severity \in {Critical, High}})
    IN  [tests |-> Len(fs), failures |-> failures, skipped |-> Len(fs) - failures]

\* GET /api/reviews/:id/junit.xml: the open findings.
JUnitCounts(fs) == JUnit(OpenOnes(fs))

\* GET /api/reviews/:id/findings.csv
CsvRows(fs, includeDismissed) == IF includeDismissed THEN fs ELSE OpenOnes(fs)

\* GET /api/reviews/:id/report.md: totals of the open findings, and how many
\* were dismissed.
ReportTotals(fs) ==
    [totals |-> Totals(OpenOnes(fs)), open |-> Len(OpenOnes(fs)),
     dismissed |-> Len(fs) - Len(OpenOnes(fs))]
=============================================================================
