----------------------------- MODULE Aggregator -----------------------------
(***************************************************************************)
(* packages/aggregator/src: from the findings of all agents to the ones    *)
(* that are reported.  Every pass is a pure function on a sequence of      *)
(* findings; PullRequest runs them in the order of worker.ts.              *)
(*                                                                         *)
(* A finding is a record of agent, category, severity, title, rationale,   *)
(* file, line, endLine (startLine when the reply has none), confidence in  *)
(* percent and tags.  Titles and rationales are sequences of words, as the *)
(* passes normalise them; the tags of a finding are a set.                 *)
(***************************************************************************)
EXTENDS DiffLines

CONSTANTS
    DedupRadius,   \* lines between two reports of one issue, dedupFindings
    MergeRadius    \* lines between two reports of one issue, similarityMerge

ASSUME RadiusAssumption == DedupRadius \in Nat /\ MergeRadius \in Nat

-----------------------------------------------------------------------------
(* Severities, most severe first: SEVERITY_ORDER.                          *)

Critical == 0
High == 1
Medium == 2
Low == 3
Nit == 4
Severities == Critical .. Nit

\* FindingSchema, as far as the passes look into a finding; of a finding that the
\* secrets agent makes up itself the line is what the scan counted.
FindingFields ==
    {"agent", "category", "severity", "title", "why", "file", "line", "endLine", "confidence", "tags"}
IsFinding(f) ==
    /\ DOMAIN f = FindingFields
    /\ f.severity \in Severities /\ f.confidence \in 0 .. 100
    /\ f.file \in Int /\ f.line \in Int

\* preferOver(): more severe, or as severe and more confident.
PreferOver(a, b) ==
    a.severity < b.severity \/ (a.severity = b.severity /\ a.confidence > b.confidence)

Distance(a, b) == IF a.line < b.line THEN b.line - a.line ELSE a.line - b.line

-----------------------------------------------------------------------------
(* applySeverityRules: the first rule that matches a finding decides.      *)

\* A rule: agents, categories and paths it is for, bounds on the confidence,
\* and its effect: drop, set (a severity) or bump (a number of steps).
IsRule(rule) ==
    /\ rule.effect \in {"drop", "set", "bump"}
    /\ rule.effect = "set" => rule.arg \in Severities
    /\ rule.effect = "bump" => rule.arg \in -4 .. 4

\* matches()
Matches(f, rule) ==
    /\ f.agent \in rule.agents
    /\ f.category \in rule.categories
    /\ f.file \in rule.paths
    /\ f.confidence \in rule.min .. rule.max

\* Mutant: the bumped severity is not clamped.
BumpUnclamped(severity, delta) == severity + delta

\* bumpSeverity()
BumpSeverity(severity, delta) == Max({Critical, Min({Nit, severity + delta})})

RuleFor(f, rules) ==
    LET matching == {i \in DOMAIN rules : Matches(f, rules[i])}
    IN  IF matching = {} THEN 0 ELSE Min(matching)

Ruled(f, rules) ==
    LET i == RuleFor(f, rules)
        to == IF rules[i].effect = "set" THEN rules[i].arg ELSE BumpSeverity(f.severity, rules[i].arg)
    IN  IF i = 0 \/ to = f.severity THEN f
        ELSE [f EXCEPT !.severity = to, !.tags = @ \cup {<<"severity-rule", i>>}]

Dropped(f, rules) == RuleFor(f, rules) # 0 /\ rules[RuleFor(f, rules)].effect = "drop"

ApplySeverityRules(fs, rules) ==
    LET kept == Selected(fs, {i \in DOMAIN fs : ~Dropped(fs[i], rules)})
    IN  [i \in DOMAIN kept |-> Ruled(kept[i], rules)]

-----------------------------------------------------------------------------
(* calibrateConfidence: severities that the confidence does not support.   *)

NitFloorBelow == 35
SecurityBumpAt == 85
SecurityHighAt == 95
SecurityCategories == {"security", "sql-injection", "secrets"}

\* atLeast()
AtLeast(severity, floor) == Min({severity, floor})

Promoted(f) ==
    CASE f.category \notin SecurityCategories -> f.severity
      [] f.confidence >= SecurityHighAt -> AtLeast(f.severity, High)
      [] f.confidence >= SecurityBumpAt -> AtLeast(f.severity, Medium)
      [] OTHER -> f.severity

Calibrated(f) ==
    CASE Promoted(f) # f.severity ->
            [f EXCEPT !.severity = Promoted(f), !.tags = @ \cup {<<"promoted to", Promoted(f)>>}]
      [] Promoted(f) = f.severity /\ f.confidence < NitFloorBelow /\ f.severity \in {Low, Nit} ->
            [f EXCEPT !.severity = Nit, !.tags = @ \cup {<<"nit-floor">>}]
      [] OTHER -> f

CalibrateConfidence(fs) == [i \in DOMAIN fs |-> Calibrated(fs[i])]

-----------------------------------------------------------------------------
(* similarityMerge and dedupFindings: one issue, reported more than once.  *)

Shared(a, b) == Cardinality({i \in DOMAIN a : a[i] \in ToSet(b)})
Shorter(a, b) == Min({Len(a), Len(b)})

\* overlap() >= 0.55
Overlaps(a, b) == Shorter(a, b) > 0 /\ 100 * Shared(a, b) >= 55 * Shorter(a, b)

\* similar()
SimilarTitles(a, b) == a = b \/ (Shorter(a, b) > 0 /\ 10 * Shared(a, b) >= 6 * Shorter(a, b))

\* Mutant: the less severe report wins.
MergeIntoWeaker(accepted, f) ==
    LET same == {i \in DOMAIN accepted : /\ accepted[i].file = f.file
                                         /\ Distance(accepted[i], f) <= MergeRadius
                                         /\ Overlaps(accepted[i].why, f.why)}
        i == Min(same)
        winner == IF PreferOver(accepted[i], f) THEN f ELSE accepted[i]
    IN  IF same = {} THEN Append(accepted, f) ELSE [accepted EXCEPT ![i] = winner]

\* One finding meets those accepted so far: it is new, or it and the first that
\* says the same fight for the place, the winner tagged with the loser's agent.
MergeInto(accepted, f) ==
    LET same == {i \in DOMAIN accepted : /\ accepted[i].file = f.file
                                         /\ Distance(accepted[i], f) <= MergeRadius
                                         /\ Overlaps(accepted[i].why, f.why)}
        i == Min(same)
        newWins == PreferOver(f, accepted[i])
        winner == IF newWins THEN f ELSE accepted[i]
        loser == IF newWins THEN accepted[i] ELSE f
    IN  IF same = {} THEN Append(accepted, f)
        ELSE [accepted EXCEPT ![i] =
                [winner EXCEPT !.tags = @ \cup {<<"merged-from", loser.agent>>}]]

SimilarityMerge(fs) == FoldLeft(MergeInto, <<>>, fs)

\* The same by title, within a category, and without a trace of the loser.
DedupInto(accepted, f) ==
    LET same == {i \in DOMAIN accepted : /\ accepted[i].file = f.file
                                         /\ accepted[i].category = f.category
                                         /\ Distance(accepted[i], f) <= DedupRadius
                                         /\ SimilarTitles(accepted[i].title, f.title)}
    IN  CASE same = {} -> Append(accepted, f)
          [] same # {} /\ PreferOver(f, accepted[Min(same)]) -> [accepted EXCEPT ![Min(same)] = f]
          [] OTHER -> accepted

DedupFindings(fs) == FoldLeft(DedupInto, <<>>, fs)

-----------------------------------------------------------------------------
(* aggregate: floor, threshold, duplicates, rank, cap per file.            *)

\* The order of rankFindings(); its sort is stable.
RanksBefore(fs, i, j) ==
    LET a == fs[i]
        b == fs[j]
    IN  \/ PreferOver(a, b)
        \/ /\ a.severity = b.severity /\ a.confidence = b.confidence
           /\ \/ a.file < b.file
              \/ a.file = b.file /\ a.line < b.line
              \/ a.file = b.file /\ a.line = b.line /\ i < j

RankFindings(fs) ==
    LET rank(i) == 1 + Cardinality({j \in DOMAIN fs : RanksBefore(fs, j, i)})
    IN  [r \in DOMAIN fs |-> fs[CHOOSE i \in DOMAIN fs : rank(i) = r]]

\* The first `max' findings of every file.
CapPerFile(fs, max) ==
    LET place(i) == Cardinality({j \in 1 .. i : fs[j].file = fs[i].file})
    IN  Selected(fs, {i \in DOMAIN fs : place(i) <= max})

CountBy(fs, field) ==
    [k \in {f[field] : f \in ToSet(fs)} |-> Cardinality({i \in DOMAIN fs : fs[i][field] = k})]

\* totals: every severity has a count.
Totals(fs) == [s \in Severities |-> Cardinality({i \in DOMAIN fs : fs[i].severity = s})]

\* groupedByFile
GroupedByFile(fs) ==
    [p \in {f.file : f \in ToSet(fs)} |-> Selected(fs, {i \in DOMAIN fs : fs[i].file = p})]

Summed(fs) ==
    [findings |-> fs, grouped |-> GroupedByFile(fs), totals |-> Totals(fs),
     categoryTotals |-> CountBy(fs, "category"),
     agentTotals |-> CountBy(fs, "agent")]

\* applyMinConfidence() and the severity threshold.
Passes(f, floor, threshold) == f.confidence >= floor /\ f.severity <= threshold

Aggregate(fs, threshold, maxPerFile, floor) ==
    LET filtered == Selected(fs, {i \in DOMAIN fs : Passes(fs[i], floor, threshold)})
    IN  Summed(CapPerFile(RankFindings(DedupFindings(filtered)), maxPerFile))

-----------------------------------------------------------------------------
(* applySuppressions: markers in the diff take findings out of the report. *)

\* matchesScope()
InScope(f, rules) == rules = {} \/ f.agent \in rules \/ f.category \in rules

\* A file marker, or a marker on every line of the finding.  A finding whose
\* range ends before it starts has no line to miss: in a file with any marker
\* it counts as covered.
Suppressed(f, files) ==
    LET onFile == FileScopes(files, f.file)
        On(n) == ScopesAt(files, f.file, n)
        marked == {n \in CommentableLines(files, f.file) : On(n) # {}}
    IN  \/ onFile # {} /\ InScope(f, MergedScope(onFile))
        \/ /\ marked # {}
           /\ \A n \in f.line .. f.endLine : n \in marked /\ InScope(f, MergedScope(On(n)))

\* Mutant: the totals of before the suppression stay.
RecomputeStale(aggregated, kept) ==
    [aggregated EXCEPT !.findings = kept, !.grouped = GroupedByFile(kept)]

\* recomputeAggregateTotals() over the findings that were kept.
Recompute(aggregated, kept) == Summed(kept)

-----------------------------------------------------------------------------
(* What the passes owe a finding.                                         *)

\* Two findings that one of the two duplicate passes may take for one.
Echo(f, g) ==
    /\ f.file = g.file
    /\ \/ Distance(f, g) <= MergeRadius /\ (Overlaps(f.why, g.why) \/ Overlaps(g.why, f.why))
       \/ /\ f.category = g.category /\ Distance(f, g) <= DedupRadius
          /\ SimilarTitles(f.title, g.title) \/ SimilarTitles(g.title, f.title)

\* What is connected to f by such pairs.
Cluster(fs, f) ==
    FoldLeft(LAMBDA S, i : S \cup {g \in ToSet(fs) : \E h \in S : Echo(g, h)}, {f}, fs)

SameFinding(f, g) ==
    \A k \in {"agent", "category", "severity", "title", "why", "file", "line", "endLine",
              "confidence"} : f[k] = g[k]

\* Of every finding in fs the report says enough: it is below the floor or the
\* threshold, or one that is at least as strong and connected to it is in
\* `shown', or is in `hidden' by a marker, or would be the next in a file that
\* has its `max' stronger ones, or is itself too uncertain for the floor.
Accounted(fs, shown, hidden, floor, threshold, max) ==
    \A f \in {g \in ToSet(fs) : Passes(g, floor, threshold)} :
        \E g \in {h \in Cluster(fs, f) : ~PreferOver(f, h)} :
            \/ ~Passes(g, floor, threshold)
            \/ \E i \in DOMAIN shown : SameFinding(shown[i], g)
            \/ \E i \in DOMAIN hidden : SameFinding(hidden[i], g)
            \/ LET rest == shown \o hidden
               IN  Cardinality({i \in DOMAIN rest : /\ rest[i].file = g.file
                                                    /\ ~PreferOver(g, rest[i])}) >= max
=============================================================================
