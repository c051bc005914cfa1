------------------------------- MODULE SlaBoard -------------------------------
(***************************************************************************)
(* Open findings past their remediation window: the report the server      *)
(* computes, and what the dashboard's SLA page and overview make of it.    *)
(*                                                                         *)
(* Reviews are numbers in the order they were created, a severity is a     *)
(* number (0 critical .. 4 nit), ages are whole hours.  A review has at    *)
(* most one open finding of each severity.                                 *)
(***************************************************************************)
EXTENDS Ordering, SequencesExt

CONSTANTS
    AgeOf,           \* the hours since each review was completed
    OpenOf,          \* the severities of its open findings
    DefaultPolicy,   \* the hours a finding of each severity may stay open
    ReportLimit      \* reviews the page asks for (200)

ASSUME SlaBoardAssumption ==
    /\ AgeOf \in Seq(Nat) /\ \A r \in DOMAIN AgeOf : OpenOf[r] \subseteq 0 .. 4
    /\ DefaultPolicy \in [0 .. 4 -> Nat \ {0}] /\ ReportLimit \in Nat \ {0}

-----------------------------------------------------------------------------
(* The server.                                                             *)

\* The first pages of a list: the newest come first.
Newest(reviews, limit) == {r \in reviews : Cardinality({s \in reviews : s > r}) < limit}

\* The window of each severity; an override that was given wins.
Windows(overrides) ==
    [s \in 0 .. 4 |-> IF s \in DOMAIN overrides THEN overrides[s] ELSE DefaultPolicy[s]]

\* makeBreach()
Breach(r, s, windows) ==
    [review |-> r, severity |-> s, age |-> AgeOf[r], sla |-> windows[s], overdue |-> AgeOf[r] - windows[s]]

BreachesOf(scanned, windows) ==
    UNION {{Breach(r, s, windows) : s \in {s \in OpenOf[r] : AgeOf[r] > windows[s]}} : r \in scanned}

\* Where a breach was found: the reviews newest first, each from its first finding on.
FoundFirst(b, c) == b.review > c.review \/ (b.review = c.review /\ b.severity < c.severity)

MostOverdueFirst(b, c) == b.overdue > c.overdue \/ (b.overdue = c.overdue /\ FoundFirst(b, c))

OfSeverity(breaches, s) == Selected(breaches, {i \in DOMAIN breaches : breaches[i].severity = s})

\* GET /api/reviews/sla/breaches over the completed reviews.
SlaReport(completed, overrides) ==
    LET scanned == Newest(completed, ReportLimit)
        windows == Windows(overrides)
        found == BreachesOf(scanned, windows)
        breaches == Sorted([b \in found |-> {c \in found : MostOverdueFirst(c, b)}])
    IN  [reviewsScanned |-> Cardinality(scanned), defaultPolicy |-> DefaultPolicy, policy |-> windows,
         totalOpen |-> MapThenSumSet(LAMBDA r : Cardinality(OpenOf[r]), scanned),
         totalBreached |-> Len(breaches),
         breachedBySeverity |-> [s \in 0 .. 4 |-> Len(OfSeverity(breaches, s))],
         breaches |-> breaches]

-----------------------------------------------------------------------------
(* The page.  Its query: a severity or none, a column, a direction and the *)
(* windows that were overridden.                                           *)

DefaultTable == [sev |-> {}, sort |-> "overdue", dir |-> "desc", policy |-> <<>>]

\* hrefWith(): the policy always, the rest where it differs from the default.
TableQuery(t) == [k \in {k \in DOMAIN t : t[k] # DefaultTable[k]} |-> t[k]]

\* parsePositive() and the parsers of the table: what they do not know is the default.
TableOf(q) ==
    LET Of(k) == IF k \in DOMAIN q THEN q[k] ELSE DefaultTable[k]
    IN  [sev |-> Of("sev") \cap (0 .. 4),
         sort |-> IF Of("sort") \in {"severity", "age", "sla"} THEN Of("sort") ELSE "overdue",
         dir |-> IF Of("dir") = "asc" THEN "asc" ELSE "desc",
         policy |-> [s \in {s \in DOMAIN Of("policy") : Of("policy")[s] > 0} |-> Of("policy")[s]]]

\* Criticals count most.
TableValue(key, b) ==
    CASE key = "severity" -> 4 - b.severity
      [] key = "age" -> b.age
      [] key = "sla" -> b.sla
      [] key = "overdue" -> b.overdue

\* filterSlaBreaches() and sortSlaBreaches(): ties stand in the order of their ids,
\* whatever the direction.
TableRows(t, breaches) ==
    LET Precedes(b, c) ==
            LET v == TableValue(t.sort, b) w == TableValue(t.sort, c)
            IN  IF v = w THEN b.review < c.review \/ (b.review = c.review /\ b.severity < c.severity)
                         ELSE (t.dir = "asc") = (v < w)
        shown == {b \in Range(breaches) : t.sev = {} \/ b.severity \in t.sev}
    IN  Sorted([b \in shown |-> {c \in shown : Precedes(c, b)}])

\* A tab of a severity, or of all; the segment of the mix bar takes the filter off again.
TabLink(t, sev) == [t EXCEPT !.sev = sev]
SegmentLink(t, s) == [t EXCEPT !.sev = IF @ = {s} THEN {} ELSE {s}]

\* sortHref(): the other direction of the column it is sorted by.
ColumnLink(t, key) ==
    [t EXCEPT !.sort = key, !.dir = IF t.sort = key /\ t.dir = "desc" THEN "asc" ELSE "desc"]

\* The chips that take a filter away, and "clear all", which keeps the policy.
TableChips(t) ==
    {[t EXCEPT !.sev = {}] : s \in t.sev}
    \cup (IF <<t.sort, t.dir>> # <<"overdue", "desc">> THEN {[t EXCEPT !.sort = "overdue", !.dir = "desc"]} ELSE {})
    \cup {[DefaultTable EXCEPT !.policy = t.policy]}

\* What the SLA page and the overview read of the report.
FieldsRead == {"reviewsScanned", "totalBreaches", "bySeverity", "breaches", "defaultPolicy"}

\* Rendering throws on a field that is not there.
Throws(report) == ~(FieldsRead \subseteq DOMAIN report)

-----------------------------------------------------------------------------
\* The report's totals are those of its breaches, all of them open longer than their
\* window and the worst first; and on the table of the page, whatever it is filtered and
\* sorted by, a tab counts the rows behind it, every link is read back as it was meant and
\* keeps the policy, a click on a column sorts by it and a second one turns it round.
SlaAgrees(completed, t) ==
    LET report == SlaReport(completed, t.policy)
        breaches == report.breaches
        links == {TabLink(t, s) : s \in {{}} \cup {{x} : x \in 0 .. 4}} \cup {SegmentLink(t, s) : s \in 0 .. 4}
                 \cup {ColumnLink(t, k) : k \in {"severity", "age", "sla", "overdue"}} \cup TableChips(t)
    IN  /\ report.totalBreached = Len(breaches) /\ report.totalBreached <= report.totalOpen
        /\ \A i, j \in DOMAIN breaches : /\ breaches[i].age > report.policy[breaches[i].severity]
                                         /\ i < j => breaches[i].overdue >= breaches[j].overdue
        /\ \A s \in 0 .. 4 :
              Len(TableRows(TabLink(t, {s}), breaches)) = report.breachedBySeverity[s]
        /\ \A l \in links : TableOf(TableQuery(l)) = l /\ l.policy = t.policy
        /\ \A k \in {"severity", "age", "sla", "overdue"} :
              ColumnLink(t, k).sort = k /\ ColumnLink(ColumnLink(t, k), k).dir # ColumnLink(t, k).dir
=============================================================================
