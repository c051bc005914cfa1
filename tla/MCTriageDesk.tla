---------------------------- MODULE MCTriageDesk -----------------------------
(* The desk alone: two findings in two files, by two agents; and a claim of a     *)
(* comment that the code does not keep.                                           *)
EXTENDS TriageDesk

MCSeverityOf == <<1, 3>>
MCFileOf == <<2, 1>>
MCAgentOf == <<"model", "secrets">>

\* The page without parameters, and as the form for the agent asks for it.
Bare == [severities |-> {}, states |-> {}, agents |-> Agents, focus |-> {}]
Everything == [Bare EXCEPT !.severities = 0 .. 4, !.states = States]

\* The whole list; the open ones of one agent and severity, with a finding linked to that
\* they do not have; and a deep link.
MCViews ==
    {Everything,
     [severities |-> {1}, states |-> {"open"}, agents |-> {"model"}, focus |-> {2}],
     [Bare EXCEPT !.focus = {2}]}

\* The links that a severity's bar on the page of the review has, besides.
MCLinked == MCViews \cup {OverviewLink(s) : s \in {s \in 0 .. 4 : OverviewCount(s) > 0}}

\* components/review/severity-row.tsx:25-30: "each non-empty severity in the legend (and its
\* bar segment) becomes a deep link", which "the review detail page points at the filtered
\* findings view.  Severities with a zero count stay inert (filtering to them would show
\* nothing)".
OverviewLeads == \A s \in 0 .. 4 : view = OverviewLink(s) => OnPage(view) # {}
=============================================================================
