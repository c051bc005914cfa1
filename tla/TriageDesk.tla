------------------------------ MODULE TriageDesk ------------------------------
(***************************************************************************)
(* An operator triages the findings of one review in the dashboard: the    *)
(* page of app/reviews/[id]/findings, its rows and bulk bar, the toasts    *)
(* with their undo, and the server actions behind them.                    *)
(*                                                                         *)
(* Next.js and React are external: server actions are sent one after the   *)
(* other, and the answer to one that called revalidatePath brings the page *)
(* as the server then has it.  A finding is a number, its file, agent and  *)
(* severity (0 critical .. 4 nit) are constants; a filter is the set of    *)
(* values it lets through: all of them when it says "all" or something     *)
(* unknown, and none when the URL has no such parameter, for it is then    *)
(* undefined and not "all" (page.tsx:33, :36).  Only a missing agent is    *)
(* all agents.  The time a toast lives is left open.                       *)
(***************************************************************************)
EXTENDS Ordering, SequencesExt

CONSTANTS
    Findings,                  \* the findings of the review, as numbers
    SeverityOf, FileOf, AgentOf,
    Views,                     \* the pages visited: [severities, states, agents, focus]
    ToastLimit,                \* toasts on the screen (3)
    InitiallyOpen,             \* file groups that start open (5)
    MaxCalls, MaxToasts        \* bounds: calls and toasts of a behaviour

States == {"open", "dismissed"}
Agents == Range(AgentOf)

\* What a parameter of the query may let through: nothing, all, or one value.
Parameter(values) == {{}, values} \cup {{x} : x \in values}

\* A deep link is to one finding, if to any.
ASSUME TriageDeskAssumption ==
    /\ Findings \subseteq Nat /\ IsFiniteSet(Findings)
    /\ SeverityOf \in [Findings -> 0 .. 4] /\ FileOf \in [Findings -> Nat] /\ DOMAIN AgentOf = Findings
    /\ ToastLimit \in Nat \ {0} /\ InitiallyOpen \in Nat /\ MaxCalls \in Nat /\ MaxToasts \in Nat
    /\ Views \subseteq [severities : Parameter(0 .. 4), states : Parameter(States),
                        agents : Parameter(Agents), focus : {{}} \cup {{f} : f \in Findings}]
    /\ \E v \in Views : v.focus = {}

VARIABLES
    server,   \* the state of each finding in the review store
    page,     \* the states the page was last rendered with
    view,     \* the page's query
    sent,     \* the calls under way, oldest first
    toasts,   \* on the screen, oldest first
    timers,   \* the tokens whose timers run
    issued,   \* tokens handed out
    calls,    \* calls made (bound)
    outdated, \* what has made the page old since it was rendered
    answered, \* the call answered in the last step, with what it changed: {} or {it}
    taken     \* whether the operator has taken the newest toast away

deskVars == <<server, page, view, sent, toasts, timers, issued, calls, outdated, answered, taken>>

DeskInit ==
    /\ server = [f \in Findings |-> "open"] /\ page = server
    /\ view = CHOOSE v \in Views : v.focus = {}
    /\ sent = <<>> /\ toasts = <<>> /\ timers = {} /\ issued = 0 /\ calls = 0
    /\ outdated = {} /\ answered = {} /\ taken = FALSE

-----------------------------------------------------------------------------
(* The page.                                                               *)

\* Whether the page's three filters let a finding through.
ShownIn(f, v) ==
    SeverityOf[f] \in v.severities /\ page[f] \in v.states /\ AgentOf[f] \in v.agents

\* The rows; a deep link's finding is among them whatever the filters say.
OnPage(v) == {f \in Findings : f \in v.focus \/ ShownIn(f, v)}

\* The severity bar counts past the severity filter.
ScopeOf(v) == {f \in Findings : page[f] \in v.states /\ AgentOf[f] \in v.agents}
SeverityCount(v, s) == Cardinality({f \in ScopeOf(v) : SeverityOf[f] = s})

\* hrefWith() for a segment of the bar: a second click asks for all, which hrefWith
\* writes by leaving the parameter out, as it does with a state of "all".
SeverityLink(v, s) ==
    [v EXCEPT !.severities = IF @ = {s} THEN {} ELSE {s},
              !.states = IF @ = States THEN {} ELSE @, !.focus = {}]

\* The bar of the page of the review: over all findings, to the findings page, with
\* nothing but the severity.
OverviewCount(s) == Cardinality({f \in Findings : SeverityOf[f] = s})
OverviewLink(s) == [severities |-> {s}, states |-> {}, agents |-> Agents, focus |-> {}]

\* How many of some rows a file has of a severity.
FileCount(rows, g, s) == Cardinality({f \in rows : FileOf[f] = g /\ SeverityOf[f] = s})

\* Which of two files stands first: the one with more at the first severity at which they
\* differ, or else the one with the smaller name.
Worse(rows, g, h) ==
    \/ \E s \in 0 .. 4 : /\ FileCount(rows, g, s) > FileCount(rows, h, s)
                         /\ \A t \in 0 .. s - 1 : FileCount(rows, g, t) = FileCount(rows, h, t)
    \/ g < h /\ \A s \in 0 .. 4 : FileCount(rows, g, s) = FileCount(rows, h, s)

\* groupFindingsByFile(): one group for each file, worst first.
FileGroups(rows) ==
    LET files == {FileOf[f] : f \in rows}
    IN  Sorted([g \in files |-> {h \in files : Worse(rows, h, g)}])

\* Which groups stand open before the operator has toggled any.
OpenGroups(v) ==
    LET groups == FileGroups(OnPage(v))
    IN  {groups[i] : i \in {i \in DOMAIN groups :
            i <= InitiallyOpen \/ \E f \in v.focus : FileOf[f] = groups[i]}}

-----------------------------------------------------------------------------
(* Toasts.                                                                 *)

\* Mutant: an equal message is counted on the toast below, undo or not.
CollapseAlways(old, message, undo) == old # <<>> /\ Last(old).message = message

\* Whether a message is counted on the newest toast instead of stacked.
Collapses(old, message, undo) ==
    old # <<>> /\ Last(old).message = message /\ Last(old).undo = {} /\ undo = {}

\* The toasts after one more.
StackToast(old, message, undo, token) ==
    IF Collapses(old, message, undo)
    THEN Append(Front(old), [Last(old) EXCEPT !.count = @ + 1, !.token = token])
    ELSE LET longer == Append(old, [message |-> message, count |-> 1, token |-> token, undo |-> undo])
         IN  IF Len(longer) > ToastLimit THEN Tail(longer) ELSE longer

\* What toasts say (a bulk action's counts what it changed).
Messages == {"finding dismissed", "finding reopened", "undone", "deep link copied", "failed",
             "dismiss", "reopen"}

TokensOf(shown) == {shown[i].token : i \in DOMAIN shown}

\* toast(): the new one has a timer of its own.  A timer whose token has left the
\* screen fires without effect and is left out.
Tell(old, message, undo) ==
    /\ issued < MaxToasts
    /\ toasts' = StackToast(old, message, undo, issued + 1)
    /\ timers' = (timers \cup {issued + 1}) \cap TokensOf(toasts')
    /\ issued' = issued + 1
    /\ taken' = FALSE

Remaining(gone) == Selected(toasts, {i \in DOMAIN toasts : toasts[i].token \notin gone})

\* The operator takes toasts away.
TakeAway(gone) ==
    /\ toasts' = Remaining(gone)
    /\ timers' = timers \ gone
    /\ taken' = (taken \/ issued \in gone)
    /\ UNCHANGED issued

\* A timer fires: it removes the toast that still has its token, if any.
Expire(token) ==
    /\ token \in timers
    /\ timers' = timers \ {token}
    /\ toasts' = Remaining({token})
    /\ answered' = {}
    /\ UNCHANGED <<server, page, view, sent, issued, calls, outdated, taken>>

\* Escape
ClearToasts ==
    /\ toasts # <<>>
    /\ TakeAway(TokensOf(toasts))
    /\ answered' = {}
    /\ UNCHANGED <<server, page, view, sent, calls, outdated>>

\* copyLink(), whether or not the clipboard took it.
CopyLink ==
    /\ OnPage(view) # {}
    /\ Tell(toasts, "deep link copied", {})
    /\ answered' = {}
    /\ UNCHANGED <<server, page, view, sent, calls, outdated>>

-----------------------------------------------------------------------------
(* Calls.                                                                  *)

Call(action, bulk, scope, confirmed, query) ==
    [action |-> action, bulk |-> bulk, scope |-> scope, confirmed |-> confirmed,
     valid |-> ~bulk \/ query.severities # {}, stated |-> query.states # {},
     current |-> sent = <<>> /\ outdated = {}]

One(action, f) == Call(action, FALSE, {f}, 1, view)

Send(new) ==
    /\ calls + Len(new) <= MaxCalls
    /\ calls' = calls + Len(new)
    /\ sent' = sent \o new
    /\ answered' = {}

\* x or the button of an open row, r or the button of a dismissed one.  The keys do
\* not ask whether the row has a call under way.
TriageRow(f) ==
    /\ f \in OnPage(view)
    /\ Send(<<One(IF page[f] = "open" THEN "dismiss" ELSE "reopen", f)>>)
    /\ UNCHANGED <<server, page, view, toasts, timers, issued, outdated, taken>>

\* run() of the bulk bar, confirmed.  The filter goes without the state and without
\* the deep link, the question names the rows on the page.  Without a severity in the
\* query the filter asks for the severities [null], which the server refuses.
TriageAll(action) ==
    LET rows == OnPage(view)
    IN  /\ rows # {} /\ \A i \in DOMAIN sent : ~sent[i].bulk
        /\ view.states # {IF action = "dismiss" THEN "dismissed" ELSE "open"}
        /\ Send(<<Call(action, TRUE,
                       {f \in Findings : SeverityOf[f] \in view.severities /\ AgentOf[f] \in view.agents},
                       Cardinality(rows), view)>>)
        /\ UNCHANGED <<server, page, view, toasts, timers, issued, outdated, taken>>

Offers == {i \in DOMAIN toasts : toasts[i].undo # {}}

Undoing(i) == One("reopen", CHOOSE f \in toasts[i].undo : TRUE)

\* The undo of one toast: by its button, or by u, which takes the newest.
UndoToast(i) ==
    /\ Send(<<Undoing(i)>>)
    /\ TakeAway({toasts[i].token})
    /\ UNCHANGED <<server, page, view, outdated>>

\* shift+u: every undo, newest first, told before any of them is answered.
UndoAll ==
    /\ Offers # {}
    /\ LET n == Cardinality(Offers)
       IN  Send([k \in 1 .. n |-> Undoing(Ascending(Offers)[n + 1 - k])])
    /\ Tell(Remaining({toasts[i].token : i \in Offers}), "undone", {})
    /\ UNCHANGED <<server, page, view, outdated>>

-----------------------------------------------------------------------------
(* Answers.                                                                *)

Target(call) == IF call.action = "dismiss" THEN "dismissed" ELSE "open"

\* What the store changes.
Changes(call) == {f \in call.scope : server[f] # Target(call)}

\* findingAction() and bulkFindingAction() of the store.
CarriedOut(call) == [f \in Findings |-> IF f \in call.scope THEN Target(call) ELSE server[f]]

\* What POST .../findings/bulk answers with.
BulkReply(call) == [matched |-> Cardinality(call.scope), changed |-> Changes(call)]

\* The answer brings the page as the server has it now.
Render ==
    /\ page' = server'
    /\ outdated' = {}

\* The toast of an answered call.  The bulk bar tells of the answer's `updated',
\* when it has one.
Report(call) ==
    CASE ~call.bulk /\ call.action = "dismiss" -> Tell(toasts, "finding dismissed", call.scope)
      [] ~call.bulk /\ call.action = "reopen" -> Tell(toasts, "finding reopened", {})
      [] call.bulk /\ "updated" \in DOMAIN BulkReply(call) -> Tell(toasts, call.action, call.scope)
      [] call.bulk /\ "updated" \notin DOMAIN BulkReply(call) -> UNCHANGED <<toasts, timers, issued, taken>>

\* The call is carried out and answered.
Succeed ==
    /\ sent # <<>> /\ Head(sent).valid
    /\ server' = CarriedOut(Head(sent))
    /\ Render
    /\ Report(Head(sent))
    /\ answered' = {[call |-> Head(sent), changed |-> Changes(Head(sent))]}
    /\ sent' = Tail(sent)
    /\ UNCHANGED <<view, calls>>

\* The call is refused, or carried out and its answer lost: revalidatePath is not
\* reached.  What is told is the body of the answer; an empty one makes no toast.
Fall ==
    /\ sent # <<>>
    /\ server' \in {server} \cup {CarriedOut(c) : c \in {c \in {Head(sent)} : c.valid}}
    /\ Tell(toasts, "failed", {}) \/ UNCHANGED <<toasts, timers, issued, taken>>
    /\ outdated' = outdated \cup {"failure"}
    /\ sent' = Tail(sent)
    /\ answered' = {}
    /\ UNCHANGED <<page, view, calls>>

\* A link, a reload, or back: the page is rendered for another query.
Visit(v) ==
    /\ view' = v
    /\ UNCHANGED server
    /\ Render
    /\ answered' = {}
    /\ UNCHANGED <<sent, toasts, timers, issued, calls, taken>>

\* Somebody else acts on a finding, once between two renderings.
Colleague(f) ==
    /\ "colleague" \notin outdated
    /\ server' = [server EXCEPT ![f] = IF @ = "open" THEN "dismissed" ELSE "open"]
    /\ outdated' = outdated \cup {"colleague"}
    /\ sent' = [i \in DOMAIN sent |-> [sent[i] EXCEPT !.current = FALSE]]
    /\ answered' = {}
    /\ UNCHANGED <<page, view, toasts, timers, issued, calls, taken>>

DeskNext ==
    \/ \E f \in Findings : TriageRow(f) \/ Colleague(f)
    \/ \E action \in {"dismiss", "reopen"} : TriageAll(action)
    \/ \E i \in Offers : UndoToast(i)
    \/ \E token \in timers : Expire(token)
    \/ \E v \in Views : Visit(v)
    \/ UndoAll \/ ClearToasts \/ CopyLink \/ Succeed \/ Fall

DeskSpec == DeskInit /\ [][DeskNext]_deskVars

-----------------------------------------------------------------------------
(* Properties                                                              *)

DeskTypes ==
    /\ server \in [Findings -> States] /\ page \in [Findings -> States] /\ view \in Views
    /\ timers \subseteq 1 .. issued /\ issued \in 0 .. MaxToasts /\ calls \in 0 .. MaxCalls
    /\ Len(sent) <= calls /\ Len(toasts) <= ToastLimit
    /\ \A i \in DOMAIN toasts : /\ toasts[i].undo \subseteq Findings /\ toasts[i].count \in Nat \ {0}
                                /\ toasts[i].message \in Messages
    /\ outdated \subseteq {"colleague", "failure"} /\ taken \in BOOLEAN

\* No toast stays for ever: the timer of its token runs.  The newest message stays
\* until its timer fires, unless the operator takes it away.  And a dismissal that
\* was carried out is told with an undo of its own finding, also when the finding
\* before it was told in the same words.
ToastsTell ==
    /\ \A i \in DOMAIN toasts : toasts[i].token \in timers
    /\ issued \in timers /\ ~taken => toasts # <<>> /\ Last(toasts).token = issued
    /\ \A a \in answered : ~a.call.bulk /\ a.call.action = "dismiss" => Last(toasts).undo = a.call.scope

\* The page is what the server has unless somebody else acted or a call of the
\* operator failed since it was rendered.
PageAgrees == outdated = {} => page = server

\* A bulk action that was confirmed on a page that was current, for a query that names
\* a state, changes no more findings than the question named, whatever the other filters
\* and the deep link.  (Without a state the page has the deep link's row alone, and the
\* call is for all that its other filters let through.)
ConfirmationHolds ==
    \A a \in answered :
        a.call.bulk /\ a.call.current /\ a.call.stated => Cardinality(a.changed) <= a.call.confirmed

\* On a page for v, the number at a severity is the number of rows behind its link,
\* unless the page is filtered by that severity or asks for all states (a link loses that
\* and shows nothing); a deep link's row is on the page in an open group; and no group
\* stands before one with a worse finding.
LeadsFrom(v) ==
    LET groups == FileGroups(OnPage(v))
        Worst(i) == Min({SeverityOf[f] : f \in {f \in OnPage(v) : FileOf[f] = groups[i]}})
    IN  /\ \A s \in 0 .. 4 : v.states # States /\ v.severities # {s} =>
               Cardinality(OnPage(SeverityLink(v, s))) = SeverityCount(v, s)
        /\ \A f \in v.focus : f \in OnPage(v) /\ FileOf[f] \in OpenGroups(v)
        /\ \A i, j \in DOMAIN groups : i <= j => Worst(i) <= Worst(j)

\* So it is on the page that the operator is on.
LinksLead == LeadsFrom(view)

\* What the operator is told and shown is so.
DeskIsTrue == ToastsTell /\ PageAgrees /\ ConfirmationHolds /\ LinksLead
=============================================================================
