------------------------- MODULE Dashboard_proofs --------------------------
(***************************************************************************)
(* What the operators of the dashboard are shown and told, for any         *)
(* findings, reviews, filters and limits, while colleagues triage and      *)
(* reviews go on.                                                          *)
(*                                                                         *)
(* The desk: what a toast says is kept by where it stands: the newest is   *)
(* the last, and the undo of a dismissal that was answered stands on it    *)
(* (ToastsInv), so it is neither counted up nor pushed out by its own      *)
(* message.  A bulk action changes no more than was confirmed because it   *)
(* is the next to be carried out whenever the page was right (SentInv).    *)
(* What the page links to holds in every view (LinksHold).                 *)
(*                                                                         *)
(* The browser: a list that is rendered can be read back from its address  *)
(* (ListReadBack), the sums of the report add up (SlaHolds), and the       *)
(* newest reviews are apart (RecentTells).  What remains to be kept, click *)
(* by click, is small (BrowserInv): where the palette's cursor stands in   *)
(* what it finds, and that a link kept its word when it was followed.      *)
(***************************************************************************)
EXTENDS TriageDesk, ReviewBrowser, Findings_proofs

-----------------------------------------------------------------------------
(* The desk: toasts and calls.                                             *)

Toast == [message : Messages, count : Nat \ {0}, token : Nat, undo : SUBSET Findings]

CallSent == [action : {"dismiss", "reopen"}, bulk : BOOLEAN, scope : SUBSET Findings, confirmed : Nat,
             valid : BOOLEAN, stated : BOOLEAN, current : BOOLEAN]

DeskTyped ==
    /\ server \in [Findings -> States] /\ page \in [Findings -> States] /\ view \in Views
    /\ timers \subseteq 1 .. issued /\ issued \in 0 .. MaxToasts /\ calls \in 0 .. MaxCalls
    /\ sent \in Seq(CallSent) /\ Len(sent) <= calls
    /\ toasts \in Seq(Toast) /\ Len(toasts) <= ToastLimit
    /\ outdated \subseteq {"colleague", "failure"} /\ taken \in BOOLEAN

\* No toast is without its timer; the newest message is the last toast unless its timer
\* has fired or it was taken away; the undo of a dismissal that was answered stands on it.
ToastsInv ==
    /\ TokensOf(toasts) \subseteq timers
    /\ issued \in timers /\ ~taken => toasts # <<>> /\ Last(toasts).token = issued
    /\ \A a \in answered : ~a.call.bulk /\ a.call.action = "dismiss" =>
           toasts # <<>> /\ Last(toasts).undo = a.call.scope

\* A row's call is for its finding.  A bulk action that was asked for on a page as the
\* server has it is the next to be carried out, and changes nothing but rows on that page.
SentInv ==
    \A i \in DOMAIN sent :
        /\ ~sent[i].bulk => \E f \in Findings : sent[i].scope = {f}
        /\ sent[i].bulk /\ sent[i].current =>
               i = 1 /\ (sent[i].stated => Cardinality(Changes(sent[i])) <= sent[i].confirmed)

\* A view is made of parameters.
LEMMA ViewTyped ==
    ASSUME NEW v \in Views
    PROVE  /\ v \in [severities : Parameter(0 .. 4), states : Parameter(States),
                     agents : Parameter(Agents), focus : {{}} \cup {{f} : f \in Findings}]
           /\ v.severities \subseteq 0 .. 4 /\ v.states \subseteq States /\ v.focus \subseteq Findings
BY TriageDeskAssumption DEF Parameter

\* What one more toast makes of those on the screen.
Stacked(new, old, undo, token) ==
    /\ new \in Seq(Toast) /\ new # <<>> /\ Len(new) <= ToastLimit
    /\ TokensOf(new) \subseteq TokensOf(old) \cup {token}
    /\ Last(new).token = token
    /\ undo # {} => Last(new).undo = undo

\* A message that is repeated counts up the last toast; any other is stacked, and the oldest goes.
LEMMA StackTells ==
    ASSUME NEW old \in Seq(Toast), Len(old) <= ToastLimit, NEW message \in Messages,
           NEW undo \in SUBSET Findings, NEW token \in Nat
    PROVE  Stacked(StackToast(old, message, undo, token), old, undo, token)
<1> DEFINE t == [message |-> message, count |-> 1, token |-> token, undo |-> undo]
           longer == Append(old, t)
           repeated == [Last(old) EXCEPT !.count = @ + 1, !.token = token]
<1>0. t \in Toast /\ ToastLimit \in Nat \ {0} /\ t.token = token /\ t.undo = undo
  BY TriageDeskAssumption DEF Toast
<1>1. CASE Collapses(old, message, undo)
  <2>1. old # <<>> /\ undo = {} /\ StackToast(old, message, undo, token) = Append(Front(old), repeated)
    BY <1>1 DEF StackToast, Collapses
  <2>2. Len(old) \in Nat \ {0} /\ Last(old) = old[Len(old)] /\ old[Len(old)] \in Toast
    BY <2>1 DEF Last
  <2>3. repeated \in Toast /\ repeated.token = token
    <3> DEFINE top == old[Len(old)]
               c == top.count + 1
    <3>1. top \in Toast /\ repeated = [top EXCEPT !.count = c, !.token = token]
      BY <2>2
    <3>2. c \in Nat \ {0}
      BY <3>1 DEF Toast
    <3> HIDE DEF top, c
    <3> QED
      BY <3>1, <3>2 DEF Toast
  <2>4. /\ Front(old) \in Seq(Toast) /\ Len(Front(old)) = Len(old) - 1
        /\ \A i \in 1 .. Len(old) - 1 : Front(old)[i] = old[i]
    <3> DEFINE m == Len(old) - 1
    <3>1. m \in Nat /\ \A i \in 1 .. m : old[i] \in Toast
      BY <2>2
    <3>2. Front(old) = SubSeq(old, 1, m)
      BY DEF Front
    <3> HIDE DEF m
    <3>3. /\ SubSeq(old, 1, m) \in Seq(Toast) /\ Len(SubSeq(old, 1, m)) = m
          /\ \A i \in 1 .. m : SubSeq(old, 1, m)[i] = old[i]
      BY <3>1, SubSeqProperties
    <3> QED
      BY <3>2, <3>3 DEF m
  <2> HIDE DEF repeated
  <2>5. /\ Append(Front(old), repeated) \in Seq(Toast) /\ Len(Append(Front(old), repeated)) = Len(old)
        /\ \A i \in 1 .. Len(old) - 1 : Append(Front(old), repeated)[i] = old[i]
        /\ Append(Front(old), repeated)[Len(old)] = repeated
    BY <2>2, <2>3, <2>4
  <2>6. TokensOf(Append(Front(old), repeated)) \subseteq TokensOf(old) \cup {token}
    BY <2>2, <2>3, <2>5 DEF TokensOf
  <2>7. Last(Append(Front(old), repeated)) = repeated
    BY <2>2, <2>5 DEF Last
  <2> QED
    <3> DEFINE new == Append(Front(old), repeated)
    <3>1. StackToast(old, message, undo, token) = new /\ undo = {}
      BY <2>1
    <3>2. new \in Seq(Toast) /\ Len(new) = Len(old) /\ TokensOf(new) \subseteq TokensOf(old) \cup {token}
      BY <2>5, <2>6
    <3>3. Last(new).token = token
      BY <2>3, <2>7
    <3> HIDE DEF new
    <3> QED
      BY <2>2, <3>1, <3>2, <3>3 DEF Stacked
<1>2. CASE ~Collapses(old, message, undo)
  <2>1. StackToast(old, message, undo, token) = IF Len(longer) > ToastLimit THEN Tail(longer) ELSE longer
    BY <1>2 DEF StackToast
  <2> HIDE DEF t
  <2>2. /\ longer \in Seq(Toast) /\ Len(longer) = Len(old) + 1 /\ Len(old) \in Nat
        /\ \A i \in 1 .. Len(old) : longer[i] = old[i]
        /\ longer[Len(old) + 1] = t
    BY <1>0
  <2> HIDE DEF longer
  <2>3. /\ TokensOf(longer) \subseteq TokensOf(old) \cup {token}
        /\ Last(longer) = t
    BY <1>0, <2>2 DEF TokensOf, Last
  <2>4. CASE Len(longer) > ToastLimit
    <3>1. /\ Tail(longer) \in Seq(Toast) /\ Len(Tail(longer)) = Len(old) /\ Len(old) = ToastLimit
          /\ \A i \in 1 .. Len(old) : Tail(longer)[i] = longer[i + 1]
      BY <1>0, <2>2, <2>4
    <3>2. Last(Tail(longer)) = t
      BY <1>0, <2>2, <3>1 DEF Last
    <3>3. TokensOf(Tail(longer)) \subseteq TokensOf(longer)
      BY <2>2, <3>1 DEF TokensOf
    <3>4. StackToast(old, message, undo, token) = Tail(longer)
      BY <2>1, <2>4
    <3>5. Len(Tail(longer)) = ToastLimit /\ Tail(longer) # <<>> /\ t.token = token /\ t.undo = undo
      BY <1>0, <3>1 DEF t
    <3> DEFINE new == Tail(longer)
    <3>6. new \in Seq(Toast) /\ Len(new) = ToastLimit /\ new # <<>> /\ Last(new) = t
      BY <3>1, <3>2, <3>5
    <3>7. TokensOf(new) \subseteq TokensOf(old) \cup {token}
      BY <2>3, <3>3
    <3> HIDE DEF new
    <3> QED
      BY <1>0, <3>4, <3>5, <3>6, <3>7 DEF Stacked, new
  <2>5. CASE ~(Len(longer) > ToastLimit)
    BY <1>0, <2>1, <2>2, <2>3, <2>5 DEF Stacked
  <2> QED
    BY <2>4, <2>5
<1> QED
  BY <1>1, <1>2

\* What the screen is after a toast with an undo.
ToldWith(undo) ==
    /\ toasts' \in Seq(Toast) /\ toasts' # <<>> /\ Len(toasts') <= ToastLimit
    /\ issued' \in 0 .. MaxToasts /\ timers' \subseteq 1 .. issued' /\ taken' = FALSE
    /\ TokensOf(toasts') \subseteq timers'
    /\ Last(toasts').token = issued'
    /\ undo # {} => Last(toasts').undo = undo

\* What toast() does: to the old toasts, whichever of those on the screen they are.
LEMMA TellTells ==
    ASSUME NEW old \in Seq(Toast), Len(old) <= ToastLimit, NEW message \in Messages,
           NEW undo \in SUBSET Findings, DeskTyped, TokensOf(old) \subseteq timers,
           Tell(old, message, undo)
    PROVE  ToldWith(undo)
<1>1. /\ issued \in Nat /\ MaxToasts \in Nat /\ issued < MaxToasts /\ timers \subseteq 1 .. issued
      /\ toasts' = StackToast(old, message, undo, issued + 1)
      /\ timers' = (timers \cup {issued + 1}) \cap TokensOf(toasts')
      /\ issued' = issued + 1 /\ taken' = FALSE
  BY TriageDeskAssumption DEF Tell, DeskTyped
<1> DEFINE token == issued + 1
           new == StackToast(old, message, undo, token)
<1>0. /\ old \in Seq(Toast) /\ Len(old) <= ToastLimit /\ message \in Messages
      /\ undo \in SUBSET Findings
  OBVIOUS
<1>2. token \in Nat /\ toasts' = new
  BY <1>1
<1> HIDE DEF token
<1>3. Stacked(new, old, undo, token)
  BY <1>0, <1>2, StackTells
<1> HIDE DEF new
<1>4. TokensOf(toasts') \subseteq timers \cup {token}
  BY <1>0, <1>2, <1>3 DEF Stacked
<1>5. timers' = TokensOf(toasts') /\ timers' \subseteq 1 .. issued' /\ issued' \in 0 .. MaxToasts
  <2>1. timers' = TokensOf(toasts')
    BY <1>1, <1>4 DEF token
  <2>2. \A x \in timers' : x \in 1 .. issued + 1
    BY <1>1
  <2>3. timers' \subseteq 1 .. issued'
    BY <1>1, <2>2
  <2>4. issued' \in 0 .. MaxToasts
    BY <1>1
  <2> QED
    BY <2>1, <2>3, <2>4
<1>6. Last(toasts').token = issued'
  BY <1>1, <1>2, <1>3 DEF token, Stacked
<1> QED
  BY <1>1, <1>2, <1>3, <1>5, <1>6 DEF Stacked, ToldWith

\* Toasts that go leave the others, and the last one is the last if it stays.
LEMMA RemainingTells ==
    ASSUME toasts \in Seq(Toast), NEW gone
    PROVE  /\ Remaining(gone) \in Seq(Toast) /\ Len(Remaining(gone)) <= Len(toasts)
           /\ TokensOf(Remaining(gone)) \subseteq TokensOf(toasts) \ gone
           /\ toasts # <<>> /\ Last(toasts).token \notin gone =>
                  Remaining(gone) # <<>> /\ Last(Remaining(gone)) = Last(toasts)
<1> DEFINE P == {i \in DOMAIN toasts : toasts[i].token \notin gone}
           R == Selected(toasts, P)
           n == Cardinality(P)
<1>0. Remaining(gone) = R
  BY DEF Remaining
<1>1. P \in SUBSET DOMAIN toasts /\ DOMAIN toasts = 1 .. Len(toasts) /\ Len(toasts) \in Nat
  OBVIOUS
<1>2. \A i \in P : toasts[i].token \in TokensOf(toasts) \ gone
  BY DEF TokensOf
<1>3. Len(toasts) \in DOMAIN toasts /\ toasts[Len(toasts)].token \notin gone => Len(toasts) \in P
  OBVIOUS
<1> HIDE DEF P
<1>4. /\ n \in Nat /\ IsFiniteSet(P)
      /\ R \in Seq(Toast) /\ Len(R) = n
      /\ Ascending(P) \in Bijection(1 .. n, P)
      /\ \A j, k \in 1 .. n : j < k <=> Ascending(P)[j] < Ascending(P)[k]
      /\ \A k \in 1 .. n : R[k] = toasts[Ascending(P)[k]]
      /\ \A k \in 1 .. n : Ascending(P)[k] \in P
  BY <1>1, SelectedTells
<1>5. n <= Len(toasts)
  BY <1>1, UpToCount, FS_Subset
<1>6. TokensOf(R) \subseteq TokensOf(toasts) \ gone
  <2>1. \A k \in 1 .. n : R[k].token \in TokensOf(toasts) \ gone
    BY <1>2, <1>4
  <2> QED
    BY <1>4, <2>1 DEF TokensOf
<1>7. ASSUME toasts # <<>>, Last(toasts).token \notin gone
      PROVE  R # <<>> /\ Last(R) = Last(toasts)
  <2>1. Len(toasts) \in P
    BY <1>1, <1>3, <1>7 DEF Last
  <2>2. PICK k \in 1 .. n : Ascending(P)[k] = Len(toasts)
    BY <1>4, <2>1 DEF Bijection, Surjection
  <2>3. Ascending(P)[n] \in 1 .. Len(toasts) /\ n \in 1 .. n
    BY <1>1, <1>4, <2>2
  <2>4. k = n
    BY <1>1, <1>4, <2>2, <2>3
  <2>5. R[n] = toasts[Len(toasts)]
    BY <1>4, <2>2, <2>4
  <2> QED
    BY <1>4, <2>3, <2>5 DEF Last
<1> QED
  BY <1>0, <1>4, <1>5, <1>6, <1>7

\* What a row asks for, and a bulk action.
LEMMA OneTyped ==
    ASSUME DeskTyped, NEW f \in Findings, NEW action \in {"dismiss", "reopen"}
    PROVE  One(action, f) \in CallSent /\ One(action, f).bulk = FALSE /\ One(action, f).scope = {f}
BY DEF One, Call, CallSent

\* The undo of a toast asks to reopen a finding of it.
LEMMA UndoTyped ==
    ASSUME DeskTyped, NEW i \in Offers
    PROVE  /\ Undoing(i) \in CallSent /\ Undoing(i).bulk = FALSE
           /\ \E f \in Findings : Undoing(i).scope = {f}
<1> DEFINE f == CHOOSE f \in toasts[i].undo : TRUE
<1>1. toasts[i] \in Toast /\ toasts[i].undo # {}
  BY DEF DeskTyped, Offers
<1>2. f \in Findings
  BY <1>1 DEF Toast
<1>3. Undoing(i) = One("reopen", f)
  BY DEF Undoing
<1> HIDE DEF f
<1> QED
  BY <1>2, <1>3, OneTyped

\* The calls that undo everything.
LEMMA UndoAllTyped ==
    ASSUME DeskTyped, NEW new,
           new = [k \in 1 .. Cardinality(Offers) |-> Undoing(Ascending(Offers)[Cardinality(Offers) + 1 - k])]
    PROVE  /\ new \in Seq(CallSent)
           /\ \A k \in DOMAIN new : new[k].bulk = FALSE /\ \E f \in Findings : new[k].scope = {f}
<1> DEFINE n == Cardinality(Offers)
<1>1. toasts \in Seq(Toast) /\ Offers \in SUBSET DOMAIN toasts
  BY DEF DeskTyped, Offers
<1>2. n \in Nat /\ \A k \in 1 .. n : Ascending(Offers)[k] \in Offers
  BY <1>1, SelectedTells
<1>3. \A k \in 1 .. n : n + 1 - k \in 1 .. n
  BY <1>2
<1>4. \A k \in 1 .. n : Undoing(Ascending(Offers)[n + 1 - k]) \in CallSent
  BY <1>2, <1>3, UndoTyped
<1>5. \A k \in 1 .. n : /\ Undoing(Ascending(Offers)[n + 1 - k]).bulk = FALSE
                        /\ \E f \in Findings : Undoing(Ascending(Offers)[n + 1 - k]).scope = {f}
  BY <1>2, <1>3, UndoTyped
<1>6. new = [k \in 1 .. n |-> Undoing(Ascending(Offers)[n + 1 - k])]
  OBVIOUS
<1>7. DOMAIN new = 1 .. n /\ \A k \in 1 .. n : new[k] = Undoing(Ascending(Offers)[n + 1 - k])
  BY <1>6
<1> HIDE DEF n
<1>8. new \in Seq(CallSent)
  <2>1. new \in [1 .. n -> CallSent]
    BY <1>4, <1>6
  <2> QED
    BY <1>2, <2>1, SeqDef
<1> QED
  BY <1>5, <1>7, <1>8

\* Calls that are sent stand behind those under way.
LEMMA SendTells ==
    ASSUME DeskTyped, NEW new \in Seq(CallSent), Send(new)
    PROVE  /\ sent' \in Seq(CallSent) /\ Len(sent') = Len(sent) + Len(new) /\ Len(sent') <= calls'
           /\ calls' \in 0 .. MaxCalls
           /\ \A i \in DOMAIN sent' : IF i <= Len(sent) THEN i \in DOMAIN sent /\ sent'[i] = sent[i]
                                       ELSE i - Len(sent) \in DOMAIN new /\ sent'[i] = new[i - Len(sent)]
<1>1. /\ sent \in Seq(CallSent) /\ Len(sent) \in Nat /\ Len(new) \in Nat /\ sent' = sent \o new
      /\ calls \in Nat /\ MaxCalls \in Nat /\ Len(sent) <= calls
      /\ calls' = calls + Len(new) /\ calls + Len(new) <= MaxCalls
  BY TriageDeskAssumption DEF DeskTyped, Send
<1>2. /\ sent' \in Seq(CallSent) /\ Len(sent') = Len(sent) + Len(new)
      /\ \A i \in 1 .. Len(sent) + Len(new) :
            sent'[i] = IF i <= Len(sent) THEN sent[i] ELSE new[i - Len(sent)]
  BY <1>1, ConcatProperties
<1> QED
  BY <1>1, <1>2

\* What a bulk action asks for.
LEMMA BulkTyped ==
    ASSUME DeskTyped, NEW action \in {"dismiss", "reopen"}, TriageAll(action)
    PROVE  \E call \in CallSent :
              /\ Send(<<call>>) /\ call.bulk = TRUE
              /\ call.current => sent = <<>> /\ outdated = {}
              /\ PageAgrees /\ call.current /\ call.stated => Cardinality(Changes(call)) <= call.confirmed
<1> DEFINE rows == OnPage(view)
           scope == {f \in Findings : SeverityOf[f] \in view.severities /\ AgentOf[f] \in view.agents}
           n == Cardinality(rows)
           call == Call(action, TRUE, scope, n, view)
<1>1. IsFiniteSet(rows) /\ rows \subseteq Findings /\ n \in Nat
  <2>1. rows \subseteq Findings /\ IsFiniteSet(Findings)
    BY TriageDeskAssumption DEF OnPage
  <2> QED
    BY <2>1, FS_Subset, FS_CardinalityType
<1>2. /\ Send(<<call>>)
      /\ view.states # {IF action = "dismiss" THEN "dismissed" ELSE "open"}
  BY DEF TriageAll
<1> DEFINE valid == ~TRUE \/ view.severities # {}
           stated == view.states # {}
           current == sent = <<>> /\ outdated = {}
<1>3. /\ call = [action |-> action, bulk |-> TRUE, scope |-> scope, confirmed |-> n,
                 valid |-> valid, stated |-> stated, current |-> current]
      /\ valid \in BOOLEAN /\ stated \in BOOLEAN /\ current \in BOOLEAN
  BY DEF Call
<1>9. (stated => view.states # {}) /\ (current => sent = <<>> /\ outdated = {})
  OBVIOUS
<1>4. scope \in SUBSET Findings
  OBVIOUS
<1> HIDE DEF scope, n, valid, stated, current, call
<1>5. call \in CallSent /\ call.bulk = TRUE /\ call.scope = scope /\ call.confirmed = n /\ call.action = action
  BY <1>1, <1>3, <1>4 DEF CallSent
<1>6. call.current => sent = <<>> /\ outdated = {}
  BY <1>3, <1>9
<1>7. call.stated => view.states # {}
  BY <1>3, <1>9
<1>8. ASSUME PageAgrees, call.current, call.stated
      PROVE  Cardinality(Changes(call)) <= call.confirmed
  <2>1. page = server /\ view.states # {} /\ view.states \subseteq States
    BY <1>6, <1>7, <1>8, ViewTyped DEF PageAgrees, DeskTyped
  <2>2. ASSUME NEW f \in Changes(call)
        PROVE  f \in rows
    <3>1. f \in scope /\ page[f] # (IF action = "dismiss" THEN "dismissed" ELSE "open")
      BY <1>5, <2>1, <2>2 DEF Changes, Target
    <3>2. f \in Findings /\ SeverityOf[f] \in view.severities /\ AgentOf[f] \in view.agents
      BY <3>1 DEF scope
    <3>3. page[f] \in view.states
      BY <1>2, <2>1, <3>1, <3>2 DEF States, DeskTyped
    <3> QED
      BY <3>2, <3>3 DEF OnPage, ShownIn
  <2>3. Cardinality(Changes(call)) <= n
    BY <1>1, <2>2, FS_Subset DEF n
  <2> QED
    BY <1>5, <2>3
<1> QED
  BY <1>2, <1>5, <1>6, <1>8

-----------------------------------------------------------------------------
(* The desk: what holds at all times.                                      *)

\* The inductive invariant.
DeskInv == DeskTyped /\ ToastsInv /\ SentInv /\ PageAgrees /\ ConfirmationHolds

\* A page that has just been opened, without calls and toasts.
LEMMA InitDesk == DeskInit => DeskInv
<1> SUFFICES ASSUME DeskInit
             PROVE  DeskInv
  OBVIOUS
<1>1. view \in Views
  BY TriageDeskAssumption DEF DeskInit
<1>2. server \in [Findings -> States] /\ page \in [Findings -> States] /\ page = server
  BY DEF DeskInit, States
<1>3. /\ sent = <<>> /\ toasts = <<>> /\ timers = {} /\ issued = 0 /\ calls = 0
      /\ outdated = {} /\ answered = {} /\ taken = FALSE
  BY DEF DeskInit
<1>4. DeskTyped
  <2>1. sent \in Seq(CallSent) /\ Len(sent) = 0 /\ toasts \in Seq(Toast) /\ Len(toasts) = 0
    BY <1>3
  <2>2. issued \in 0 .. MaxToasts /\ calls \in 0 .. MaxCalls /\ Len(toasts) <= ToastLimit /\ Len(sent) <= calls
    BY <1>3, <2>1, TriageDeskAssumption
  <2>3. timers \subseteq 1 .. issued /\ outdated \subseteq {"colleague", "failure"} /\ taken \in BOOLEAN
    BY <1>3
  <2> QED
    BY <1>1, <1>2, <2>1, <2>2, <2>3 DEF DeskTyped
<1>5. ToastsInv
  BY <1>3 DEF ToastsInv, TokensOf
<1> QED
  BY <1>2, <1>3, <1>4, <1>5 DEF DeskInv, SentInv, PageAgrees, ConfirmationHolds

\* The three ways in which a step touches the toasts: one more, some fewer, or not at all.
ToastsFit ==
    /\ toasts' \in Seq(Toast) /\ Len(toasts') <= ToastLimit
    /\ issued' \in 0 .. MaxToasts /\ timers' \subseteq 1 .. issued' /\ taken' \in BOOLEAN
    /\ TokensOf(toasts') \subseteq timers'
    /\ issued' \in timers' /\ ~taken' => toasts' # <<>> /\ Last(toasts').token = issued'

\* A message is stacked, and its timer starts.
LEMMA TellFits ==
    ASSUME DeskInv, NEW old \in Seq(Toast), Len(old) <= ToastLimit, TokensOf(old) \subseteq timers,
           NEW message \in Messages, NEW undo \in SUBSET Findings, Tell(old, message, undo)
    PROVE  ToastsFit
<1>1. ToldWith(undo)
  BY TellTells DEF DeskInv
<1> QED
  BY <1>1 DEF ToldWith, ToastsFit

\* What the page says, with and without an undo.
ToldSo(old, message, undo) == \E m \in Messages, u \in SUBSET Findings : m = message /\ u = undo /\ Tell(old, m, u)

\* So is whatever an action tells.
LEMMA ToldSoFits ==
    ASSUME DeskInv, NEW old \in Seq(Toast), Len(old) <= ToastLimit, TokensOf(old) \subseteq timers,
           NEW message, NEW undo, ToldSo(old, message, undo)
    PROVE  ToastsFit
<1>1. PICK m \in Messages, u \in SUBSET Findings : Tell(old, m, u)
  BY DEF ToldSo
<1> QED
  BY <1>1, TellFits

\* The toasts on the screen have their timers.
LEMMA ToastsThere ==
    ASSUME DeskInv
    PROVE  toasts \in Seq(Toast) /\ Len(toasts) <= ToastLimit /\ TokensOf(toasts) \subseteq timers
BY DEF DeskInv, DeskTyped, ToastsInv

\* Toasts that are taken away take their timers along.
LEMMA TakeAwayFits ==
    ASSUME DeskInv, NEW gone, TakeAway(gone)
    PROVE  ToastsFit
<1>1. /\ toasts \in Seq(Toast) /\ Len(toasts) \in Nat /\ Len(toasts) <= ToastLimit
      /\ TokensOf(toasts) \subseteq timers
      /\ timers \subseteq 1 .. issued /\ issued \in 0 .. MaxToasts /\ taken \in BOOLEAN
      /\ issued \in timers /\ ~taken => toasts # <<>> /\ Last(toasts).token = issued
      /\ ToastLimit \in Nat
  BY TriageDeskAssumption DEF DeskInv, DeskTyped, ToastsInv
<1>2. /\ toasts' = Remaining(gone) /\ timers' = timers \ gone /\ issued' = issued
      /\ taken' = (taken \/ issued \in gone)
  BY DEF TakeAway
<1>3. /\ toasts' \in Seq(Toast) /\ Len(toasts') <= Len(toasts)
      /\ TokensOf(toasts') \subseteq TokensOf(toasts) \ gone
      /\ toasts # <<>> /\ Last(toasts).token \notin gone =>
             toasts' # <<>> /\ Last(toasts') = Last(toasts)
  BY <1>1, <1>2, RemainingTells
<1>4. Len(toasts') <= ToastLimit
  BY <1>1, <1>3
<1>5. issued' \in timers' /\ ~taken' => toasts' # <<>> /\ Last(toasts').token = issued'
  BY <1>1, <1>2, <1>3
<1> QED
  BY <1>1, <1>2, <1>3, <1>4, <1>5 DEF ToastsFit

\* The timer of a toast fires.
LEMMA ExpireFits ==
    ASSUME DeskInv, NEW token, Expire(token)
    PROVE  ToastsFit
<1>1. /\ toasts \in Seq(Toast) /\ Len(toasts) \in Nat /\ Len(toasts) <= ToastLimit
      /\ TokensOf(toasts) \subseteq timers
      /\ timers \subseteq 1 .. issued /\ issued \in 0 .. MaxToasts /\ taken \in BOOLEAN
      /\ issued \in timers /\ ~taken => toasts # <<>> /\ Last(toasts).token = issued
      /\ ToastLimit \in Nat
  BY TriageDeskAssumption DEF DeskInv, DeskTyped, ToastsInv
<1>2. /\ toasts' = Remaining({token}) /\ timers' = timers \ {token} /\ issued' = issued
      /\ taken' = taken
  BY DEF Expire
<1>3. /\ toasts' \in Seq(Toast) /\ Len(toasts') <= Len(toasts)
      /\ TokensOf(toasts') \subseteq TokensOf(toasts) \ {token}
      /\ toasts # <<>> /\ Last(toasts).token \notin {token} =>
             toasts' # <<>> /\ Last(toasts') = Last(toasts)
  BY <1>1, <1>2, RemainingTells
<1>4. Len(toasts') <= ToastLimit
  BY <1>1, <1>3
<1>5. issued' \in timers' /\ ~taken' => toasts' # <<>> /\ Last(toasts').token = issued'
  BY <1>1, <1>2, <1>3
<1> QED
  BY <1>1, <1>2, <1>3, <1>4, <1>5 DEF ToastsFit

\* Nothing is told.
LEMMA SameToastsFit ==
    ASSUME DeskInv, UNCHANGED <<toasts, timers, issued, taken>>
    PROVE  ToastsFit
BY DEF DeskInv, DeskTyped, ToastsInv, ToastsFit

\* A step that answers nothing keeps all of it if toasts and calls fit and the page is as old
\* as is said.
LEMMA QuietStep ==
    ASSUME DeskInv, ToastsFit, answered' = {},
           server' \in [Findings -> States], page' \in [Findings -> States], view' \in Views,
           sent' \in Seq(CallSent), Len(sent') <= calls', calls' \in 0 .. MaxCalls,
           outdated' \subseteq {"colleague", "failure"}, outdated' = {} => page' = server', SentInv'
    PROVE  DeskInv'
<1>1. DeskTyped'
  BY DEF ToastsFit, DeskTyped
<1>2. ToastsInv'
  BY DEF ToastsFit, ToastsInv
<1> QED
  BY <1>1, <1>2 DEF DeskInv, PageAgrees, ConfirmationHolds

\* Calls of rows may always be sent.
LEMMA RowsSend ==
    ASSUME DeskInv, NEW new \in Seq(CallSent), Send(new), server' = server,
           \A k \in DOMAIN new : new[k].bulk = FALSE /\ \E f \in Findings : new[k].scope = {f}
    PROVE  SentInv'
<1>1. DeskTyped /\ SentInv /\ Len(sent) \in Nat /\ DOMAIN sent = 1 .. Len(sent)
  BY DEF DeskInv, DeskTyped
<1>2. \A i \in DOMAIN sent' : IF i <= Len(sent) THEN i \in DOMAIN sent /\ sent'[i] = sent[i]
                              ELSE i - Len(sent) \in DOMAIN new /\ sent'[i] = new[i - Len(sent)]
  BY <1>1, SendTells
<1>3. ASSUME NEW i \in DOMAIN sent'
      PROVE  /\ ~sent'[i].bulk => \E f \in Findings : sent'[i].scope = {f}
             /\ sent'[i].bulk /\ sent'[i].current =>
                    /\ i = 1
                    /\ sent'[i].stated =>
                           Cardinality({f \in sent'[i].scope : server'[f] # Target(sent'[i])}) <= sent'[i].confirmed
  <2>1. CASE i <= Len(sent)
    <3>1. i \in DOMAIN sent /\ sent'[i] = sent[i]
      BY <1>2, <2>1
    <3> QED
      BY <1>1, <3>1 DEF SentInv, Changes
  <2>2. CASE ~(i <= Len(sent))
    BY <1>2, <2>2
  <2> QED
    BY <2>1, <2>2
<1> QED
  BY <1>3 DEF SentInv, Changes, Target

\* Every step keeps to it, one action after the other.
LEMMA NextDesk == DeskInv /\ [DeskNext]_deskVars => DeskInv'
<1> SUFFICES ASSUME DeskInv, [DeskNext]_deskVars
             PROVE  DeskInv'
  OBVIOUS
<1>0. /\ DeskTyped /\ ToastsInv /\ SentInv /\ PageAgrees
      /\ toasts \in Seq(Toast) /\ Len(toasts) <= ToastLimit /\ TokensOf(toasts) \subseteq timers
      /\ Len(sent) \in Nat /\ DOMAIN sent = 1 .. Len(sent) /\ sent \in Seq(CallSent)
  BY ToastsThere DEF DeskInv, DeskTyped
<1>1. outdated = {} => page = server
  BY <1>0 DEF PageAgrees
\* The page, the server and the calls are as they were.
<1>2. ASSUME ToastsFit, answered' = {}, UNCHANGED <<server, page, view, sent, calls, outdated>>
      PROVE  DeskInv'
  <2>1. SentInv'
    BY <1>0, <1>2 DEF SentInv, Changes, Target
  <2> QED
    BY <1>0, <1>1, <1>2, <2>1, QuietStep DEF DeskTyped
\* Calls of rows are sent.
<1>3. ASSUME NEW new \in Seq(CallSent), Send(new), ToastsFit, UNCHANGED <<server, page, view, outdated>>,
             \A k \in DOMAIN new : new[k].bulk = FALSE /\ \E f \in Findings : new[k].scope = {f}
      PROVE  DeskInv'
  <2>1. SentInv'
    BY <1>3, RowsSend
  <2>2. sent' \in Seq(CallSent) /\ Len(sent') <= calls' /\ calls' \in 0 .. MaxCalls /\ answered' = {}
    BY <1>0, <1>3, SendTells DEF Send
  <2> QED
    BY <1>0, <1>1, <1>3, <2>1, <2>2, QuietStep DEF DeskTyped
<1>4. ASSUME NEW call \in CallSent, call.bulk = FALSE, \E f \in Findings : call.scope = {f}
      PROVE  /\ <<call>> \in Seq(CallSent)
             /\ \A k \in DOMAIN <<call>> : <<call>>[k].bulk = FALSE /\ \E f \in Findings : <<call>>[k].scope = {f}
  BY <1>4
<1>5. ASSUME NEW f \in Findings, TriageRow(f)
      PROVE  DeskInv'
  <2> DEFINE call == One(IF page[f] = "open" THEN "dismiss" ELSE "reopen", f)
  <2>1. Send(<<call>>) /\ UNCHANGED <<server, page, view, toasts, timers, issued, outdated, taken>>
    BY <1>5 DEF TriageRow
  <2>2. call \in CallSent /\ call.bulk = FALSE /\ call.scope = {f}
    BY <1>0, OneTyped
  <2> HIDE DEF call
  <2>3. ToastsFit
    BY <2>1, SameToastsFit
  <2> DEFINE new == <<call>>
  <2>4. new \in Seq(CallSent) /\ \A k \in DOMAIN new : new[k].bulk = FALSE /\ \E g \in Findings : new[k].scope = {g}
    BY <1>4, <2>2
  <2>5. Send(new)
    BY <2>1
  <2> HIDE DEF new
  <2> QED
    BY <1>3, <2>1, <2>3, <2>4, <2>5
<1>6. ASSUME NEW f \in Findings, Colleague(f)
      PROVE  DeskInv'
  <2>1. /\ server' = [server EXCEPT ![f] = IF @ = "open" THEN "dismissed" ELSE "open"]
        /\ outdated' = outdated \cup {"colleague"}
        /\ sent' = [i \in DOMAIN sent |-> [sent[i] EXCEPT !.current = FALSE]]
        /\ answered' = {}
        /\ UNCHANGED <<page, view, toasts, timers, issued, calls, taken>>
    BY <1>6 DEF Colleague
  <2>2. \A i \in DOMAIN sent : /\ [sent[i] EXCEPT !.current = FALSE] \in CallSent
                              /\ [sent[i] EXCEPT !.current = FALSE].bulk = sent[i].bulk
                              /\ [sent[i] EXCEPT !.current = FALSE].scope = sent[i].scope
                              /\ [sent[i] EXCEPT !.current = FALSE].current = FALSE
    <3> SUFFICES ASSUME NEW i \in DOMAIN sent
                 PROVE  /\ [sent[i] EXCEPT !.current = FALSE] \in CallSent
                        /\ [sent[i] EXCEPT !.current = FALSE].bulk = sent[i].bulk
                        /\ [sent[i] EXCEPT !.current = FALSE].scope = sent[i].scope
                        /\ [sent[i] EXCEPT !.current = FALSE].current = FALSE
      OBVIOUS
    <3>1. sent[i] \in CallSent
      BY <1>0
    <3> QED
      BY <3>1 DEF CallSent
  <2>3. /\ sent' \in Seq(CallSent) /\ Len(sent') = Len(sent)
        /\ \A i \in DOMAIN sent' : i \in DOMAIN sent /\ sent'[i] = [sent[i] EXCEPT !.current = FALSE]
    <3>1. sent' \in [1 .. Len(sent) -> CallSent]
      BY <1>0, <2>1, <2>2
    <3>2. sent' \in Seq(CallSent)
      BY <1>0, <3>1, SeqDef
    <3>3. DOMAIN sent' = 1 .. Len(sent)
      BY <3>1
    <3>4. Len(sent') = Len(sent)
      BY <1>0, <3>2, <3>3, LenProperties
    <3> QED
      BY <1>0, <2>1, <3>2, <3>3, <3>4
  <2>4. SentInv'
    <3>1. ASSUME NEW i \in DOMAIN sent'
          PROVE  /\ i \in DOMAIN sent /\ sent'[i].current = FALSE
                 /\ sent'[i].bulk = sent[i].bulk /\ sent'[i].scope = sent[i].scope
      BY <2>2, <2>3
    <3>2. ASSUME NEW i \in DOMAIN sent'
          PROVE  /\ ~sent'[i].bulk => \E g \in Findings : sent'[i].scope = {g}
                 /\ ~(sent'[i].bulk /\ sent'[i].current)
      BY <1>0, <3>1 DEF SentInv
    <3> QED
      BY <3>2 DEF SentInv
  <2>5. ToastsFit
    BY <2>1, SameToastsFit
  <2>6. server' \in [Findings -> States]
    BY <1>0, <2>1 DEF DeskTyped, States
  <2> QED
    BY <1>0, <2>1, <2>3, <2>4, <2>5, <2>6, QuietStep DEF DeskTyped
<1>7. ASSUME NEW action \in {"dismiss", "reopen"}, TriageAll(action)
      PROVE  DeskInv'
  <2>1. PICK call \in CallSent :
           /\ Send(<<call>>) /\ call.bulk = TRUE
           /\ call.current => sent = <<>> /\ outdated = {}
           /\ PageAgrees /\ call.current /\ call.stated => Cardinality(Changes(call)) <= call.confirmed
    BY <1>0, <1>7, BulkTyped
  <2>2. UNCHANGED <<server, page, view, toasts, timers, issued, outdated, taken>>
    BY <1>7 DEF TriageAll
  <2>3. ToastsFit
    BY <2>2, SameToastsFit
  <2> DEFINE new == <<call>>
  <2>4. new \in Seq(CallSent) /\ Len(new) = 1 /\ DOMAIN new = {1} /\ new[1] = call /\ Send(new)
    BY <2>1
  <2> HIDE DEF new
  <2>5. /\ sent' \in Seq(CallSent) /\ Len(sent') <= calls' /\ calls' \in 0 .. MaxCalls /\ answered' = {}
        /\ \A i \in DOMAIN sent' : IF i <= Len(sent) THEN i \in DOMAIN sent /\ sent'[i] = sent[i]
                                    ELSE i - Len(sent) \in DOMAIN new /\ sent'[i] = new[i - Len(sent)]
    BY <1>0, <2>4, SendTells DEF Send
  <2>6. SentInv'
    <3> SUFFICES ASSUME NEW i \in DOMAIN sent'
                 PROVE  /\ ~sent'[i].bulk => \E f \in Findings : sent'[i].scope = {f}
                        /\ sent'[i].bulk /\ sent'[i].current =>
                               i = 1 /\ (sent'[i].stated => Cardinality(Changes(sent'[i])) <= sent'[i].confirmed)
      BY <2>2 DEF SentInv, Changes, Target
    <3>1. CASE i <= Len(sent)
      BY <1>0, <2>5, <3>1 DEF SentInv
    <3>2. CASE ~(i <= Len(sent))
      <4>1. sent'[i] = call /\ i = Len(sent) + 1
        BY <1>0, <2>4, <2>5, <3>2
      <4>2. call.current => i = 1
        BY <1>0, <2>1, <4>1
      <4> QED
        BY <1>0, <2>1, <4>1, <4>2
    <3> QED
      BY <3>1, <3>2
  <2> QED
    BY <1>0, <1>1, <2>2, <2>3, <2>5, <2>6, QuietStep DEF DeskTyped
<1>8. ASSUME NEW i \in Offers, UndoToast(i)
      PROVE  DeskInv'
  <2> DEFINE call == Undoing(i)
             new == <<call>>
  <2>1. Send(new) /\ TakeAway({toasts[i].token}) /\ UNCHANGED <<server, page, view, outdated>>
    BY <1>8 DEF UndoToast
  <2>2. call \in CallSent /\ call.bulk = FALSE /\ \E g \in Findings : call.scope = {g}
    BY <1>0, UndoTyped
  <2> HIDE DEF call
  <2>3. ToastsFit
    BY <2>1, TakeAwayFits
  <2>4. new \in Seq(CallSent) /\ \A k \in DOMAIN new : new[k].bulk = FALSE /\ \E g \in Findings : new[k].scope = {g}
    BY <1>4, <2>2
  <2> HIDE DEF new
  <2> QED
    BY <1>3, <2>1, <2>3, <2>4
<1>9. CASE UndoAll
  <2> DEFINE n == Cardinality(Offers)
             new == [k \in 1 .. n |-> Undoing(Ascending(Offers)[n + 1 - k])]
             gone == {toasts[i].token : i \in Offers}
  <2>1. Send(new) /\ Tell(Remaining(gone), "undone", {}) /\ UNCHANGED <<server, page, view, outdated>>
    BY <1>9 DEF UndoAll
  <2>2. new \in Seq(CallSent) /\ \A k \in DOMAIN new : new[k].bulk = FALSE /\ \E g \in Findings : new[k].scope = {g}
    BY <1>0, UndoAllTyped
  <2> HIDE DEF new, gone
  <2>3. Remaining(gone) \in Seq(Toast) /\ Len(Remaining(gone)) <= ToastLimit /\ TokensOf(Remaining(gone)) \subseteq timers
    <3>1. /\ Remaining(gone) \in Seq(Toast) /\ Len(Remaining(gone)) <= Len(toasts)
          /\ TokensOf(Remaining(gone)) \subseteq TokensOf(toasts)
      BY <1>0, RemainingTells
    <3>2. Len(Remaining(gone)) \in Nat /\ Len(toasts) \in Nat /\ ToastLimit \in Nat
      BY <1>0, <3>1, TriageDeskAssumption
    <3> QED
      BY <1>0, <3>1, <3>2
  <2>5. ToldSo(Remaining(gone), "undone", {})
    BY <2>1 DEF ToldSo, Messages
  <2>4. ToastsFit
    BY <2>3, <2>5, ToldSoFits
  <2> QED
    BY <1>3, <2>1, <2>2, <2>4
<1>10. ASSUME NEW token \in timers, Expire(token)
       PROVE  DeskInv'
  BY <1>2, <1>10, ExpireFits DEF Expire
<1>11. ASSUME NEW v \in Views, Visit(v)
       PROVE  DeskInv'
  <2>1. /\ view' = v /\ server' = server /\ page' = server' /\ outdated' = {} /\ answered' = {}
        /\ UNCHANGED <<sent, toasts, timers, issued, calls, taken>>
    BY <1>11 DEF Visit, Render
  <2>2. SentInv'
    BY <1>0, <2>1 DEF SentInv, Changes, Target
  <2>3. ToastsFit
    BY <2>1, SameToastsFit
  <2> QED
    BY <1>0, <2>1, <2>2, <2>3, QuietStep DEF DeskTyped
<1>12. CASE ClearToasts
  BY <1>2, <1>12, TakeAwayFits DEF ClearToasts
<1>13. CASE CopyLink
  <2>2. Tell(toasts, "deep link copied", {})
    BY <1>13 DEF CopyLink
  <2>3. ToldSo(toasts, "deep link copied", {})
    BY <2>2 DEF ToldSo, Messages
  <2>1. ToastsFit
    BY <1>0, <2>3, ToldSoFits
  <2> QED
    BY <1>2, <1>13, <2>1 DEF CopyLink
\* The first call leaves.
<1>14. ASSUME sent # <<>>, sent' = Tail(sent), server' \in [Findings -> States]
       PROVE  /\ sent' \in Seq(CallSent) /\ Len(sent') <= calls /\ SentInv'
              /\ Head(sent) = sent[1] /\ 1 \in DOMAIN sent /\ Head(sent) \in CallSent
  <2>1. /\ sent' \in Seq(CallSent) /\ Len(sent') = Len(sent) - 1 /\ 1 \in DOMAIN sent
        /\ Head(sent) = sent[1] /\ Head(sent) \in CallSent
        /\ \A i \in DOMAIN sent' : i \in Nat \ {0} /\ i + 1 \in DOMAIN sent /\ sent'[i] = sent[i + 1]
    BY <1>0, <1>14
  <2>2. ASSUME NEW i \in DOMAIN sent'
        PROVE  /\ ~sent'[i].bulk => \E f \in Findings : sent'[i].scope = {f}
               /\ ~(sent'[i].bulk /\ sent'[i].current)
    <3>1. i + 1 # 1 /\ i + 1 \in DOMAIN sent /\ sent'[i] = sent[i + 1]
      BY <2>1
    <3> QED
      BY <1>0, <3>1 DEF SentInv
  <2>3. SentInv'
    BY <2>2 DEF SentInv
  <2>4. Len(sent') <= calls
    BY <1>0, <2>1, TriageDeskAssumption DEF DeskTyped
  <2> QED
    BY <2>1, <2>3, <2>4
<1>15. ASSUME NEW call \in CallSent
       PROVE  CarriedOut(call) \in [Findings -> States]
  BY <1>0 DEF CarriedOut, DeskTyped, Target, States
<1>16. CASE Fall
  <2>1. /\ sent # <<>> /\ (Tell(toasts, "failed", {}) \/ UNCHANGED <<toasts, timers, issued, taken>>)
        /\ server' \in {server} \cup {CarriedOut(c) : c \in {c \in {Head(sent)} : c.valid}}
        /\ outdated' = outdated \cup {"failure"}
        /\ sent' = Tail(sent) /\ answered' = {} /\ UNCHANGED <<page, view, calls>>
    BY <1>16 DEF Fall
  <2>2. Head(sent) \in CallSent
    BY <1>0, <2>1
  <2>3. server' \in [Findings -> States]
    BY <1>0, <1>15, <2>1, <2>2 DEF DeskTyped
  <2>4. ToastsFit
    <3>1. CASE UNCHANGED <<toasts, timers, issued, taken>>
      BY <3>1, SameToastsFit
    <3>2. CASE Tell(toasts, "failed", {})
      <4>1. ToldSo(toasts, "failed", {})
        BY <3>2 DEF ToldSo, Messages
      <4> QED
        BY <1>0, <4>1, ToldSoFits
    <3> QED
      BY <2>1, <3>1, <3>2
  <2>5. sent' \in Seq(CallSent) /\ Len(sent') <= calls /\ SentInv'
    BY <1>14, <2>1, <2>3
  <2> QED
    BY <1>0, <2>1, <2>3, <2>4, <2>5, QuietStep DEF DeskTyped
<1>17. CASE Succeed
  <2> DEFINE call == Head(sent)
  <2>1. /\ sent # <<>> /\ server' = CarriedOut(call)
        /\ page' = server' /\ outdated' = {}
        /\ Report(call)
        /\ answered' = {[call |-> call, changed |-> Changes(call)]}
        /\ sent' = Tail(sent) /\ UNCHANGED <<view, calls>>
    BY <1>17 DEF Succeed, Render
  <2>2. call = sent[1] /\ 1 \in DOMAIN sent /\ call \in CallSent
    BY <1>0, <2>1
  <2> HIDE DEF call
  <2>3. server' \in [Findings -> States]
    BY <1>15, <2>1, <2>2
  <2>4. sent' \in Seq(CallSent) /\ Len(sent') <= calls /\ SentInv'
    BY <1>14, <2>1, <2>3
  <2>5. ~call.bulk => \E f \in Findings : call.scope = {f}
    BY <1>0, <2>2 DEF SentInv
  <2>6. call.bulk /\ call.current /\ call.stated => Cardinality(Changes(call)) <= call.confirmed
    BY <1>0, <2>2 DEF SentInv
  \* What is told of it.
  <2>7. ToastsFit /\ (~call.bulk /\ call.action = "dismiss" => toasts' # <<>> /\ Last(toasts').undo = call.scope)
    <3>1. call.scope \in SUBSET Findings /\ call.action \in {"dismiss", "reopen"} /\ call.bulk \in BOOLEAN
      BY <2>2 DEF CallSent
    <3>2. CASE ~call.bulk /\ call.action = "dismiss"
      <4>1. Tell(toasts, "finding dismissed", call.scope)
        BY <2>1, <3>2 DEF Report
      <4> DEFINE m == "finding dismissed"
                 u == call.scope
      <4>2. m \in Messages /\ u \in SUBSET Findings /\ u # {} /\ Tell(toasts, m, u)
        BY <2>5, <3>1, <3>2, <4>1 DEF Messages
      <4>5. u = call.scope
        OBVIOUS
      <4> HIDE DEF m, u
      <4>3. ToastsFit
        BY <1>0, <4>2, TellFits
      <4>4. ToldWith(u)
        BY <1>0, <4>2, TellTells
      <4> QED
        BY <4>2, <4>3, <4>4, <4>5 DEF ToldWith
    <3>3. CASE ~call.bulk /\ call.action = "reopen"
      <4>1. Tell(toasts, "finding reopened", {})
        BY <2>1, <3>3 DEF Report
      <4>2. ToldSo(toasts, "finding reopened", {})
        BY <4>1 DEF ToldSo, Messages
      <4> QED
        BY <1>0, <3>3, <4>2, ToldSoFits
    <3>4. CASE call.bulk
      <4>1. "updated" \notin DOMAIN BulkReply(call)
        BY DEF BulkReply
      <4>2. UNCHANGED <<toasts, timers, issued, taken>>
        BY <2>1, <3>4, <4>1 DEF Report
      <4> QED
        BY <3>4, <4>2, SameToastsFit
    <3> QED
      BY <3>1, <3>2, <3>3, <3>4
  <2>8. DeskTyped'
    BY <1>0, <2>1, <2>3, <2>4, <2>7 DEF DeskTyped, ToastsFit
  <2>9. \A a \in answered' : a.call = call /\ a.changed = Changes(call)
    BY <2>1
  <2>10. ToastsInv'
    BY <2>7, <2>9 DEF ToastsInv, ToastsFit
  <2>11. ConfirmationHolds'
    BY <2>6, <2>9 DEF ConfirmationHolds
  <2>12. PageAgrees'
    BY <2>1 DEF PageAgrees
  <2> QED
    BY <2>4, <2>8, <2>10, <2>11, <2>12 DEF DeskInv
<1>18. CASE UNCHANGED deskVars
  <2>1. UNCHANGED <<server, page, view, sent, toasts, timers, issued, calls, outdated, answered, taken>>
    BY <1>18 DEF deskVars
  <2> QED
    BY <2>1 DEF DeskInv, DeskTyped, ToastsInv, SentInv, PageAgrees, ConfirmationHolds, Changes, Target, TokensOf
<1> QED
  BY <1>5, <1>6, <1>7, <1>8, <1>9, <1>10, <1>11, <1>12, <1>13, <1>16, <1>17, <1>18 DEF DeskNext

-----------------------------------------------------------------------------
(* The desk: the groups of files and the links.                            *)

\* The rows of a file at a severity.
LEMMA CountsTell ==
    ASSUME NEW rows \in SUBSET Findings, NEW g, NEW s \in 0 .. 4
    PROVE  /\ FileCount(rows, g, s) \in Nat
           /\ FileCount(rows, g, s) = 0 <=> ~\E f \in rows : FileOf[f] = g /\ SeverityOf[f] = s
<1> DEFINE here == {f \in rows : FileOf[f] = g /\ SeverityOf[f] = s}
<1>1. IsFiniteSet(here)
  BY TriageDeskAssumption, FS_Subset
<1>2. FileCount(rows, g, s) = Cardinality(here) /\ (here = {} <=> ~\E f \in rows : FileOf[f] = g /\ SeverityOf[f] = s)
  BY DEF FileCount
<1> HIDE DEF here
<1> QED
  BY <1>1, <1>2, FS_CardinalityType, FS_EmptySet

\* The files of some rows are in an order.
LEMMA FilesOrder ==
    ASSUME NEW rows \in SUBSET Findings, NEW files, files = {FileOf[f] : f \in rows},
           NEW R, R = {p \in files \X files : Worse(rows, p[1], p[2])}
    PROVE  Orders(R, files)
<1> DEFINE c == [g \in files |-> [s \in 0 .. 4 |-> FileCount(rows, g, s)]]
           Differ(g, h) == {s \in 0 .. 4 : c[g][s] # c[h][s]}
<1>1. c \in [files -> [0 .. 4 -> Nat]] /\ files \subseteq Nat
  BY CountsTell, TriageDeskAssumption
<1>2. \A g, h \in files : <<g, h>> \in R <=>
          \/ \E s \in 0 .. 4 : c[g][s] > c[h][s] /\ \A t \in 0 .. s - 1 : c[g][t] = c[h][t]
          \/ g < h /\ \A s \in 0 .. 4 : c[g][s] = c[h][s]
  <2> SUFFICES ASSUME NEW g \in files, NEW h \in files
               PROVE  <<g, h>> \in R <=>
                        \/ \E s \in 0 .. 4 : c[g][s] > c[h][s] /\ \A t \in 0 .. s - 1 : c[g][t] = c[h][t]
                        \/ g < h /\ \A s \in 0 .. 4 : c[g][s] = c[h][s]
    OBVIOUS
  <2>1. <<g, h>> \in R <=> Worse(rows, g, h)
    OBVIOUS
  <2>2. \A s \in 0 .. 4 : c[g][s] = FileCount(rows, g, s) /\ c[h][s] = FileCount(rows, h, s)
    OBVIOUS
  <2>3. \A s \in 0 .. 4 : 0 .. s - 1 \subseteq 0 .. 4
    OBVIOUS
  <2> HIDE DEF c
  <2> QED
    BY <2>1, <2>2, <2>3 DEF Worse
<1> HIDE DEF c
<1>3. ASSUME NEW g \in files, NEW h \in files, NEW k \in files, <<g, h>> \in R, <<h, k>> \in R
      PROVE  <<g, k>> \in R
  <2>1. c[g] \in [0 .. 4 -> Nat] /\ c[h] \in [0 .. 4 -> Nat] /\ c[k] \in [0 .. 4 -> Nat] /\ g \in Nat /\ h \in Nat /\ k \in Nat
    BY <1>1
  <2>2. CASE \A s \in 0 .. 4 : c[g][s] = c[h][s]
    <3>4. \A s \in 0 .. 4 : ~(c[g][s] > c[h][s])
      BY <2>1, <2>2
    <3>1. g < h
      BY <1>2, <1>3, <3>4
    <3>2. CASE \A s \in 0 .. 4 : c[h][s] = c[k][s]
      <4>1. h < k
        BY <1>2, <1>3, <2>1, <3>2
      <4> QED
        BY <1>2, <2>1, <2>2, <3>1, <3>2, <4>1
    <3>3. CASE \E s \in 0 .. 4 : c[h][s] > c[k][s] /\ \A t \in 0 .. s - 1 : c[h][t] = c[k][t]
      <4>1. PICK s \in 0 .. 4 : c[h][s] > c[k][s] /\ \A t \in 0 .. s - 1 : c[h][t] = c[k][t]
        BY <3>3
      <4>2. c[g][s] > c[k][s] /\ \A t \in 0 .. s - 1 : t \in 0 .. 4 /\ c[g][t] = c[k][t]
        BY <2>2, <4>1
      <4> QED
        BY <1>2, <4>2
    <3> QED
      BY <1>2, <1>3, <3>2, <3>3
  <2>3. CASE \E s \in 0 .. 4 : c[g][s] > c[h][s] /\ \A t \in 0 .. s - 1 : c[g][t] = c[h][t]
    <3>1. PICK s \in 0 .. 4 : c[g][s] > c[h][s] /\ \A t \in 0 .. s - 1 : c[g][t] = c[h][t]
      BY <2>3
    <3>2. CASE \A u \in 0 .. 4 : c[h][u] = c[k][u]
      <4>1. c[g][s] > c[k][s] /\ \A t \in 0 .. s - 1 : t \in 0 .. 4 /\ c[g][t] = c[k][t]
        BY <3>1, <3>2
      <4> QED
        BY <1>2, <4>1
    <3>3. CASE \E u \in 0 .. 4 : c[h][u] > c[k][u] /\ \A t \in 0 .. u - 1 : c[h][t] = c[k][t]
      <4>1. PICK u \in 0 .. 4 : c[h][u] > c[k][u] /\ \A t \in 0 .. u - 1 : c[h][t] = c[k][t]
        BY <3>3
      <4>2. CASE s <= u
        <5>1. c[g][s] > c[k][s]
          <6>1. c[h][s] >= c[k][s]
            BY <2>1, <4>1, <4>2
          <6>2. c[g][s] \in Nat /\ c[h][s] \in Nat /\ c[k][s] \in Nat
            BY <2>1
          <6> QED
            BY <3>1, <6>1, <6>2
        <5>2. \A t \in 0 .. s - 1 : c[g][t] = c[k][t]
          BY <3>1, <4>1, <4>2
        <5> QED
          BY <1>2, <5>1, <5>2
      <4>3. CASE u < s
        <5>1. c[g][u] > c[k][u]
          BY <3>1, <4>1, <4>3
        <5>2. \A t \in 0 .. u - 1 : c[g][t] = c[k][t]
          BY <3>1, <4>1, <4>3
        <5> QED
          BY <1>2, <5>1, <5>2
      <4> QED
        BY <4>2, <4>3
    <3> QED
      BY <1>2, <1>3, <3>2, <3>3
  <2>4. \/ \E s \in 0 .. 4 : c[g][s] > c[h][s] /\ \A t \in 0 .. s - 1 : c[g][t] = c[h][t]
        \/ \A s \in 0 .. 4 : c[g][s] = c[h][s]
    BY <1>2, <1>3
  <2> QED
    BY <2>2, <2>3, <2>4
<1>4. ASSUME NEW g \in files
      PROVE  <<g, g>> \notin R
  <2>1. c[g] \in [0 .. 4 -> Nat] /\ g \in Nat
    BY <1>1
  <2>2. \A s \in 0 .. 4 : ~(c[g][s] > c[g][s])
    BY <2>1
  <2> QED
    BY <1>2, <2>1, <2>2
<1>5. ASSUME NEW g \in files, NEW h \in files, g # h
      PROVE  <<g, h>> \in R \/ <<h, g>> \in R
  <2>1. c[g] \in [0 .. 4 -> Nat] /\ c[h] \in [0 .. 4 -> Nat] /\ g \in Nat /\ h \in Nat
    BY <1>1
  <2>2. CASE \A s \in 0 .. 4 : c[g][s] = c[h][s]
    BY <1>2, <1>5, <2>1, <2>2
  <2>3. CASE \E s \in 0 .. 4 : c[g][s] # c[h][s]
    <3>1. PICK s \in 0 .. 4 : c[g][s] # c[h][s] /\ \A t \in 0 .. 4 : c[g][t] # c[h][t] => s <= t
      <4>1. Differ(g, h) \in SUBSET Nat /\ Differ(g, h) # {}
        BY <2>3
      <4>2. PICK s \in Differ(g, h) : \A t \in Differ(g, h) : s <= t
        BY <4>1, Least
      <4> QED
        BY <4>2
    <3>2. \A t \in 0 .. s - 1 : c[g][t] = c[h][t]
      BY <3>1
    <3>3. c[g][s] > c[h][s] \/ c[h][s] > c[g][s]
      BY <2>1, <3>1
    <3> QED
      BY <1>2, <3>2, <3>3
  <2> QED
    BY <2>2, <2>3
<1> HIDE DEF Differ
<1>6. \A g, h, k \in files : <<g, h>> \in R /\ <<h, k>> \in R => <<g, k>> \in R
  <2> TAKE g, h, k \in files
  <2>1. HAVE <<g, h>> \in R /\ <<h, k>> \in R
  <2> QED
    BY <1>3, <2>1
<1>7. \A g \in files : <<g, g>> \notin R
  BY <1>4
<1>8. \A g, h \in files : g # h => <<g, h>> \in R \/ <<h, g>> \in R
  BY <1>5
<1> QED
  BY Zenon, <1>6, <1>7, <1>8 DEF Orders

\* The groups are the files, each once, and in that order.
LEMMA GroupsTell ==
    ASSUME NEW rows \in SUBSET Findings
    PROVE  /\ \A i \in DOMAIN FileGroups(rows) : i \in Nat /\ FileGroups(rows)[i] \in {FileOf[f] : f \in rows}
           /\ \A f \in rows : \E i \in DOMAIN FileGroups(rows) : FileGroups(rows)[i] = FileOf[f]
           /\ \A i, j \in DOMAIN FileGroups(rows) : i < j => Worse(rows, FileGroups(rows)[i], FileGroups(rows)[j])
<1> DEFINE files == {FileOf[f] : f \in rows}
           R == {p \in files \X files : Worse(rows, p[1], p[2])}
           before == [g \in files |-> {h \in files : Worse(rows, h, g)}]
           n == Cardinality(files)
           groups == Sorted(before)
<1>1. FileGroups(rows) = groups
  BY DEF FileGroups
<1>2. IsFiniteSet(files)
  <2>1. IsFiniteSet(rows) /\ files = {FileOf[f] : f \in rows}
    BY TriageDeskAssumption, FS_Subset
  <2> HIDE DEF files
  <2>2. FileOf \in [Findings -> Nat] /\ rows \subseteq Findings
    BY TriageDeskAssumption
  <2> DEFINE toFile == [f \in rows |-> FileOf[f]]
  <2>3. toFile \in Surjection(rows, files)
    BY <2>1, <2>2 DEF Surjection
  <2> QED
    BY <2>1, <2>3, FS_Surjection
<1>3. Orders(R, files)
  BY FilesOrder
<1>4. before = [g \in files |-> Preceding(files, R, g)]
  BY DEF Preceding
<1>5. \A g, h : <<g, h>> \in R => Worse(rows, g, h)
  OBVIOUS
<1>6. \A f \in rows : FileOf[f] \in files
  OBVIOUS
<1> HIDE DEF files, R, before
<1>7. /\ n \in Nat /\ groups \in Seq(files) /\ Len(groups) = n
      /\ groups \in Bijection(1 .. n, files)
      /\ \A j, k \in 1 .. n : j < k <=> <<groups[j], groups[k]>> \in R
  BY <1>2, <1>3, <1>4, SortedTells
<1> HIDE DEF groups, n
<1>8. DOMAIN groups = 1 .. n /\ \A i \in 1 .. n : groups[i] \in files
  BY <1>7
<1>9. \A g \in files : \E i \in 1 .. n : groups[i] = g
  BY <1>7 DEF Bijection, Surjection
<1>10. \A i, j \in 1 .. n : i < j => Worse(rows, groups[i], groups[j])
  BY <1>5, <1>7
<1>11. \A i \in 1 .. n : i \in Nat
  OBVIOUS
<1> QED
  BY <1>1, <1>6, <1>8, <1>9, <1>10, <1>11 DEF files

\* What a page leads to, for any query and whatever it was rendered with.
LEMMA LinksHold == \A v \in Views : LeadsFrom(v)
<1> SUFFICES ASSUME NEW v \in Views
             PROVE  LET groups == FileGroups(OnPage(v))
                        Worst(i) == Min({SeverityOf[f] : f \in {f \in OnPage(v) : FileOf[f] = groups[i]}})
                    IN  /\ \A s \in 0 .. 4 : v.states # States /\ v.severities # {s} =>
                               Cardinality(OnPage(SeverityLink(v, s))) = SeverityCount(v, s)
                        /\ \A f \in v.focus : f \in OnPage(v) /\ FileOf[f] \in OpenGroups(v)
                        /\ \A i, j \in DOMAIN groups : i <= j => Worst(i) <= Worst(j)
  BY DEF LeadsFrom
<1> DEFINE rows == OnPage(v)
           groups == FileGroups(rows)
           Of(i) == {SeverityOf[f] : f \in {f \in rows : FileOf[f] = groups[i]}}
<1>1. rows \in SUBSET Findings /\ v.focus \subseteq rows
  BY ViewTyped DEF OnPage
<1>2. /\ \A i \in DOMAIN groups : i \in Nat /\ groups[i] \in {FileOf[f] : f \in rows}
      /\ \A f \in rows : \E i \in DOMAIN groups : groups[i] = FileOf[f]
      /\ \A i, j \in DOMAIN groups : i < j => Worse(rows, groups[i], groups[j])
  BY <1>1, GroupsTell
<1>3. ASSUME NEW s \in 0 .. 4, v.states # States, v.severities # {s}
      PROVE  Cardinality(OnPage(SeverityLink(v, s))) = SeverityCount(v, s)
  <2> DEFINE w == SeverityLink(v, s)
  <2>1. w.severities = {s} /\ w.states = v.states /\ w.agents = v.agents /\ w.focus = {}
    BY <1>3, ViewTyped DEF SeverityLink
  <2> HIDE DEF w
  <2>2. OnPage(w) = {f \in ScopeOf(v) : SeverityOf[f] = s}
    BY <2>1 DEF OnPage, ShownIn, ScopeOf
  <2> QED
    BY <2>2 DEF SeverityCount, w
<1>4. ASSUME NEW f \in v.focus
      PROVE  f \in rows /\ FileOf[f] \in OpenGroups(v)
  <2>1. PICK i \in DOMAIN groups : groups[i] = FileOf[f]
    BY <1>1, <1>2
  <2> QED
    BY <1>1, <2>1 DEF OpenGroups
<1> HIDE DEF rows, groups
<1>5. ASSUME NEW i \in DOMAIN groups
      PROVE  /\ Min(Of(i)) \in 0 .. 4
             /\ FileCount(rows, groups[i], Min(Of(i))) > 0
             /\ \A s \in 0 .. 4 : FileCount(rows, groups[i], s) > 0 => Min(Of(i)) <= s
  <2>1. Of(i) \in SUBSET (0 .. 4) /\ Of(i) # {} /\ 4 \in Nat
    <3>1. \A f \in rows : SeverityOf[f] \in 0 .. 4
      BY <1>1, TriageDeskAssumption
    <3>2. Of(i) \in SUBSET (0 .. 4)
      BY <3>1
    <3>3. PICK f \in rows : groups[i] = FileOf[f]
      BY <1>2
    <3>4. SeverityOf[f] \in Of(i)
      BY <3>3
    <3> QED
      BY <3>2, <3>4
  <2>2. Min(Of(i)) \in Of(i) /\ \A s \in Of(i) : Min(Of(i)) <= s
    BY <2>1, MinMax
  <2>3. Min(Of(i)) \in 0 .. 4
    BY <2>1, <2>2
  <2>4. \A s \in 0 .. 4 : s \in Of(i) <=> \E f \in rows : FileOf[f] = groups[i] /\ SeverityOf[f] = s
    OBVIOUS
  <2>5. \A s \in 0 .. 4 : FileCount(rows, groups[i], s) > 0 <=> s \in Of(i)
    <3> SUFFICES ASSUME NEW s \in 0 .. 4
                 PROVE  FileCount(rows, groups[i], s) > 0 <=> s \in Of(i)
      OBVIOUS
    <3>1. /\ FileCount(rows, groups[i], s) \in Nat
          /\ FileCount(rows, groups[i], s) = 0 <=> ~\E f \in rows : FileOf[f] = groups[i] /\ SeverityOf[f] = s
      BY <1>1, CountsTell
    <3> QED
      BY <2>4, <3>1
  <2> QED
    BY <2>2, <2>3, <2>5
<1>6. ASSUME NEW i \in DOMAIN groups, NEW j \in DOMAIN groups, i <= j
      PROVE  Min(Of(i)) <= Min(Of(j))
  <2> DEFINE a == Min(Of(i))
             b == Min(Of(j))
  <2>1. /\ a \in 0 .. 4 /\ b \in 0 .. 4
        /\ FileCount(rows, groups[j], b) > 0
        /\ \A s \in 0 .. 4 : FileCount(rows, groups[i], s) > 0 => a <= s
    BY <1>5
  <2>2. CASE i = j
    BY <2>1, <2>2
  <2>3. CASE i # j
    <3>1. Worse(rows, groups[i], groups[j])
      BY <1>2, <1>6, <2>3
    <3>2. \A s \in 0 .. 4 : FileCount(rows, groups[i], s) \in Nat /\ FileCount(rows, groups[j], s) \in Nat
      BY <1>1, CountsTell
    <3> SUFFICES a <= b
      OBVIOUS
    <3> HIDE DEF a, b
    <3>3. CASE \E s \in 0 .. 4 : /\ FileCount(rows, groups[i], s) > FileCount(rows, groups[j], s)
                                 /\ \A t \in 0 .. s - 1 : FileCount(rows, groups[i], t) = FileCount(rows, groups[j], t)
      <4>1. PICK s \in 0 .. 4 : /\ FileCount(rows, groups[i], s) > FileCount(rows, groups[j], s)
                                /\ \A t \in 0 .. s - 1 : FileCount(rows, groups[i], t) = FileCount(rows, groups[j], t)
        BY <3>3
      <4>2. a <= s
        BY <2>1, <3>2, <4>1
      <4>3. CASE b >= s
        BY <2>1, <4>1, <4>2, <4>3
      <4>4. CASE b < s
        <5>1. FileCount(rows, groups[i], b) = FileCount(rows, groups[j], b)
          BY <2>1, <4>1, <4>4
        <5> QED
          BY <2>1, <5>1
      <4> QED
        BY <2>1, <4>1, <4>3, <4>4
    <3>4. CASE \A s \in 0 .. 4 : FileCount(rows, groups[i], s) = FileCount(rows, groups[j], s)
      BY <2>1, <3>4
    <3> QED
      BY <3>1, <3>3, <3>4 DEF Worse
  <2> QED
    BY <2>2, <2>3
<1> QED
  BY <1>3, <1>4, <1>6 DEF rows, groups

\* The operator who triages: whatever is clicked, however late calls are answered and
\* whatever colleagues do, what the page counts, groups, selects, confirms and links to is
\* what its rows say (TriageDesk).
THEOREM DeskTellsTruth == DeskSpec => [](DeskTypes /\ DeskIsTrue)
<1>1. DeskInv => DeskTypes /\ DeskIsTrue
  <2> SUFFICES ASSUME DeskInv
               PROVE  DeskTypes /\ DeskIsTrue
    OBVIOUS
  <2>1. DeskTypes
    <3>1. \A i \in DOMAIN toasts : toasts[i] \in Toast
      BY ElementOfSeq, LenProperties DEF DeskInv, DeskTyped
    <3>2. \A i \in DOMAIN toasts : /\ toasts[i].undo \subseteq Findings /\ toasts[i].count \in Nat \ {0}
                                   /\ toasts[i].message \in Messages
      BY <3>1 DEF Toast
    <3> QED
      BY <3>2 DEF DeskInv, DeskTyped, DeskTypes
  <2>2. ToastsTell
    BY DEF DeskInv, ToastsInv, ToastsTell, TokensOf
  <2>3. LinksLead
    BY LinksHold DEF DeskInv, DeskTyped, LinksLead
  <2> QED
    BY <2>1, <2>2, <2>3 DEF DeskInv, DeskIsTrue
<1> QED
  BY InitDesk, NextDesk, <1>1, PTL DEF DeskSpec

-----------------------------------------------------------------------------
(* The browser: the table of the SLA page.                                 *)

\* The tables the page can be asked for.
Table == [sev : SUBSET (0 .. 4), sort : {"severity", "age", "sla", "overdue"}, dir : {"asc", "desc"},
          policy : UNION {[S -> Nat \ {0}] : S \in SUBSET (0 .. 4)}]

\* What a query asks for is one of them, and is read back from the link that is made of it.
LEMMA TableRead ==
    ASSUME NEW q, IsQuery(q)
    PROVE  TableOf(q) \in Table
<1> DEFINE Of(k) == IF k \in DOMAIN q THEN q[k] ELSE DefaultTable[k]
           sev == Of("sev") \cap (0 .. 4)
           sort == IF Of("sort") \in {"severity", "age", "sla"} THEN Of("sort") ELSE "overdue"
           dir == IF Of("dir") = "asc" THEN "asc" ELSE "desc"
           D == {s \in DOMAIN Of("policy") : Of("policy")[s] > 0}
           policy == [s \in D |-> Of("policy")[s]]
<1>1. sev \in SUBSET (0 .. 4)
  OBVIOUS
<1>2. sort \in {"severity", "age", "sla", "overdue"} /\ dir \in {"asc", "desc"}
  OBVIOUS
<1>3. PICK S \in SUBSET (0 .. 4) : Of("policy") \in [S -> Nat]
  <2>1. CASE "policy" \in DOMAIN q
    BY <2>1 DEF IsQuery
  <2>2. CASE "policy" \notin DOMAIN q
    <3>1. Of("policy") = <<>> /\ <<>> \in [{} -> Nat] /\ {} \in SUBSET (0 .. 4)
      BY <2>2 DEF DefaultTable
    <3> QED
      BY <3>1
  <2> QED
    BY <2>1, <2>2
<1>4. policy \in [D -> Nat \ {0}] /\ D \in SUBSET (0 .. 4)
  <2> DEFINE p == Of("policy")
  <2>1. p \in [S -> Nat] /\ D = {s \in DOMAIN p : p[s] > 0} /\ policy = [s \in D |-> p[s]]
    BY <1>3
  <2> HIDE DEF p, D, policy
  <2>2. \A s \in D : s \in S /\ p[s] \in Nat \ {0}
    BY <2>1
  <2> QED
    BY <2>1, <2>2
<1>5. TableOf(q) = [sev |-> sev, sort |-> sort, dir |-> dir, policy |-> policy]
  BY DEF TableOf
<1> HIDE DEF sev, sort, dir, policy, D
<1>6. policy \in UNION {[T -> Nat \ {0}] : T \in SUBSET (0 .. 4)}
  BY <1>4
<1> QED
  BY <1>1, <1>2, <1>5, <1>6 DEF Table

\* A link to a table is read back as it was meant.
LEMMA TableReadBack ==
    ASSUME NEW l \in Table
    PROVE  TableOf(TableQuery(l)) = l
<1> DEFINE q == TableQuery(l)
           Of(k) == IF k \in DOMAIN q THEN q[k] ELSE DefaultTable[k]
<1>1. DOMAIN l = {"sev", "sort", "dir", "policy"}
  BY DEF Table
<1>2. \A k \in {"sev", "sort", "dir", "policy"} : Of(k) = l[k]
  BY <1>1 DEF TableQuery
<1>3. TableOf(q) = [sev |-> Of("sev") \cap (0 .. 4),
                    sort |-> IF Of("sort") \in {"severity", "age", "sla"} THEN Of("sort") ELSE "overdue",
                    dir |-> IF Of("dir") = "asc" THEN "asc" ELSE "desc",
                    policy |-> [s \in {s \in DOMAIN Of("policy") : Of("policy")[s] > 0} |-> Of("policy")[s]]]
  BY DEF TableOf
<1> HIDE DEF q, Of
<1>4. /\ l.sev \in SUBSET (0 .. 4) /\ l.sort \in {"severity", "age", "sla", "overdue"} /\ l.dir \in {"asc", "desc"}
      /\ l = [sev |-> l.sev, sort |-> l.sort, dir |-> l.dir, policy |-> l.policy]
  BY DEF Table
<1>5. PICK S \in SUBSET (0 .. 4) : l.policy \in [S -> Nat \ {0}]
  BY DEF Table
<1>6. [s \in {s \in DOMAIN l.policy : l.policy[s] > 0} |-> l.policy[s]] = l.policy
  <2> DEFINE p == l.policy
  <2>1. p \in [S -> Nat \ {0}]
    BY <1>5
  <2> HIDE DEF p
  <2>4. DOMAIN p = S /\ \A s \in S : p[s] \in Nat \ {0}
    BY <2>1
  <2>5. \A s \in S : p[s] > 0
    BY <2>4
  <2>2. {s \in DOMAIN p : p[s] > 0} = S
    BY <2>4, <2>5
  <2>3. [s \in S |-> p[s]] = p
    BY <2>1
  <2> QED
    BY <2>2, <2>3 DEF p
<1>7. Of("sev") = l.sev /\ Of("sort") = l.sort /\ Of("dir") = l.dir /\ Of("policy") = l.policy
  BY <1>2
<1>8. TableOf(q) = [sev |-> l.sev, sort |-> l.sort, dir |-> l.dir, policy |-> l.policy]
  <2>1. l.sev \cap (0 .. 4) = l.sev
    BY <1>4
  <2>2. (IF l.sort \in {"severity", "age", "sla"} THEN l.sort ELSE "overdue") = l.sort
    BY <1>4
  <2>3. (IF l.dir = "asc" THEN "asc" ELSE "desc") = l.dir
    BY <1>4
  <2> QED
    BY <1>3, <1>6, <1>7, <2>1, <2>2, <2>3
<1> QED
  BY <1>4, <1>8 DEF q

\* Where the page's links lead, from any table.
LEMMA TableLinks ==
    ASSUME NEW t \in Table
    PROVE  /\ \A s \in {{}} \cup {{x} : x \in 0 .. 4} : TabLink(t, s) \in Table /\ TabLink(t, s).policy = t.policy
           /\ \A s \in 0 .. 4 : SegmentLink(t, s) \in Table /\ SegmentLink(t, s).policy = t.policy
           /\ \A k \in {"severity", "age", "sla", "overdue"} :
                 /\ ColumnLink(t, k) \in Table /\ ColumnLink(t, k).policy = t.policy
                 /\ ColumnLink(t, k).sort = k
                 /\ ColumnLink(ColumnLink(t, k), k).dir # ColumnLink(t, k).dir
           /\ \A l \in TableChips(t) : l \in Table /\ l.policy = t.policy
<1>1. ASSUME NEW s \in SUBSET (0 .. 4)
      PROVE  [t EXCEPT !.sev = s] \in Table /\ [t EXCEPT !.sev = s].policy = t.policy
  BY DEF Table
<1>2. ASSUME NEW k \in {"severity", "age", "sla", "overdue"}, NEW d \in {"asc", "desc"}, NEW u \in Table
      PROVE  /\ [u EXCEPT !.sort = k, !.dir = d] \in Table /\ [u EXCEPT !.sort = k, !.dir = d].policy = u.policy
             /\ [u EXCEPT !.sort = k, !.dir = d].sort = k /\ [u EXCEPT !.sort = k, !.dir = d].dir = d
  BY DEF Table
<1>3. \A s \in {{}} \cup {{x} : x \in 0 .. 4} : TabLink(t, s) \in Table /\ TabLink(t, s).policy = t.policy
  <2>1. \A s \in {{}} \cup {{x} : x \in 0 .. 4} : s \in SUBSET (0 .. 4)
    OBVIOUS
  <2> QED
    BY <1>1, <2>1 DEF TabLink
<1>4. ASSUME NEW s \in 0 .. 4
      PROVE  SegmentLink(t, s) \in Table /\ SegmentLink(t, s).policy = t.policy
  <2> DEFINE new == IF t.sev = {s} THEN {} ELSE {s}
  <2>1. new \in SUBSET (0 .. 4) /\ SegmentLink(t, s) = [t EXCEPT !.sev = new]
    BY DEF SegmentLink
  <2> HIDE DEF new
  <2> QED
    BY <1>1, <2>1
<1>5. ASSUME NEW k \in {"severity", "age", "sla", "overdue"}, NEW u \in Table
      PROVE  /\ ColumnLink(u, k) \in Table /\ ColumnLink(u, k).policy = u.policy
             /\ ColumnLink(u, k).sort = k /\ ColumnLink(u, k).dir \in {"asc", "desc"}
             /\ u.sort = k => ColumnLink(u, k).dir # u.dir
  <2> DEFINE d == IF u.sort = k /\ u.dir = "desc" THEN "asc" ELSE "desc"
  <2>1. d \in {"asc", "desc"} /\ ColumnLink(u, k) = [u EXCEPT !.sort = k, !.dir = d]
    BY DEF ColumnLink
  <2>2. u.sort = k => d # u.dir
    OBVIOUS
  <2> HIDE DEF d
  <2> DEFINE new == [u EXCEPT !.sort = k, !.dir = d]
  <2>3. new \in Table /\ new.policy = u.policy /\ new.sort = k /\ new.dir = d
    BY <2>1 DEF Table
  <2>4. ColumnLink(u, k) = new
    BY <2>1
  <2> HIDE DEF new
  <2> QED
    BY <2>1, <2>2, <2>3, <2>4
<1>6. ASSUME NEW k \in {"severity", "age", "sla", "overdue"}
      PROVE  ColumnLink(ColumnLink(t, k), k).dir # ColumnLink(t, k).dir
  <2> DEFINE u == ColumnLink(t, k)
  <2>1. u \in Table /\ u.sort = k
    BY <1>5
  <2> HIDE DEF u
  <2>2. ColumnLink(u, k).dir # u.dir
    BY <1>5, <2>1
  <2> QED
    BY <2>2 DEF u
<1>7. ASSUME NEW l \in TableChips(t)
      PROVE  l \in Table /\ l.policy = t.policy
  <2>1. \/ l = [t EXCEPT !.sev = {}]
        \/ l = [t EXCEPT !.sort = "overdue", !.dir = "desc"]
        \/ l = [DefaultTable EXCEPT !.policy = t.policy]
    BY DEF TableChips
  <2>2. CASE l = [t EXCEPT !.sev = {}]
    BY <1>1, <2>2
  <2>3. CASE l = [t EXCEPT !.sort = "overdue", !.dir = "desc"]
    BY <1>2, <2>3
  <2>4. CASE l = [DefaultTable EXCEPT !.policy = t.policy]
    <3>1. l = [sev |-> {}, sort |-> "overdue", dir |-> "desc", policy |-> t.policy]
      BY <2>4 DEF DefaultTable
    <3> QED
      BY <3>1 DEF Table
  <2> QED
    BY <2>1, <2>2, <2>3, <2>4
<1> QED
  BY <1>3, <1>4, <1>5, <1>6, <1>7

-----------------------------------------------------------------------------
(* The browser: the report of the server.                                  *)

\* The places where a window has passed.
Late(scanned, windows) ==
    {p \in scanned \X (0 .. 4) : p[2] \in OpenOf[p[1]] /\ AgeOf[p[1]] > windows[p[2]]}

\* There are five severities.
LEMMA SeveritiesFinite == IsFiniteSet(0 .. 4)
<1> DEFINE a == 0
           b == 4
<1>1. a \in Int /\ b \in Int
  OBVIOUS
<1> HIDE DEF a, b
<1>2. IsFiniteSet(a .. b)
  BY <1>1, FS_Interval
<1> QED
  BY <1>2 DEF a, b

\* Each is a breach of its own.
LEMMA BreachesTell ==
    ASSUME NEW scanned \in SUBSET DOMAIN AgeOf, NEW windows \in [0 .. 4 -> Nat],
           NEW found, found = BreachesOf(scanned, windows)
    PROVE  /\ IsFiniteSet(Late(scanned, windows)) /\ IsFiniteSet(found)
           /\ Cardinality(found) = Cardinality(Late(scanned, windows))
           /\ \A b \in found : /\ b.review \in Nat /\ b.severity \in 0 .. 4 /\ b.age \in Nat
                               /\ b.sla = windows[b.severity] /\ b.overdue \in Int
                               /\ b.age > windows[b.severity]
           /\ \A b, c \in found : b.review = c.review /\ b.severity = c.severity => b = c
<1> DEFINE late == Late(scanned, windows)
           breach == [p \in late |-> Breach(p[1], p[2], windows)]
<1>0. /\ DOMAIN AgeOf = 1 .. Len(AgeOf) /\ Len(AgeOf) \in Nat
      /\ \A r \in DOMAIN AgeOf : AgeOf[r] \in Nat /\ OpenOf[r] \subseteq 0 .. 4
  BY SlaBoardAssumption
<1>1. IsFiniteSet(late)
  <2>1. IsFiniteSet(scanned) /\ IsFiniteSet(0 .. 4)
    BY <1>0, UpToCount, FS_Subset, SeveritiesFinite
  <2>2. IsFiniteSet(scanned \X (0 .. 4)) /\ late \subseteq scanned \X (0 .. 4)
    BY <2>1, FS_Product DEF Late
  <2> QED
    BY <2>2, FS_Subset
<1>2. ASSUME NEW p \in late
      PROVE  /\ p[1] \in scanned /\ p[2] \in 0 .. 4 /\ p = <<p[1], p[2]>>
             /\ p[2] \in OpenOf[p[1]] /\ AgeOf[p[1]] > windows[p[2]]
  BY DEF Late
<1>3. \A r \in scanned, s \in 0 .. 4 : s \in OpenOf[r] /\ AgeOf[r] > windows[s] => <<r, s>> \in late
  BY DEF Late
<1> HIDE DEF late
<1>4. \A b \in found : \E p \in late : b = breach[p]
  <2> SUFFICES ASSUME NEW b \in found
               PROVE  \E p \in late : b = breach[p]
    OBVIOUS
  <2>1. PICK r \in scanned : b \in {Breach(r, s, windows) : s \in {s \in OpenOf[r] : AgeOf[r] > windows[s]}}
    BY DEF BreachesOf
  <2>2. PICK s \in OpenOf[r] : AgeOf[r] > windows[s] /\ b = Breach(r, s, windows)
    BY <2>1
  <2>3. <<r, s>> \in late
    BY <1>0, <1>3, <2>2
  <2> QED
    BY <2>2, <2>3
<1>5. \A p \in late : breach[p] \in found
  <2> SUFFICES ASSUME NEW p \in late
               PROVE  Breach(p[1], p[2], windows) \in found
    OBVIOUS
  <2> QED
    BY <1>2 DEF BreachesOf
<1>6. ASSUME NEW p \in late
      PROVE  /\ breach[p].review = p[1] /\ breach[p].severity = p[2] /\ breach[p].age = AgeOf[p[1]]
             /\ breach[p].sla = windows[p[2]] /\ breach[p].overdue = AgeOf[p[1]] - windows[p[2]]
  BY DEF Breach
<1>7. breach \in Bijection(late, found)
  <2>1. \A p, q \in late : breach[p] = breach[q] => p = q
    BY <1>2, <1>6
  <2>2. breach \in [late -> found]
    BY <1>5
  <2>3. \A b \in found : \E p \in late : breach[p] = b
    BY <1>4
  <2> HIDE DEF breach
  <2> QED
    BY <2>1, <2>2, <2>3, Fun_IsBij
<1> HIDE DEF breach
<1>8. IsFiniteSet(found) /\ Cardinality(found) = Cardinality(late)
  <2>1. ExistsBijection(late, found)
    BY <1>7 DEF ExistsBijection
  <2> QED
    BY <1>1, <2>1, FS_Bijection
<1>9. ASSUME NEW b \in found
      PROVE  /\ b.review \in Nat /\ b.severity \in 0 .. 4 /\ b.age \in Nat
             /\ b.sla = windows[b.severity] /\ b.overdue \in Int /\ b.age > windows[b.severity]
  <2>1. PICK p \in late : b = breach[p]
    BY <1>4
  <2>2. p[1] \in Nat /\ p[2] \in 0 .. 4 /\ AgeOf[p[1]] \in Nat /\ windows[p[2]] \in Nat /\ AgeOf[p[1]] > windows[p[2]]
    BY <1>0, <1>2
  <2> QED
    BY <1>6, <2>1, <2>2
<1>10. ASSUME NEW b \in found, NEW c \in found, b.review = c.review, b.severity = c.severity
       PROVE  b = c
  <2>1. PICK p \in late : b = breach[p]
    BY <1>4
  <2>2. PICK q \in late : c = breach[q]
    BY <1>4
  <2> QED
    BY <1>2, <1>6, <1>10, <2>1, <2>2
<1> QED
  BY <1>1, <1>8, <1>9, <1>10 DEF late

\* The report lists each breach once, the most overdue first.
LEMMA ReportTells ==
    ASSUME NEW scanned \in SUBSET DOMAIN AgeOf, NEW windows \in [0 .. 4 -> Nat],
           NEW found, found = BreachesOf(scanned, windows),
           NEW breaches, breaches = Sorted([b \in found |-> {c \in found : MostOverdueFirst(c, b)}])
    PROVE  /\ breaches \in Seq(found) /\ Len(breaches) = Cardinality(found)
           /\ breaches \in Bijection(1 .. Len(breaches), found)
           /\ \A i, j \in DOMAIN breaches : i < j => breaches[i].overdue >= breaches[j].overdue
<1> DEFINE R == {p \in found \X found : MostOverdueFirst(p[1], p[2])}
           before == [b \in found |-> {c \in found : MostOverdueFirst(c, b)}]
           n == Cardinality(found)
<1>1. /\ IsFiniteSet(found)
      /\ \A b \in found : b.review \in Int /\ b.severity \in Int /\ b.overdue \in Int
      /\ \A b, c \in found : b.review = c.review /\ b.severity = c.severity => b = c
  BY BreachesTell
<1>2. Orders(R, found)
  <2>0. \A b, c \in found : <<b, c>> \in R <=> MostOverdueFirst(b, c)
    OBVIOUS
  <2> HIDE DEF R
  <2>1. \A a, b, c \in found : <<a, b>> \in R /\ <<b, c>> \in R => <<a, c>> \in R
    <3> SUFFICES ASSUME NEW a \in found, NEW b \in found, NEW c \in found,
                        MostOverdueFirst(a, b), MostOverdueFirst(b, c)
                 PROVE  MostOverdueFirst(a, c)
      BY <2>0
    <3> QED
      BY <1>1 DEF MostOverdueFirst, FoundFirst
  <2>2. \A b \in found : <<b, b>> \notin R
    BY <1>1, <2>0 DEF MostOverdueFirst, FoundFirst
  <2>3. \A b, c \in found : b # c => <<b, c>> \in R \/ <<c, b>> \in R
    <3> SUFFICES ASSUME NEW b \in found, NEW c \in found, b # c
                 PROVE  MostOverdueFirst(b, c) \/ MostOverdueFirst(c, b)
      BY <2>0
    <3> QED
      BY <1>1 DEF MostOverdueFirst, FoundFirst
  <2> QED
    BY Zenon, <2>1, <2>2, <2>3 DEF Orders
<1>3. before = [b \in found |-> Preceding(found, R, b)]
  BY DEF Preceding
<1>4. \A b, c : <<b, c>> \in R => MostOverdueFirst(b, c)
  OBVIOUS
<1>5. breaches = Sorted(before)
  OBVIOUS
<1> HIDE DEF R, before
<1>6. /\ n \in Nat /\ Sorted(before) \in Seq(found) /\ Len(Sorted(before)) = n
      /\ Sorted(before) \in Bijection(1 .. n, found)
      /\ \A j, k \in 1 .. n : j < k <=> <<Sorted(before)[j], Sorted(before)[k]>> \in R
  BY <1>1, <1>2, <1>3, SortedTells
<1>7. DOMAIN breaches = 1 .. n
  BY <1>5, <1>6
<1>8. ASSUME NEW i \in 1 .. n, NEW j \in 1 .. n, i < j
      PROVE  breaches[i].overdue >= breaches[j].overdue
  <2>1. breaches[i] \in found /\ breaches[j] \in found
    BY <1>5, <1>6
  <2>2. MostOverdueFirst(breaches[i], breaches[j])
    BY <1>4, <1>5, <1>6, <1>8
  <2> QED
    BY <1>1, <2>1, <2>2 DEF MostOverdueFirst
<1> QED
  BY <1>5, <1>6, <1>7, <1>8

\* The open findings of some reviews, added up.
LEMMA OpenAddUp ==
    ASSUME NEW scanned \in SUBSET DOMAIN AgeOf, NEW windows \in [0 .. 4 -> Nat]
    PROVE  /\ MapThenSumSet(LAMBDA r : Cardinality(OpenOf[r]), scanned) \in Nat
           /\ Cardinality(Late(scanned, windows)) <= MapThenSumSet(LAMBDA r : Cardinality(OpenOf[r]), scanned)
<1> DEFINE S == scanned
           f == [r \in S |-> Cardinality(OpenOf[r])]
           Runs(it) == it = [s \in SUBSET S |->
               IF s = {} THEN 0 ELSE Cardinality(OpenOf[CHOOSE x \in s : TRUE]) + it[s \ {CHOOSE x \in s : TRUE}]]
           it == CHOOSE i : Runs(i)
           In(s) == {p \in Late(S, windows) : p[1] \in s}
           h == [s \in SUBSET S |-> Cardinality(In(s))]
<1>0. /\ IsFiniteSet(S)
      /\ \A r \in S : OpenOf[r] \subseteq 0 .. 4 /\ IsFiniteSet(OpenOf[r]) /\ Cardinality(OpenOf[r]) \in Nat
  <2>1. DOMAIN AgeOf = 1 .. Len(AgeOf) /\ Len(AgeOf) \in Nat /\ \A r \in DOMAIN AgeOf : OpenOf[r] \subseteq 0 .. 4
    BY SlaBoardAssumption
  <2> QED
    BY <2>1, SeveritiesFinite, UpToCount, FS_Subset, FS_CardinalityType
<1>1. f \in [S -> Nat] /\ \A r \in S : f[r] = Cardinality(OpenOf[r])
  BY <1>0
<1>2. MapThenSumSet(LAMBDA r : Cardinality(OpenOf[r]), S) = it[S]
  BY DEF MapThenSumSet, MapThenFoldSet
<1>3. \A s \in SUBSET S : s # {} => (CHOOSE x \in s : TRUE) \in S /\ s \ {CHOOSE x \in s : TRUE} \in SUBSET S
  OBVIOUS
<1> HIDE DEF f
<1>4. Runs(it)
  <2>1. PICK i : i \in [SUBSET S -> Nat] /\ SumsOver(i, f, S)
    BY <1>0, <1>1, SumExists
  <2>2. ASSUME NEW s \in SUBSET S
        PROVE  i[s] = IF s = {} THEN 0 ELSE Cardinality(OpenOf[CHOOSE x \in s : TRUE]) + i[s \ {CHOOSE x \in s : TRUE}]
    BY <1>1, <1>3, <2>1 DEF SumsOver
  <2>3. Runs(i)
    BY <2>1, <2>2
  <2> HIDE DEF Runs
  <2> QED
    BY <2>3
<1> HIDE DEF it
<1>5. SumsOver(it, f, S)
  <2> SUFFICES ASSUME NEW s \in SUBSET S
               PROVE  it[s] = IF s = {} THEN 0 ELSE f[CHOOSE x \in s : TRUE] + it[s \ {CHOOSE x \in s : TRUE}]
    BY DEF SumsOver
  <2> QED
    BY <1>1, <1>3, <1>4
<1>6. IsFiniteSet(Late(S, windows)) /\ \A s \in SUBSET S : IsFiniteSet(In(s)) /\ Cardinality(In(s)) \in Nat
  <2>1. IsFiniteSet(Late(S, windows))
    BY BreachesTell
  <2> QED
    BY <2>1, FS_Subset, FS_CardinalityType
<1>7. h \in [SUBSET S -> Nat] /\ h[{}] = 0
  <2>1. In({}) = {}
    OBVIOUS
  <2> QED
    BY <1>6, <2>1, FS_EmptySet
<1>8. ASSUME NEW s \in SUBSET S, NEW x \in s
      PROVE  h[s] <= f[x] + h[s \ {x}]
  <2> DEFINE here == In({x})
             rest == In(s \ {x})
             toOpen == [p \in here |-> p[2]]
  <2>1. In(s) = here \cup rest /\ here \cap rest = {}
    OBVIOUS
  <2>2. IsFiniteSet(here) /\ IsFiniteSet(rest) /\ Cardinality(here) \in Nat /\ Cardinality(rest) \in Nat
    BY <1>6
  <2>3. Cardinality(here) <= Cardinality(OpenOf[x])
    <3>1. toOpen \in [here -> OpenOf[x]] /\ \A p, q \in here : toOpen[p] = toOpen[q] => p = q
      BY DEF Late
    <3> HIDE DEF here, toOpen
    <3>2. toOpen \in Injection(here, OpenOf[x])
      BY <3>1 DEF Injection, IsInjective
    <3> QED
      BY <1>0, <2>2, <3>2, FS_Injection
  <2> HIDE DEF here, rest, In
  <2>4. Cardinality(In(s)) = Cardinality(here) + Cardinality(rest)
    <3>1. Cardinality(In(s)) = Cardinality(here) + Cardinality(rest) - Cardinality(here \cap rest)
      BY <2>1, <2>2, FS_Union
    <3>2. Cardinality(here \cap rest) = 0
      BY <2>1, FS_EmptySet
    <3> QED
      BY <2>2, <3>1, <3>2
  <2>5. h[s] = Cardinality(In(s)) /\ h[s \ {x}] = Cardinality(rest) /\ f[x] = Cardinality(OpenOf[x])
    BY <1>1 DEF rest
  <2>6. Cardinality(OpenOf[x]) \in Nat
    BY <1>0
  <2> HIDE DEF h
  <2> QED
    BY <2>2, <2>3, <2>4, <2>5, <2>6
<1>9. h[S] = Cardinality(Late(S, windows))
  <2>1. In(S) = Late(S, windows)
    BY DEF Late
  <2> QED
    BY <2>1
<1> HIDE DEF h, In
<1>10. it[S] \in Nat /\ h[S] <= it[S]
  BY <1>0, <1>1, <1>5, <1>7, <1>8, SumAtLeast
<1> QED
  BY <1>2, <1>9, <1>10

\* As many as there are to sort.
LEMMA SortedLength ==
    ASSUME NEW before, IsFiniteSet(DOMAIN before)
    PROVE  /\ Cardinality(DOMAIN before) \in Nat /\ DOMAIN Sorted(before) = 1 .. Cardinality(DOMAIN before)
           /\ Len(Sorted(before)) = Cardinality(DOMAIN before)
<1> DEFINE n == Cardinality(DOMAIN before)
           a == Sorted(before)
           E == {a[k] : k \in 1 .. n}
<1>1. n \in Nat
  BY FS_CardinalityType
<1>2. a = [k \in 1 .. n |-> CHOOSE x \in DOMAIN before : Cardinality(before[x]) = k - 1]
  BY DEF Sorted
<1>3. DOMAIN a = 1 .. n /\ a = [k \in 1 .. n |-> a[k]]
  BY <1>2
<1> HIDE DEF n, a
<1>4. a \in [1 .. n -> E]
  BY <1>3
<1>5. a \in Seq(E)
  BY <1>1, <1>4, SeqDef
<1>6. Len(a) = n
  BY <1>1, <1>3, <1>5, LenProperties
<1> QED
  BY <1>1, <1>3, <1>6 DEF n, a

\* The breaches of a severity.
Within(found, s) == {b \in found : b.severity = s}

\* Of a list that has each member of a set once, as many have a severity as in the set.
LEMMA SameCount ==
    ASSUME NEW found, NEW a \in Seq(found), a \in Bijection(1 .. Len(a), found), NEW s
    PROVE  /\ Range(a) = found
           /\ IsFiniteSet(Within(found, s)) /\ Len(OfSeverity(a, s)) = Cardinality(Within(found, s))
<1> DEFINE n == Len(a)
           P == {i \in DOMAIN a : a[i].severity = s}
           T == {b \in found : b.severity = s}
           m == [i \in P |-> a[i]]
<1>1. n \in Nat /\ DOMAIN a = 1 .. n
  BY LenProperties
<1>2. a \in [1 .. n -> found] /\ (\A i, j \in 1 .. n : a[i] = a[j] => i = j) /\ \A b \in found : \E i \in 1 .. n : a[i] = b
  <2> DEFINE I == 1 .. n
  <2>1. a \in Bijection(I, found)
    OBVIOUS
  <2> HIDE DEF I
  <2>2. a \in [I -> found] /\ (\A i, j \in I : a[i] = a[j] => i = j) /\ \A b \in found : \E i \in I : a[i] = b
    BY <2>1, Fun_BijectionProperties
  <2> QED
    BY <2>2 DEF I
<1>3. IsFiniteSet(P) /\ Len(Selected(a, P)) = Cardinality(P)
  <2>1. P \in SUBSET DOMAIN a
    OBVIOUS
  <2> HIDE DEF P
  <2> QED
    BY <2>1, SelectedTells
<1>4. m \in [P -> T] /\ (\A i, j \in P : m[i] = m[j] => i = j) /\ \A b \in T : \E i \in P : m[i] = b
  BY <1>1, <1>2
<1>5. Range(a) = found
  BY <1>1, <1>2 DEF Range
<1>6. OfSeverity(a, s) = Selected(a, P)
  BY DEF OfSeverity
<1> HIDE DEF m, P, T
<1>7. m \in Bijection(P, T)
  BY <1>4, Fun_IsBij
<1>8. IsFiniteSet(T) /\ Cardinality(T) = Cardinality(P)
  <2>1. ExistsBijection(P, T)
    BY <1>7 DEF ExistsBijection
  <2> QED
    BY <1>3, <2>1, FS_Bijection
<1> QED
  BY <1>3, <1>5, <1>6, <1>8 DEF T, Within

\* The report and the page that shows it, whatever was completed and whichever table.
LEMMA SlaHolds ==
    ASSUME NEW completed \in SUBSET DOMAIN AgeOf, NEW t \in Table
    PROVE  SlaAgrees(completed, t)
<1> DEFINE report == SlaReport(completed, t.policy)
           scanned == Newest(completed, ReportLimit)
           windows == Windows(t.policy)
           found == BreachesOf(scanned, windows)
           breaches == Sorted([b \in found |-> {c \in found : MostOverdueFirst(c, b)}])
           open == MapThenSumSet(LAMBDA r : Cardinality(OpenOf[r]), scanned)
           links == {TabLink(t, s) : s \in {{}} \cup {{x} : x \in 0 .. 4}} \cup {SegmentLink(t, s) : s \in 0 .. 4}
                    \cup {ColumnLink(t, k) : k \in {"severity", "age", "sla", "overdue"}} \cup TableChips(t)
<1>1. scanned \in SUBSET DOMAIN AgeOf
  BY DEF Newest
<1>2. windows \in [0 .. 4 -> Nat]
  <2>1. PICK S \in SUBSET (0 .. 4) : t.policy \in [S -> Nat \ {0}]
    BY DEF Table
  <2>2. DefaultPolicy \in [0 .. 4 -> Nat]
    BY SlaBoardAssumption
  <2> QED
    BY <2>1, <2>2 DEF Windows
<1>3. /\ report.policy = windows /\ report.totalOpen = open /\ report.totalBreached = Len(breaches)
      /\ \A s \in 0 .. 4 : report.breachedBySeverity[s] = Len(OfSeverity(breaches, s))
      /\ report.breaches = breaches
  BY DEF SlaReport
<1> HIDE DEF report, scanned, windows, open
<1>4. /\ \A b \in found : /\ b.severity \in 0 .. 4 /\ b.age > windows[b.severity]
      /\ IsFiniteSet(found) /\ Cardinality(found) = Cardinality(Late(scanned, windows))
  BY <1>1, <1>2, BreachesTell
<1>5. /\ breaches \in Seq(found) /\ Len(breaches) = Cardinality(found)
      /\ breaches \in Bijection(1 .. Len(breaches), found)
      /\ \A i, j \in DOMAIN breaches : i < j => breaches[i].overdue >= breaches[j].overdue
  BY <1>1, <1>2, ReportTells
<1>6. Len(breaches) <= open
  BY <1>1, <1>2, <1>4, <1>5, OpenAddUp DEF open
<1> HIDE DEF found, breaches
<1>7. ASSUME NEW i \in DOMAIN breaches, NEW j \in DOMAIN breaches
      PROVE  /\ breaches[i].age > windows[breaches[i].severity]
             /\ i < j => breaches[i].overdue >= breaches[j].overdue
  <2>1. breaches[i] \in found
    BY <1>5
  <2> QED
    BY <1>4, <1>5, <2>1
<1>8. ASSUME NEW s \in 0 .. 4
      PROVE  Len(TableRows(TabLink(t, {s}), breaches)) = Len(OfSeverity(breaches, s))
  <2> DEFINE tab == TabLink(t, {s})
             among == {b \in Range(breaches) : tab.sev = {} \/ b.severity \in tab.sev}
             T == Within(found, s)
  <2>1. tab.sev = {s}
    BY DEF TabLink, Table
  <2>2. Range(breaches) = found /\ IsFiniteSet(T) /\ Len(OfSeverity(breaches, s)) = Cardinality(T)
    <3>1. breaches \in Seq(found) /\ breaches \in Bijection(1 .. Len(breaches), found)
      BY <1>5
    <3> HIDE DEF tab
    <3> QED
      BY <3>1, SameCount
  <2>3. among = T
    BY <2>1, <2>2 DEF Within
  <2> HIDE DEF tab, T
  <2>4. PICK before : DOMAIN before = among /\ TableRows(tab, breaches) = Sorted(before)
    BY DEF TableRows
  <2> QED
    BY <2>2, <2>3, <2>4, SortedLength DEF tab
<1>9. ASSUME NEW l \in links
      PROVE  TableOf(TableQuery(l)) = l /\ l.policy = t.policy
  <2>0. /\ \A s \in {{}} \cup {{x} : x \in 0 .. 4} : TabLink(t, s) \in Table /\ TabLink(t, s).policy = t.policy
        /\ \A s \in 0 .. 4 : SegmentLink(t, s) \in Table /\ SegmentLink(t, s).policy = t.policy
        /\ \A k \in {"severity", "age", "sla", "overdue"} :
              ColumnLink(t, k) \in Table /\ ColumnLink(t, k).policy = t.policy
        /\ \A m \in TableChips(t) : m \in Table /\ m.policy = t.policy
    BY Zenon, TableLinks
  <2>1. l \in Table /\ l.policy = t.policy
    <3>1. CASE l \in {TabLink(t, s) : s \in {{}} \cup {{x} : x \in 0 .. 4}}
      BY <2>0, <3>1, Zenon
    <3>2. CASE l \in {SegmentLink(t, s) : s \in 0 .. 4}
      BY <2>0, <3>2
    <3>3. CASE l \in {ColumnLink(t, k) : k \in {"severity", "age", "sla", "overdue"}}
      BY <2>0, <3>3
    <3>4. CASE l \in TableChips(t)
      BY <2>0, <3>4
    <3> QED
      BY <3>1, <3>2, <3>3, <3>4
  <2> QED
    BY <2>1, TableReadBack
<1>10. ASSUME NEW k \in {"severity", "age", "sla", "overdue"}
       PROVE  ColumnLink(t, k).sort = k /\ ColumnLink(ColumnLink(t, k), k).dir # ColumnLink(t, k).dir
  <2>1. \A c \in {"severity", "age", "sla", "overdue"} :
           ColumnLink(t, c).sort = c /\ ColumnLink(ColumnLink(t, c), c).dir # ColumnLink(t, c).dir
    BY Zenon, TableLinks
  <2> QED
    BY <2>1
<1> HIDE DEF links
<1> QED
  BY <1>3, <1>6, <1>7, <1>8, <1>9, <1>10 DEF SlaAgrees, report, links

-----------------------------------------------------------------------------
(* The browser: the list of reviews.                                       *)

\* The lists the page can be asked for, and the reviews there may be.
Lists == [status : SUBSET StatusValues, place : SUBSET Nat, sort : SortKeys, dir : {"asc", "desc"}]
FleetTyped == fleet \in Seq(StatusValues) /\ Len(fleet) <= Len(AgeOf)

\* Whatever the query, what is read from it is a list.
LEMMA ListRead ==
    ASSUME NEW q, IsQuery(q)
    PROVE  ListOf(q) \in Lists
<1> DEFINE Of(k) == IF k \in DOMAIN q THEN q[k] ELSE DefaultList[k]
           allowed == Of("status") \cap StatusValues
           place == Of("place")
           sort == IF Of("sort") \in SortKeys THEN Of("sort") ELSE "created"
           dir == IF Of("dir") = "asc" THEN "asc" ELSE "desc"
<1>1. allowed \in SUBSET StatusValues
  OBVIOUS
<1>2. place \in SUBSET Nat
  <2>1. CASE "place" \in DOMAIN q
    BY <2>1 DEF IsQuery
  <2>2. CASE "place" \notin DOMAIN q
    BY <2>2 DEF DefaultList
  <2> QED
    BY <2>1, <2>2
<1>3. sort \in SortKeys /\ dir \in {"asc", "desc"}
  BY DEF SortKeys
<1>4. ListOf(q) = [status |-> allowed, place |-> place, sort |-> sort, dir |-> dir]
  BY DEF ListOf
<1> HIDE DEF allowed, place, sort, dir
<1> QED
  BY <1>1, <1>2, <1>3, <1>4 DEF Lists

\* A link to a list is read back as it was meant.
LEMMA ListReadBack ==
    ASSUME NEW l \in Lists
    PROVE  ListOf(ListQuery(l)) = l
<1> DEFINE q == ListQuery(l)
           Of(k) == IF k \in DOMAIN q THEN q[k] ELSE DefaultList[k]
<1>1. DOMAIN l = {"status", "place", "sort", "dir"}
  BY DEF Lists
<1>2. \A k \in {"status", "place", "sort", "dir"} : Of(k) = l[k]
  BY <1>1 DEF ListQuery
<1>3. ListOf(q) = [status |-> Of("status") \cap StatusValues, place |-> Of("place"),
                   sort |-> IF Of("sort") \in SortKeys THEN Of("sort") ELSE "created",
                   dir |-> IF Of("dir") = "asc" THEN "asc" ELSE "desc"]
  BY DEF ListOf
<1> HIDE DEF q, Of
<1>4. /\ l.status \in SUBSET StatusValues /\ l.sort \in SortKeys /\ l.dir \in {"asc", "desc"}
      /\ l = [status |-> l.status, place |-> l.place, sort |-> l.sort, dir |-> l.dir]
  BY DEF Lists
<1>5. Of("status") = l.status /\ Of("place") = l.place /\ Of("sort") = l.sort /\ Of("dir") = l.dir
  BY <1>2
<1>6. /\ l.status \cap StatusValues = l.status
      /\ (IF l.sort \in SortKeys THEN l.sort ELSE "created") = l.sort
      /\ (IF l.dir = "asc" THEN "asc" ELSE "desc") = l.dir
  BY <1>4
<1> QED
  BY <1>3, <1>4, <1>5, <1>6 DEF q

\* A list is the default exactly when nothing is on, and then its query is empty.
LEMMA ChipsTell ==
    ASSUME NEW l \in Lists
    PROVE  (ListChips(l) = {}) = (ListQuery(l) = <<>>)
<1> DEFINE plain == l.status = {} /\ l.place = {} /\ l.sort = "created" /\ l.dir = "desc"
           D == {k \in DOMAIN l : l[k] # DefaultList[k]}
<1>1. ListChips(l) = {} <=> plain
  <2>1. plain => ListChips(l) = {}
    <3>1. Cardinality({}) = 0
      BY FS_EmptySet
    <3> QED
      BY <3>1 DEF ListChips
  <2>2. ~plain => ListChips(l) # {}
    <3>1. CASE l.status # {}
      BY <3>1 DEF ListChips
    <3>2. CASE l.place # {}
      BY <3>2 DEF ListChips
    <3>3. CASE l.sort # "created" \/ l.dir # "desc"
      BY <3>3 DEF ListChips
    <3> QED
      BY <3>1, <3>2, <3>3
  <2> QED
    BY <2>1, <2>2
<1>2. D = {} <=> plain
  <2>1. DOMAIN l = {"status", "place", "sort", "dir"}
    BY DEF Lists
  <2>2. /\ DefaultList["status"] = {} /\ DefaultList["place"] = {}
        /\ DefaultList["sort"] = "created" /\ DefaultList["dir"] = "desc"
    BY DEF DefaultList
  <2> QED
    BY <2>1, <2>2
<1>3. ListQuery(l) = [k \in D |-> l[k]]
  BY DEF ListQuery
<1> HIDE DEF D, plain
<1>4. D = {} => ListQuery(l) = <<>>
  BY <1>3
<1>5. D # {} => ListQuery(l) # <<>>
  <2>1. DOMAIN ListQuery(l) = D /\ DOMAIN <<>> = {}
    BY <1>3
  <2> QED
    BY <2>1
<1> QED
  BY <1>1, <1>2, <1>4, <1>5

\* The links of a list lead to lists.
LEMMA LinksStay ==
    ASSUME NEW l \in Lists, NEW m \in ListLinks(l)
    PROVE  m \in Lists
<1>1. ASSUME NEW S \in SUBSET StatusValues
      PROVE  [l EXCEPT !.status = S] \in Lists
  BY DEF Lists
<1>2. [l EXCEPT !.place = {}] \in Lists
  BY DEF Lists
<1>3. ASSUME NEW k \in SortKeys, NEW d \in {"asc", "desc"}
      PROVE  [l EXCEPT !.sort = k, !.dir = d] \in Lists
  BY DEF Lists
<1>4. DefaultList \in Lists
  BY DEF DefaultList, Lists, SortKeys
<1>5. l.status \subseteq StatusValues
  BY DEF Lists
<1>6. ASSUME NEW s \in StatusValues
      PROVE  StatusLink(l, s) \in Lists
  <2> DEFINE S == IF s \in l.status THEN l.status \ {s} ELSE l.status \cup {s}
  <2>1. S \in SUBSET StatusValues /\ StatusLink(l, s) = [l EXCEPT !.status = S]
    BY <1>5 DEF StatusLink
  <2> HIDE DEF S
  <2> QED
    BY <1>1, <2>1
<1>7. ASSUME NEW k \in SortKeys
      PROVE  SortLink(l, k) \in Lists
  <2> DEFINE d == IF l.sort = k /\ l.dir = "desc" THEN "asc" ELSE "desc"
  <2>1. d \in {"asc", "desc"} /\ SortLink(l, k) = [l EXCEPT !.sort = k, !.dir = d]
    BY DEF SortLink
  <2> HIDE DEF d
  <2>2. [l EXCEPT !.sort = k, !.dir = d] \in Lists
    BY <1>3, <2>1
  <2> QED
    BY <2>1, <2>2
<1>8. [l EXCEPT !.status = {}] \in Lists
  BY <1>1
<1>9. [l EXCEPT !.sort = "created", !.dir = "desc"] \in Lists
  BY <1>3 DEF SortKeys
<1>10. ASSUME NEW c \in ListChips(l)
       PROVE  c \in Lists
  <2>1. \/ \E s \in l.status : c = [l EXCEPT !.status = @ \ {s}]
        \/ c = [l EXCEPT !.place = {}]
        \/ c = [l EXCEPT !.sort = "created", !.dir = "desc"]
        \/ c = [l EXCEPT !.status = {}]
    BY DEF ListChips
  <2>2. ASSUME NEW s \in l.status, c = [l EXCEPT !.status = @ \ {s}]
        PROVE  c \in Lists
    BY <1>5, <2>2 DEF Lists
  <2> QED
    BY <1>2, <1>8, <1>9, <2>1, <2>2
<1>11. \/ \E s \in StatusValues : m = StatusLink(l, s)
       \/ m = [l EXCEPT !.status = {}]
       \/ \E k \in SortKeys : m = SortLink(l, k)
       \/ m \in ListChips(l)
       \/ m = DefaultList
  BY DEF ListLinks
<1> QED
  BY <1>4, <1>6, <1>7, <1>8, <1>10, <1>11

\* The newest of some are the newest of fewer.
LEMMA NewestOfFewer ==
    ASSUME NEW B, IsFiniteSet(B), B \subseteq Nat, NEW A \in SUBSET B, NEW limit \in Nat
    PROVE  /\ \A r \in A : r \in Newest(B, limit) => r \in Newest(A, limit)
           /\ \A more \in Nat : limit <= more => Newest(B, limit) \subseteq Newest(B, more)
           /\ Cardinality(B) <= limit => Newest(B, limit) = B
<1>1. \A r, X : X \in SUBSET B => /\ IsFiniteSet({s \in X : s > r}) /\ Cardinality({s \in X : s > r}) \in Nat
                                  /\ Cardinality({s \in X : s > r}) <= Cardinality({s \in B : s > r})
  <2> SUFFICES ASSUME NEW r, NEW X \in SUBSET B
               PROVE  /\ IsFiniteSet({s \in X : s > r}) /\ Cardinality({s \in X : s > r}) \in Nat
                      /\ Cardinality({s \in X : s > r}) <= Cardinality({s \in B : s > r})
    OBVIOUS
  <2> DEFINE F == {s \in X : s > r}
             G == {s \in B : s > r}
  <2>1. F \subseteq G /\ G \subseteq B
    OBVIOUS
  <2> HIDE DEF F, G
  <2>2. IsFiniteSet(G) /\ IsFiniteSet(F) /\ Cardinality(F) \in Nat /\ Cardinality(F) <= Cardinality(G)
    BY <2>1, FS_Subset, FS_CardinalityType
  <2> QED
    BY <2>2 DEF F, G
<1>2. ASSUME NEW r \in A, r \in Newest(B, limit)
      PROVE  r \in Newest(A, limit)
  <2> DEFINE a == Cardinality({s \in A : s > r})
             b == Cardinality({s \in B : s > r})
  <2>1. a \in Nat /\ b \in Nat /\ a <= b
    BY <1>1
  <2>2. b < limit
    BY <1>2 DEF Newest
  <2>3. a < limit
    <3> HIDE DEF a, b
    <3> QED
      BY <2>1, <2>2
  <2> QED
    BY <2>3 DEF Newest
<1>3. ASSUME NEW more \in Nat, limit <= more, NEW r \in Newest(B, limit)
      PROVE  r \in Newest(B, more)
  <2> DEFINE b == Cardinality({s \in B : s > r})
  <2>1. r \in B /\ b < limit /\ b \in Nat
    BY <1>1 DEF Newest
  <2>2. b < more
    <3> HIDE DEF b
    <3> QED
      BY <1>3, <2>1
  <2> QED
    BY <2>1, <2>2 DEF Newest
<1>4. ASSUME Cardinality(B) <= limit, NEW r \in B
      PROVE  r \in Newest(B, limit)
  <2> DEFINE G == {s \in B : s > r}
             b == Cardinality(G)
  <2>1. G \subseteq B \ {r} /\ IsFiniteSet(B \ {r}) /\ Cardinality(B \ {r}) = Cardinality(B) - 1 /\ Cardinality(B) \in Nat
    BY FS_RemoveElement, FS_CardinalityType
  <2>2. IsFiniteSet(G) /\ b <= Cardinality(B) - 1 /\ b \in Nat
    <3> HIDE DEF G
    <3> QED
      BY <2>1, FS_Subset, FS_CardinalityType
  <2>3. b < limit
    <3> HIDE DEF b
    <3> QED
      BY <1>4, <2>1, <2>2
  <2> QED
    BY <2>3 DEF Newest
<1>5. Newest(B, limit) \subseteq B
  BY DEF Newest
<1> QED
  BY <1>2, <1>3, <1>4, <1>5

\* The reviews are numbered, and none is older than the first.
LEMMA ReviewsTell ==
    ASSUME FleetTyped
    PROVE  /\ Reviews = 1 .. Len(fleet) /\ IsFiniteSet(Reviews) /\ Reviews \subseteq Nat /\ Reviews \subseteq DOMAIN AgeOf
           /\ \A r \in Reviews : fleet[r] \in StatusValues
<1>1. Len(fleet) \in Nat /\ Len(AgeOf) \in Nat /\ DOMAIN fleet = 1 .. Len(fleet) /\ DOMAIN AgeOf = 1 .. Len(AgeOf)
      /\ Len(fleet) <= Len(AgeOf) /\ \A r \in DOMAIN fleet : fleet[r] \in StatusValues
  BY SlaBoardAssumption DEF FleetTyped
<1> QED
  BY <1>1, UpToCount DEF Reviews

\* Among the reviews that a list asks for.
Asked(l, S) == {r \in Reviews : (S # {} => fleet[r] \in S) /\ (l.place # {} => PlaceOf[r] \in l.place)}

\* What is fetched is among what is asked for, the newest of it; what the newest reviews of
\* all have of it is there.
LEMMA FetchTells ==
    ASSUME FleetTyped, NEW l \in Lists
    PROVE  /\ Fetch(l) \subseteq Reviews
           /\ \A s \in StatusValues : l.status = {s} => Fetch(l) = Newest(Asked(l, {s}), ListLimit)
           /\ (\A s \in StatusValues : l.status # {s}) =>
                  Fetch(l) = {r \in Newest(Asked(l, {}), ListLimit) : l.status # {} => fleet[r] \in l.status}
<1> DEFINE one == Cardinality(l.status) = 1
           served == Newest({r \in Reviews : (one => fleet[r] \in l.status)
                                             /\ (l.place # {} => PlaceOf[r] \in l.place)}, ListLimit)
<1>1. Fetch(l) = IF l.status = {} \/ one THEN served ELSE {r \in served : fleet[r] \in l.status}
  BY DEF Fetch
<1>2. one <=> \E s \in StatusValues : l.status = {s}
  <2>1. l.status \subseteq StatusValues
    BY DEF Lists
  <2>2. IsFiniteSet(StatusValues)
    <3>1. IsFiniteSet({"running"}) /\ IsFiniteSet({"completed"}) /\ IsFiniteSet({"failed"}) /\ IsFiniteSet({"queued"})
      BY FS_Singleton
    <3>2. IsFiniteSet({"running"} \cup {"completed"}) /\ IsFiniteSet({"failed"} \cup {"queued"})
      BY <3>1, FS_Union
    <3>3. IsFiniteSet(({"running"} \cup {"completed"}) \cup ({"failed"} \cup {"queued"}))
      BY <3>2, FS_Union
    <3>4. StatusValues = ({"running"} \cup {"completed"}) \cup ({"failed"} \cup {"queued"})
      BY DEF StatusValues
    <3> QED
      BY <3>3, <3>4
  <2>3. IsFiniteSet(l.status)
    BY <2>1, <2>2, FS_Subset
  <2>4. one <=> \E s : l.status = {s}
    BY <2>3, FS_Singleton
  <2> QED
    BY <2>1, <2>4
<1> HIDE DEF one
<1>3. served \subseteq Reviews
  BY DEF Newest
<1>4. ASSUME NEW s \in StatusValues, l.status = {s}
      PROVE  Fetch(l) = Newest(Asked(l, {s}), ListLimit)
  <2>1. one
    BY <1>2, <1>4
  <2>2. {r \in Reviews : (one => fleet[r] \in l.status) /\ (l.place # {} => PlaceOf[r] \in l.place)} = Asked(l, {s})
    BY <1>4, <2>1 DEF Asked
  <2> QED
    BY <1>1, <2>1, <2>2
<1>5. ASSUME \A s \in StatusValues : l.status # {s}
      PROVE  Fetch(l) = {r \in Newest(Asked(l, {}), ListLimit) : l.status # {} => fleet[r] \in l.status}
  <2>1. ~one
    BY <1>2, <1>5
  <2>2. {r \in Reviews : (one => fleet[r] \in l.status) /\ (l.place # {} => PlaceOf[r] \in l.place)} = Asked(l, {})
    BY <2>1 DEF Asked
  <2> QED
    BY <1>1, <2>1, <2>2
<1>6. Fetch(l) \subseteq Reviews
  <2> HIDE DEF served
  <2> QED
    BY <1>1, <1>3
<1> QED
  BY <1>4, <1>5, <1>6

\* What several statuses show of one, its own tab shows.
LEMMA TabShows ==
    ASSUME FleetTyped, NEW l \in Lists, NEW s \in l.status
    PROVE  Fetch(l) \cap InStatus({s}) \subseteq Fetch([l EXCEPT !.status = {s}])
<1> DEFINE m == [l EXCEPT !.status = {s}]
           B == Asked(l, {})
           A == Asked(l, {s})
<1>1. s \in StatusValues /\ m \in Lists /\ m.status = {s} /\ m.place = l.place
  BY DEF Lists
<1> HIDE DEF m
<1>2. Asked(m, {s}) = A
  BY <1>1 DEF Asked
<1>3. Fetch(m) = Newest(A, ListLimit)
  BY <1>1, <1>2, FetchTells
<1>4. CASE l.status = {s}
  <2>1. Fetch(l) = Newest(A, ListLimit)
    BY <1>1, <1>4, FetchTells
  <2> QED
    BY <1>3, <2>1 DEF m
<1>5. CASE l.status # {s}
  <2>1. \A t \in StatusValues : l.status # {t}
    BY <1>5
  <2>2. Fetch(l) = {r \in Newest(B, ListLimit) : l.status # {} => fleet[r] \in l.status}
    BY <2>1, FetchTells
  <2>3. A \in SUBSET B /\ B \subseteq Reviews
    BY DEF Asked
  <2>4. IsFiniteSet(B) /\ B \subseteq Nat /\ ListLimit \in Nat
    BY <2>3, ReviewsTell, FS_Subset, ReviewBrowserAssumption
  <2>5. \A r \in B : r \in InStatus({s}) => r \in A
    BY DEF Asked, InStatus
  <2> HIDE DEF A, B
  <2>6. \A r \in A : r \in Newest(B, ListLimit) => r \in Newest(A, ListLimit)
    BY <2>3, <2>4, NewestOfFewer
  <2>7. Newest(B, ListLimit) \subseteq B
    BY DEF Newest
  <2> QED
    BY <1>3, <2>2, <2>5, <2>6, <2>7 DEF m
<1> QED
  BY <1>4, <1>5

\* Not everything is above its mean.
LEMMA SomeNotAbove ==
    ASSUME FleetTyped, NEW rows \in SUBSET Reviews, rows # {}, NEW key \in SortKeys
    PROVE  /\ \A r \in rows : SortValue(key, r) \in Nat
           /\ MapThenSumSet(LAMBDA r : SortValue(key, r), rows) \in Nat
           /\ \E some \in rows : Cardinality(rows) * SortValue(key, some) <= MapThenSumSet(LAMBDA r : SortValue(key, r), rows)
<1> DEFINE S == rows
           f == [r \in S |-> SortValue(key, r)]
           Runs(it) == it = [s \in SUBSET S |->
               IF s = {} THEN 0 ELSE SortValue(key, CHOOSE x \in s : TRUE) + it[s \ {CHOOSE x \in s : TRUE}]]
           it == CHOOSE i : Runs(i)
<1>0. IsFiniteSet(S) /\ \A r \in S : SortValue(key, r) \in Nat
  <2>1. IsFiniteSet(S)
    BY ReviewsTell, FS_Subset
  <2>2. ASSUME NEW r \in S
        PROVE  SortValue(key, r) \in Nat
    <3>1. r \in Nat /\ FindingsIn[r] \in Nat /\ CostOf[r] \in Nat /\ TookOf[r] \in Nat
      BY ReviewsTell, ReviewBrowserAssumption
    <3> QED
      BY <3>1 DEF SortValue, SortKeys
  <2> QED
    BY <2>1, <2>2
<1>1. f \in [S -> Nat] /\ \A r \in S : f[r] = SortValue(key, r)
  BY <1>0
<1>2. MapThenSumSet(LAMBDA r : SortValue(key, r), S) = it[S]
  BY DEF MapThenSumSet, MapThenFoldSet
<1>3. \A s \in SUBSET S : s # {} => (CHOOSE x \in s : TRUE) \in S /\ s \ {CHOOSE x \in s : TRUE} \in SUBSET S
  OBVIOUS
<1> HIDE DEF f
<1>4. Runs(it)
  <2>1. PICK i : i \in [SUBSET S -> Nat] /\ SumsOver(i, f, S)
    BY <1>0, <1>1, SumExists
  <2>2. ASSUME NEW s \in SUBSET S
        PROVE  i[s] = IF s = {} THEN 0 ELSE SortValue(key, CHOOSE x \in s : TRUE) + i[s \ {CHOOSE x \in s : TRUE}]
    BY <1>1, <1>3, <2>1 DEF SumsOver
  <2>3. Runs(i)
    BY <2>1, <2>2
  <2> HIDE DEF Runs
  <2> QED
    BY <2>3
<1> HIDE DEF it
<1>5. SumsOver(it, f, S)
  <2> SUFFICES ASSUME NEW s \in SUBSET S
               PROVE  it[s] = IF s = {} THEN 0 ELSE f[CHOOSE x \in s : TRUE] + it[s \ {CHOOSE x \in s : TRUE}]
    BY DEF SumsOver
  <2> QED
    BY <1>1, <1>3, <1>4
<1>6. PICK low \in S : \A r \in S : f[low] <= f[r]
  <2> DEFINE T == {f[r] : r \in S}
  <2>1. T \in SUBSET Nat /\ T # {}
    BY <1>1
  <2> HIDE DEF T
  <2>2. PICK v \in T : \A u \in T : v <= u
    BY <2>1, Least
  <2> QED
    BY <2>2 DEF T
<1> DEFINE m == f[low]
           h == [s \in SUBSET S |-> Cardinality(s) * m]
<1>7. m \in Nat /\ \A r \in S : m <= f[r]
  BY <1>1, <1>6
<1> HIDE DEF m
<1>8. \A s \in SUBSET S : IsFiniteSet(s) /\ Cardinality(s) \in Nat
  BY <1>0, FS_Subset, FS_CardinalityType
<1>9. h \in [SUBSET S -> Nat] /\ h[{}] = 0
  <2>1. \A s \in SUBSET S : Cardinality(s) * m \in Nat
    BY <1>7, <1>8
  <2>2. Cardinality({}) = 0
    BY FS_EmptySet
  <2> QED
    BY <1>7, <2>1, <2>2
<1>10. ASSUME NEW s \in SUBSET S, NEW x \in s
       PROVE  h[s] <= f[x] + h[s \ {x}]
  <2> DEFINE c == Cardinality(s)
             d == Cardinality(s \ {x})
  <2>1. c \in Nat /\ d \in Nat /\ c = d + 1
    BY <1>8, FS_RemoveElement
  <2>2. h[s] = c * m /\ h[s \ {x}] = d * m
    OBVIOUS
  <2>3. m <= f[x] /\ f[x] \in Nat
    BY <1>1, <1>7
  <2> HIDE DEF c, d, h
  <2>4. c * m = d * m + m /\ d * m \in Nat
    BY <1>7, <2>1
  <2> QED
    BY <1>7, <2>2, <2>3, <2>4
<1>11. h[S] = Cardinality(S) * m
  OBVIOUS
<1> HIDE DEF h
<1>12. it[S] \in Nat /\ h[S] <= it[S]
  BY <1>0, <1>1, <1>5, <1>9, <1>10, SumAtLeast
<1>13. Cardinality(S) * SortValue(key, low) <= it[S]
  BY <1>1, <1>11, <1>12 DEF m
<1> QED
  BY <1>0, <1>2, <1>12, <1>13

\* So not every row is out of the ordinary.
LEMMA NotAllSpike ==
    ASSUME FleetTyped, NEW rows \in SUBSET Reviews, rows # {}
    PROVE  Spikes(rows) # rows /\ Jumps(rows) # rows
<1> DEFINE n == Cardinality(rows)
<1>0. n \in Nat
  BY ReviewsTell, FS_Subset, FS_CardinalityType
<1>1. Spikes(rows) # rows
  <2> DEFINE key == "spend"
             sum == MapThenSumSet(LAMBDA r : SortValue(key, r), rows)
  <2>1. key \in SortKeys
    BY DEF SortKeys
  <2>2. \A r \in Spikes(rows) : n >= 2 /\ sum > 0 /\ 10 * n * SortValue(key, r) >= 16 * sum
    BY DEF Spikes
  <2> HIDE DEF key
  <2>3. /\ \A r \in rows : SortValue(key, r) \in Nat
        /\ sum \in Nat /\ \E r \in rows : n * SortValue(key, r) <= sum
    BY <2>1, SomeNotAbove
  <2> HIDE DEF sum, n
  <2>4. PICK r \in rows : n * SortValue(key, r) <= sum
    BY <2>3
  <2> DEFINE v == SortValue(key, r)
             c == n * v
  <2>5. v \in Nat /\ c \in Nat /\ c <= sum /\ 10 * n * v = 10 * c
    BY <1>0, <2>3, <2>4
  <2>6. r \in Spikes(rows) => sum > 0 /\ 10 * c >= 16 * sum
    BY <2>2, <2>5
  <2> HIDE DEF v, c
  <2>7. r \notin Spikes(rows)
    BY <2>3, <2>5, <2>6
  <2> QED
    BY <2>7
<1>2. Jumps(rows) # rows
  <2> DEFINE key == "findings"
             sum == MapThenSumSet(LAMBDA r : SortValue(key, r), rows)
  <2>1. key \in SortKeys
    BY DEF SortKeys
  <2>2. \A r \in Jumps(rows) : n >= 2 /\ n * SortValue(key, r) >= sum + 3 * n
    BY DEF Jumps
  <2> HIDE DEF key
  <2>3. /\ \A r \in rows : SortValue(key, r) \in Nat
        /\ sum \in Nat /\ \E r \in rows : n * SortValue(key, r) <= sum
    BY <2>1, SomeNotAbove
  <2> HIDE DEF sum, n
  <2>4. PICK r \in rows : n * SortValue(key, r) <= sum
    BY <2>3
  <2> DEFINE c == n * SortValue(key, r)
  <2>5. c \in Nat /\ c <= sum
    BY <1>0, <2>3, <2>4
  <2>6. r \in Jumps(rows) => n >= 2 /\ c >= sum + 3 * n
    BY <2>2
  <2> HIDE DEF c
  <2>7. r \notin Jumps(rows)
    BY <1>0, <2>3, <2>5, <2>6
  <2> QED
    BY <2>7
<1> QED
  BY <1>1, <1>2

\* The list of the reviews, whatever the address bar says.
LEMMA ListHolds ==
    ASSUME FleetTyped, IsQuery(url.query)
    PROVE  ListIsTrue
<1> DEFINE l == ListOf(url.query)
<1>1. l \in Lists
  BY ListRead
<1> HIDE DEF l
<1>2. \A m \in ListLinks(l) : ListOf(ListQuery(m)) = m
  BY <1>1, LinksStay, ListReadBack
<1>3. ASSUME NEW s \in StatusValues
      PROVE  StatusLink(StatusLink(l, s), s) = l
  <2>1. l = [status |-> l.status, place |-> l.place, sort |-> l.sort, dir |-> l.dir]
    BY <1>1 DEF Lists
  <2> DEFINE S == IF s \in l.status THEN l.status \ {s} ELSE l.status \cup {s}
             m == [status |-> S, place |-> l.place, sort |-> l.sort, dir |-> l.dir]
             T == IF s \in S THEN S \ {s} ELSE S \cup {s}
  <2>2. T = l.status
    OBVIOUS
  <2>3. StatusLink(l, s) = m
    BY <2>1 DEF StatusLink
  <2> HIDE DEF S
  <2>4. StatusLink(m, s) = [status |-> T, place |-> l.place, sort |-> l.sort, dir |-> l.dir]
    BY DEF StatusLink
  <2> HIDE DEF T, m
  <2> QED
    BY <2>1, <2>2, <2>3, <2>4
<1>4. (ListChips(l) = {}) = (ListQuery(l) = <<>>)
  BY <1>1, ChipsTell
<1>5. \A s \in l.status : Fetch(l) \cap InStatus({s}) \subseteq Fetch([l EXCEPT !.status = {s}])
  BY <1>1, TabShows
<1>6. Fetch(l) # {} => Spikes(Fetch(l)) # Fetch(l) /\ Jumps(Fetch(l)) # Fetch(l)
  <2>1. Fetch(l) \in SUBSET Reviews
    BY <1>1, FetchTells
  <2> QED
    BY <2>1, NotAllSpike
<1> QED
  BY <1>2, <1>3, <1>4, <1>5, <1>6 DEF ListIsTrue, l

-----------------------------------------------------------------------------
(* The browser: the commands of the palette.                               *)

\* A score is none or a place.
IsScore(x) == x = {} \/ \E n \in Nat : x = {n}

\* A text that is found has one score.
LEMMA ScoreTells ==
    ASSUME NEW E, NEW hay \in Seq(E), NEW D, NEW needle \in Seq(D)
    PROVE  IsScore(FuzzyScore(needle, hay))
<1> DEFINE n == Len(hay)
           whole == {i \in 0 .. n - Len(needle) : SubSeq(hay, i + 1, i + Len(needle)) = needle}
           A == 0 .. Len(needle)
           Step(k, c) == IF k < Len(needle) /\ c = needle[k + 1] THEN k + 1 ELSE k
           O == [p \in A \X E |-> Step(p[1], p[2])]
           Runs(it) == it = [s \in SUBSET DOMAIN hay |->
                                IF s = {} THEN 0 ELSE Step(it[s \ {Max(s)}], hay[Max(s)])]
           it == CHOOSE i : Runs(i)
           matched == it[DOMAIN hay]
           starts == {i \in 0 .. n - 1 : hay[i + 1] = needle[1]}
<1>0. Len(needle) \in Nat /\ n \in Nat /\ DOMAIN hay = 1 .. n /\ (needle # <<>> => Len(needle) > 0) /\ 0 \in A
      /\ \A i \in 1 .. n : hay[i] \in E
  BY LenProperties, EmptySeq
<1>1. FuzzyScore(needle, hay) =
          CASE needle = <<>> -> {0}
            [] needle # <<>> /\ whole # {} -> {Min(whole)}
            [] needle # <<>> /\ whole = {} /\ matched = Len(needle) -> {1000 + Min(starts)}
            [] OTHER -> {}
  BY DEF FuzzyScore, FoldLeft, MapThenFoldSet
<1>2. O \in [A \X E -> A] /\ \A k \in A, c \in E : O[<<k, c>>] = Step(k, c)
  BY <1>0
<1> HIDE DEF O, Step
<1>3. ASSUME NEW s \in SUBSET DOMAIN hay, s # {}
      PROVE  hay[Max(s)] \in E /\ s \ {Max(s)} \in SUBSET DOMAIN hay
  BY <1>3, LastIsThere
<1>4. Runs(it)
  <2>1. PICK i : IsFold(i, A, O, 0, hay)
    BY <1>0, <1>2, FoldExists
  <2>2. ASSUME NEW s \in SUBSET DOMAIN hay
        PROVE  i[s] = IF s = {} THEN 0 ELSE Step(i[s \ {Max(s)}], hay[Max(s)])
    <3>1. CASE s = {}
      BY <2>1, <3>1 DEF IsFold
    <3>2. CASE s # {}
      <4>1. i[s \ {Max(s)}] \in A /\ hay[Max(s)] \in E
        BY <1>3, <2>1, <3>2 DEF IsFold
      <4> QED
        BY <1>2, <2>1, <3>2, <4>1 DEF IsFold
    <3> QED
      BY <3>1, <3>2
  <2>3. Runs(i)
    BY <2>1, <2>2 DEF IsFold
  <2> HIDE DEF Runs
  <2> QED
    BY <2>3
<1> HIDE DEF it
<1>5. Folds(it, A, O, 0, hay)
  <2>1. it[{}] = 0
    BY <1>4
  <2>2. ASSUME NEW s \in SUBSET DOMAIN hay, s # {}, it[s \ {Max(s)}] \in A
        PROVE  it[s] = O[<<it[s \ {Max(s)}], hay[Max(s)]>>]
    <3>1. it[s] = Step(it[s \ {Max(s)}], hay[Max(s)])
      BY <1>4, <2>2
    <3> QED
      BY <1>2, <1>3, <2>2, <3>1
  <2> QED
    BY <2>1, <2>2 DEF Folds
<1>6. PICK g : AreSteps(g, A, O, 0, hay, matched)
  BY <1>0, <1>2, <1>5, FoldSteps
<1>7. ASSUME needle # <<>>, matched = Len(needle)
      PROVE  starts # {}
  <2> SUFFICES ASSUME starts = {}
               PROVE  FALSE
    OBVIOUS
  <2>1. \A i \in 1 .. n : hay[i] # needle[1]
    <3> SUFFICES ASSUME NEW i \in 1 .. n, hay[i] = needle[1]
                 PROVE  FALSE
      OBVIOUS
    <3>1. i - 1 \in 0 .. n - 1 /\ (i - 1) + 1 = i
      BY <1>0
    <3>2. i - 1 \in starts
      BY <3>1
    <3> QED
      BY <3>2
  <2> DEFINE I == {i \in 0 .. n : g[i] = 0}
  <2>2. 0 \in I
    BY <1>0, <1>6 DEF AreSteps
  <2>3. ASSUME NEW i \in 0 .. n - 1, i \in I
        PROVE  i + 1 \in I
    <3>1. i + 1 \in 1 .. n /\ (i + 1) - 1 = i /\ i + 1 \in 0 .. n
      BY <1>0
    <3>2. g[i + 1] = O[<<g[i], hay[i + 1]>>]
      BY <1>6, <3>1 DEF AreSteps
    <3>3. g[i + 1] = Step(0, hay[i + 1])
      BY <1>0, <1>2, <2>3, <3>1, <3>2
    <3>4. Step(0, hay[i + 1]) = 0
      BY <2>1, <3>1 DEF Step
    <3> QED
      BY <3>1, <3>3, <3>4
  <2>4. n \in I
    <3> HIDE DEF I
    <3>1. \A i \in 0 .. n : i \in I
      BY <1>0, <2>2, <2>3, UpTo
    <3> QED
      BY <1>0, <3>1
  <2>5. matched = 0
    BY <1>6, <2>4 DEF AreSteps
  <2> QED
    BY <1>0, <1>7, <2>5
<1>8. ASSUME NEW T \in SUBSET (0 .. n), T # {}
      PROVE  Min(T) \in Nat
  <2>0. n \in Nat
    BY <1>0
  <2> HIDE DEF n
  <2>1. Min(T) \in T
    BY <1>8, <2>0, MinMax
  <2>2. \A m \in T : m \in Nat
    BY <2>0
  <2> DEFINE least == Min(T)
  <2> HIDE DEF least
  <2>3. least \in Nat
    BY <2>1, <2>2 DEF least
  <2> QED
    BY <2>3 DEF least
<1>9. whole \in SUBSET (0 .. n) /\ starts \in SUBSET (0 .. n)
  BY <1>0
<1> HIDE DEF whole, starts, matched
<1>10. CASE needle = <<>>
  BY <1>1, <1>10 DEF IsScore
<1>11. CASE needle # <<>> /\ whole # {}
  BY <1>1, <1>8, <1>9, <1>11 DEF IsScore
<1>12. CASE needle # <<>> /\ whole = {} /\ matched = Len(needle)
  <2>1. Min(starts) \in Nat /\ FuzzyScore(needle, hay) = {1000 + Min(starts)}
    BY <1>1, <1>7, <1>8, <1>9, <1>12
  <2>2. 1000 + Min(starts) \in Nat
    BY <2>1
  <2> QED
    BY <2>1, <2>2 DEF IsScore
<1>13. CASE needle # <<>> /\ whole = {} /\ matched # Len(needle)
  BY <1>1, <1>13 DEF IsScore
<1> QED
  BY <1>10, <1>11, <1>12, <1>13

\* A sequence over a set is one over a larger set.
LEMMA Wider ==
    ASSUME NEW A, NEW E, A \subseteq E, NEW s \in Seq(A)
    PROVE  s \in Seq(E)
OBVIOUS

\* A set that is made a sequence stays among its members.
LEMMA SetToSeqTyped ==
    ASSUME NEW S, IsFiniteSet(S)
    PROVE  SetToSeq(S) \in Seq(S)
<1> DEFINE n == Cardinality(S)
<1>1. n \in Nat /\ ExistsBijection(1 .. n, S)
  BY FS_CardinalityType
<1> HIDE DEF n
<1>2. PICK b : b \in Bijection(1 .. n, S)
  BY <1>1 DEF ExistsBijection
<1>3. b \in [1 .. n -> S] /\ IsInjective(b)
  BY <1>2 DEF Bijection, Injection
<1>4. SetToSeq(S) \in [1 .. n -> S]
  BY <1>3 DEF SetToSeq, n
<1> QED
  BY <1>1, <1>4, SeqDef

\* The commands of the palette.
Pages == DOMAIN LettersOfPage
Command == [kind : {"navigate"}, page : Pages, review : {0}, status : {{}}]
           \cup [kind : {"reviews"}, page : {"review"}, review : DOMAIN AgeOf, status : {{s} : s \in StatusValues}]

RecentsTyped ==
    /\ recents \in Seq([review : DOMAIN AgeOf, status : StatusValues])
    /\ \A i, j \in DOMAIN recents : recents[i].review = recents[j].review => i = j

\* First the pages, then the recent reviews.
LEMMA CommandsTell ==
    ASSUME RecentsTyped
    PROVE  /\ Commands \in Seq(Command) /\ Len(Routes) \in Nat /\ Len(recents) \in Nat
           /\ DOMAIN Commands = 1 .. Len(Routes) + Len(recents)
           /\ \A i \in DOMAIN Commands :
                 IF i <= Len(Routes) THEN Commands[i].status = {}
                 ELSE /\ i - Len(Routes) \in DOMAIN recents
                      /\ Commands[i] = ReviewCommand(recents[i - Len(Routes)])
<1> DEFINE a == [i \in DOMAIN Routes |-> PageCommand(Routes[i])]
           b == [i \in DOMAIN recents |-> ReviewCommand(recents[i])]
<1>0. /\ Routes \in Seq(Pages) /\ Len(Routes) \in Nat /\ DOMAIN Routes = 1 .. Len(Routes)
      /\ \A i \in DOMAIN Routes : Routes[i] \in Pages
      /\ Len(recents) \in Nat /\ DOMAIN recents = 1 .. Len(recents)
      /\ \A i \in DOMAIN recents : recents[i] \in [review : DOMAIN AgeOf, status : StatusValues]
  <2>1. Routes \in Seq(Pages)
    BY ReviewBrowserAssumption DEF Pages
  <2>2. recents \in Seq([review : DOMAIN AgeOf, status : StatusValues])
    BY DEF RecentsTyped
  <2> QED
    BY <2>1, <2>2, LenProperties, ElementOfSeq
<1>1. \A i \in DOMAIN Routes : PageCommand(Routes[i]) \in Command /\ PageCommand(Routes[i]).status = {}
  BY <1>0 DEF PageCommand, Command
<1>2. \A i \in DOMAIN recents : ReviewCommand(recents[i]) \in Command
  BY <1>0 DEF ReviewCommand, Command
<1>3. a \in Seq(Command) /\ Len(a) = Len(Routes) /\ \A i \in 1 .. Len(Routes) : a[i].status = {}
  <2>1. a \in [1 .. Len(Routes) -> Command]
    BY <1>0, <1>1
  <2>2. a \in Seq(Command) /\ DOMAIN a = 1 .. Len(Routes)
    BY <1>0, <2>1, SeqDef
  <2>3. Len(a) = Len(Routes)
    BY <1>0, <2>2, LenProperties
  <2> QED
    BY <1>0, <1>1, <2>2, <2>3
<1>4. b \in Seq(Command) /\ Len(b) = Len(recents) /\ \A i \in 1 .. Len(recents) : b[i] = ReviewCommand(recents[i])
  <2>1. b \in [1 .. Len(recents) -> Command]
    BY <1>0, <1>2
  <2>2. b \in Seq(Command) /\ DOMAIN b = 1 .. Len(recents)
    BY <1>0, <2>1, SeqDef
  <2>3. Len(b) = Len(recents)
    BY <1>0, <2>2, LenProperties
  <2> QED
    BY <1>0, <2>2, <2>3
<1>5. Commands = a \o b
  BY DEF Commands
<1> HIDE DEF a, b
<1>6. /\ a \o b \in Seq(Command) /\ Len(a \o b) = Len(Routes) + Len(recents)
      /\ \A i \in 1 .. Len(Routes) + Len(recents) : (a \o b)[i] = IF i <= Len(Routes) THEN a[i] ELSE b[i - Len(Routes)]
  BY <1>3, <1>4, ConcatProperties
<1>7. ASSUME NEW i \in 1 .. Len(Routes) + Len(recents)
      PROVE  IF i <= Len(Routes) THEN Commands[i].status = {}
             ELSE /\ i - Len(Routes) \in DOMAIN recents
                  /\ Commands[i] = ReviewCommand(recents[i - Len(Routes)])
  <2>1. CASE i <= Len(Routes)
    <3>1. i \in 1 .. Len(Routes)
      BY <1>0, <2>1
    <3> QED
      BY <1>3, <1>5, <1>6, <2>1, <3>1
  <2>2. CASE ~(i <= Len(Routes))
    <3>1. i - Len(Routes) \in 1 .. Len(recents)
      BY <1>0, <2>2
    <3>2. Commands[i] = b[i - Len(Routes)]
      BY <1>5, <1>6, <2>2
    <3> QED
      BY <1>0, <1>4, <2>2, <3>1, <3>2
  <2> QED
    BY <2>1, <2>2
<1>8. DOMAIN Commands = 1 .. Len(Routes) + Len(recents) /\ Commands \in Seq(Command)
  BY <1>5, <1>6, LenProperties
<1> QED
  BY <1>0, <1>7, <1>8

\* A command can be searched.
LEMMA HaystackTyped ==
    ASSUME NEW c \in Command
    PROVE  \E E : Haystack(c) \in Seq(E)
<1> DEFINE E == STRING \cup StatusValues
           letters == IF c.kind = "navigate" THEN LettersOfPage[c.page] ELSE LettersOfReview[c.review]
<1>1. letters \in Seq(STRING)
  BY ReviewBrowserAssumption DEF Command, Pages
<1>2. SetToSeq(c.status) \in Seq(StatusValues)
  <2>1. IsFiniteSet(c.status) /\ c.status \subseteq StatusValues
    <3>1. c.status = {} \/ \E s \in StatusValues : c.status = {s}
      BY DEF Command
    <3>2. IsFiniteSet({}) /\ \A s : IsFiniteSet({s})
      BY FS_EmptySet, FS_Singleton
    <3> QED
      BY <3>1, <3>2
  <2>2. SetToSeq(c.status) \in Seq(c.status)
    BY <2>1, SetToSeqTyped
  <2> QED
    BY <2>1, <2>2, Wider
<1>3. STRING \subseteq E /\ StatusValues \subseteq E
  OBVIOUS
<1>4. Haystack(c) = letters \o SetToSeq(c.status)
  BY DEF Haystack
<1> HIDE DEF E, letters
<1>5. letters \in Seq(E) /\ SetToSeq(c.status) \in Seq(E)
  BY <1>1, <1>2, <1>3, Wider
<1>6. letters \o SetToSeq(c.status) \in Seq(E)
  BY <1>5, ConcatProperties
<1> QED
  BY <1>4, <1>6

\* What is found is some of what is searched.
LEMMA RankedTells ==
    ASSUME NEW commands \in Seq(Command), NEW D, NEW needle \in Seq(D)
    PROVE  /\ Ranked(commands, needle) \in Seq({commands[i] : i \in DOMAIN commands})
<1> DEFINE score == [i \in DOMAIN commands |-> FuzzyScore(needle, Haystack(commands[i]))]
           hits == {i \in DOMAIN commands : score[i] # {}}
           Better(i, j) == Min(score[i]) < Min(score[j]) \/ (score[i] = score[j] /\ i < j)
           before == [i \in hits |-> {j \in hits : Better(j, i)}]
           order == Sorted(before)
           R == {p \in hits \X hits : Better(p[1], p[2])}
           n == Cardinality(hits)
           found == {commands[i] : i \in DOMAIN commands}
<1>0. DOMAIN commands = 1 .. Len(commands) /\ Len(commands) \in Nat /\ \A i \in DOMAIN commands : commands[i] \in Command
  BY LenProperties
<1>1. Ranked(commands, needle) = [k \in DOMAIN order |-> commands[order[k]]]
  BY DEF Ranked
<1>2. \A i \in DOMAIN commands : IsScore(score[i])
  <2> SUFFICES ASSUME NEW i \in DOMAIN commands
               PROVE  IsScore(FuzzyScore(needle, Haystack(commands[i])))
    OBVIOUS
  <2>1. PICK E : Haystack(commands[i]) \in Seq(E)
    BY <1>0, HaystackTyped
  <2> QED
    BY <2>1, ScoreTells
<1> HIDE DEF score
<1>3. \A i \in hits : i \in Nat /\ i \in DOMAIN commands /\ \E m \in Nat : score[i] = {m} /\ Min(score[i]) = m
  <2> SUFFICES ASSUME NEW i \in hits
               PROVE  i \in Nat /\ \E m \in Nat : score[i] = {m} /\ Min(score[i]) = m
    OBVIOUS
  <2>1. PICK m \in Nat : score[i] = {m}
    BY <1>2 DEF IsScore
  <2>2. Min({m}) = m
    <3>1. {m} \in SUBSET (0 .. m) /\ {m} # {}
      BY <2>1
    <3>2. Min({m}) \in {m}
      BY <3>1, MinMax
    <3> QED
      BY <3>2
  <2> QED
    BY <1>0, <2>1, <2>2
<1>4. IsFiniteSet(hits)
  BY <1>0, UpToCount, FS_Subset
<1>5. Orders(R, hits)
  <2>0. \A i, j \in hits : <<i, j>> \in R <=> Better(i, j)
    OBVIOUS
  <2> HIDE DEF R, hits
  <2>1. ASSUME NEW i \in hits, NEW j \in hits, NEW k \in hits, <<i, j>> \in R, <<j, k>> \in R
        PROVE  <<i, k>> \in R
    <3>1. PICK a \in Nat : score[i] = {a} /\ Min(score[i]) = a
      BY <1>3
    <3>2. PICK b \in Nat : score[j] = {b} /\ Min(score[j]) = b
      BY <1>3
    <3>3. PICK c \in Nat : score[k] = {c} /\ Min(score[k]) = c
      BY <1>3
    <3>4. i \in Nat /\ j \in Nat /\ k \in Nat
      BY <1>3
    <3>5. (a < b \/ (a = b /\ i < j)) /\ (b < c \/ (b = c /\ j < k))
      BY <2>0, <2>1, <3>1, <3>2, <3>3
    <3>6. a < c \/ (a = c /\ i < k)
      BY <3>4, <3>5
    <3> QED
      BY <2>0, <3>1, <3>3, <3>6
  <2>2. \A i \in hits : <<i, i>> \notin R
    BY <1>3, <2>0
  <2>3. ASSUME NEW i \in hits, NEW j \in hits, i # j
        PROVE  <<i, j>> \in R \/ <<j, i>> \in R
    <3>1. PICK a \in Nat : score[i] = {a} /\ Min(score[i]) = a
      BY <1>3
    <3>2. PICK b \in Nat : score[j] = {b} /\ Min(score[j]) = b
      BY <1>3
    <3>3. i \in Nat /\ j \in Nat
      BY <1>3
    <3>4. a < b \/ b < a \/ (a = b /\ (i < j \/ j < i))
      BY <2>3, <3>3
    <3> QED
      BY <2>0, <3>1, <3>2, <3>4
  <2> QED
    BY Zenon, <2>1, <2>2, <2>3 DEF Orders
<1>6. before = [i \in hits |-> Preceding(hits, R, i)]
  BY DEF Preceding
<1> HIDE DEF before, R, hits
<1>7. n \in Nat /\ order \in Seq(hits) /\ Len(order) = n
  BY <1>4, <1>5, <1>6, SortedTells
<1> HIDE DEF order, n
<1>8. DOMAIN order = 1 .. n /\ \A k \in 1 .. n : order[k] \in hits
  BY <1>7
<1>9. Ranked(commands, needle) \in [1 .. n -> found]
  BY <1>1, <1>3, <1>8
<1> HIDE DEF found
<1>10. Ranked(commands, needle) \in Seq(found)
  BY <1>7, <1>9, SeqDef
<1> QED
  BY <1>10 DEF found

\* The places of the commands that a filter lets through.
Through(words) ==
    {i \in DOMAIN Commands : \E s \in Commands[i].status : \E w \in words : s \in Begins[w]}

\* Scoped has the commands that are let through, each once.
LEMMA ScopedTells ==
    ASSUME RecentsTyped, NEW words
    PROVE  /\ IsFiniteSet(Through(words)) /\ Len(Scoped(words)) = Cardinality(Through(words))
           /\ Scoped(words) \in Seq(Command)
           /\ \A k \in DOMAIN Scoped(words) : \E i \in Through(words) : Scoped(words)[k] = Commands[i]
<1>1. Commands \in Seq(Command)
  BY CommandsTell
<1>2. Through(words) \in SUBSET DOMAIN Commands /\ Scoped(words) = Selected(Commands, Through(words))
  BY DEF Through, Scoped
<1> QED
  BY <1>1, <1>2, SelectedTells, SelectedRange

\* Of known statuses, those through are the recent reviews that have one.
LEMMA ThroughTells ==
    ASSUME RecentsTyped, NEW S \in SUBSET StatusValues
    PROVE  Through(S) = {i \in DOMAIN Commands :
                            /\ i - Len(Routes) \in DOMAIN recents
                            /\ recents[i - Len(Routes)].status \in S
                            /\ Commands[i] = ReviewCommand(recents[i - Len(Routes)])}
<1>1. \A w \in S : Begins[w] = {w}
  BY ReviewBrowserAssumption
<1>2. \A i \in DOMAIN Commands : i \in Through(S) <=> \E s \in Commands[i].status : s \in S
  BY <1>1 DEF Through
<1>3. ASSUME NEW i \in DOMAIN Commands
      PROVE  i \in Through(S) <=> /\ i - Len(Routes) \in DOMAIN recents
                                  /\ recents[i - Len(Routes)].status \in S
                                  /\ Commands[i] = ReviewCommand(recents[i - Len(Routes)])
  <2>0. /\ Len(Routes) \in Nat /\ Len(recents) \in Nat /\ i \in Nat /\ DOMAIN recents = 1 .. Len(recents)
    BY CommandsTell, LenProperties DEF RecentsTyped
  <2>1. CASE i <= Len(Routes)
    <3>1. Commands[i].status = {}
      BY <2>1, CommandsTell
    <3>2. i - Len(Routes) \notin DOMAIN recents
      BY <2>0, <2>1
    <3> QED
      BY <1>2, <3>1, <3>2
  <2>2. CASE ~(i <= Len(Routes))
    <3>1. /\ i - Len(Routes) \in DOMAIN recents
          /\ Commands[i] = ReviewCommand(recents[i - Len(Routes)])
      BY <2>2, CommandsTell
    <3>2. Commands[i].status = {recents[i - Len(Routes)].status}
      BY <3>1 DEF ReviewCommand
    <3> QED
      BY <1>2, <3>1, <3>2
  <2> QED
    BY <2>1, <2>2
<1> QED
  BY <1>3 DEF Through

\* As many come through by one status as the chip of the status counts.
LEMMA OptionTells ==
    ASSUME RecentsTyped, NEW s \in StatusValues
    PROVE  /\ Cardinality(Through({s})) = OptionCount(s)
           /\ \A i \in Through({s}) : Commands[i].review \in RecentIn({s})
<1> DEFINE P == Through({s})
           T == RecentIn({s})
           m == [i \in P |-> Commands[i].review]
           n == Len(Routes)
<1>0. /\ n \in Nat /\ Len(recents) \in Nat /\ DOMAIN recents = 1 .. Len(recents)
      /\ DOMAIN Commands = 1 .. n + Len(recents)
  BY CommandsTell, LenProperties DEF RecentsTyped
<1>1. \A i \in P : /\ i - n \in DOMAIN recents /\ recents[i - n].status \in {s} /\ Commands[i] = ReviewCommand(recents[i - n])
                   /\ i \in DOMAIN Commands
  BY ThroughTells
<1>2. \A i \in DOMAIN recents : recents[i].status \in {s} => i + n \in P /\ (i + n) - n = i
  <2> SUFFICES ASSUME NEW i \in DOMAIN recents, recents[i].status \in {s}
               PROVE  i + n \in P /\ (i + n) - n = i
    OBVIOUS
  <2>1. (i + n) - n = i /\ i + n \in DOMAIN Commands /\ ~(i + n <= n)
    BY <1>0
  <2>2. Commands[i + n] = ReviewCommand(recents[(i + n) - n])
    BY <2>1, CommandsTell
  <2> QED
    BY <2>1, <2>2, ThroughTells
<1> HIDE DEF P
<1>3. \A i \in P : m[i] = recents[i - n].review
  <2>1. \A r : ReviewCommand(r).review = r.review
    BY DEF ReviewCommand
  <2> QED
    BY <1>1, <2>1
<1>4. m \in [P -> T]
  BY <1>1, <1>3 DEF RecentIn
<1>5. \A i, j \in P : m[i] = m[j] => i = j
  <2> SUFFICES ASSUME NEW i \in P, NEW j \in P, m[i] = m[j]
               PROVE  i = j
    OBVIOUS
  <2>1. i - n = j - n
    BY <1>1, <1>3 DEF RecentsTyped
  <2>2. i \in Nat /\ j \in Nat
    BY <1>0, <1>1
  <2> QED
    BY <1>0, <2>1, <2>2
<1>6. \A r \in T : \E i \in P : m[i] = r
  <2> SUFFICES ASSUME NEW r \in T
               PROVE  \E i \in P : m[i] = r
    OBVIOUS
  <2>1. PICK k \in DOMAIN recents : recents[k].status \in {s} /\ r = recents[k].review
    BY DEF RecentIn
  <2>2. k + n \in P /\ m[k + n] = r
    BY <1>2, <1>3, <2>1
  <2> QED
    BY <2>2
<1> HIDE DEF m
<1>7. m \in Bijection(P, T)
  BY <1>4, <1>5, <1>6, Fun_IsBij
<1>8. IsFiniteSet(P)
  BY ScopedTells DEF P
<1>9. Cardinality(T) = Cardinality(P)
  <2>1. ExistsBijection(P, T)
    BY <1>7 DEF ExistsBijection
  <2> QED
    BY <1>8, <2>1, FS_Bijection
<1> QED
  BY <1>4, <1>9 DEF OptionCount, P, m

\* The number at a status that is offered, whatever is typed before it.
LEMMA OptionsHold ==
    ASSUME RecentsTyped
    PROVE  OptionsCount
<1> SUFFICES ASSUME palette.words \subseteq StatusValues, NEW s \in StatusOptions
             PROVE  Len(Scoped(palette.words \cup {s})) = Len(Scoped(palette.words)) + OptionCount(s)
  BY DEF OptionsCount
<1> DEFINE S == palette.words
           A == Through(S)
           B == Through({s})
<1>1. s \in StatusValues /\ s \notin S
  <2>1. s \notin S /\ \E i \in DOMAIN recents : s = recents[i].status
    BY DEF StatusOptions
  <2>2. \A i \in DOMAIN recents : recents[i].status \in StatusValues
    <3>1. recents \in Seq([review : DOMAIN AgeOf, status : StatusValues])
      BY DEF RecentsTyped
    <3>2. \A i \in DOMAIN recents : recents[i] \in [review : DOMAIN AgeOf, status : StatusValues]
      BY <3>1, ElementOfSeq, LenProperties
    <3> QED
      BY <3>2
  <2> QED
    BY <2>1, <2>2
<1>2. S \subseteq StatusValues
  OBVIOUS
<1> HIDE DEF S
<1>3. Through(S \cup {s}) = A \cup B
  BY DEF Through
<1>4. A \cap B = {}
  <2>1. S \in SUBSET StatusValues /\ {s} \in SUBSET StatusValues
    BY <1>1, <1>2
  <2>2. /\ \A i \in A : recents[i - Len(Routes)].status \in S
        /\ \A i \in B : recents[i - Len(Routes)].status \in {s}
    BY <2>1, ThroughTells
  <2> QED
    BY <1>1, <2>2
<1>5. IsFiniteSet(A) /\ IsFiniteSet(B)
  BY ScopedTells
<1>6. Cardinality(B) = OptionCount(s)
  BY <1>1, OptionTells
<1>7. Len(Scoped(S \cup {s})) = Cardinality(A \cup B) /\ Len(Scoped(S)) = Cardinality(A)
  BY <1>3, ScopedTells
<1> HIDE DEF A, B
<1>8. Cardinality(A \cup B) = Cardinality(A) + Cardinality(B)
  <2>1. Cardinality(A \cup B) = Cardinality(A) + Cardinality(B) - Cardinality({})
    BY <1>4, <1>5, FS_Union
  <2> QED
    BY <1>5, <2>1, FS_EmptySet, FS_CardinalityType
<1> QED
  BY <1>6, <1>7, <1>8 DEF S

Tokens == {"none", "bare", "list", "comma"}
PaletteTyped ==
    /\ palette.token \in Tokens /\ palette.text \in Seq(STRING) /\ palette.idx \in Nat /\ palette.open \in BOOLEAN
    /\ (palette.words # {}) = Filtering

\* What the palette shows; a filter by statuses shows recent reviews that have one.
LEMMA FilteredTells ==
    ASSUME RecentsTyped, PaletteTyped
    PROVE  /\ Filtered \in Seq(Command) /\ Len(Filtered) \in Nat
           /\ Filtering /\ palette.words \subseteq StatusValues =>
                 \A k \in DOMAIN Filtered : Filtered[k].review \in RecentIn(palette.words)
<1> DEFINE W == palette.words
<1>1. CASE palette.token = "bare"
  <2>1. Filtered = <<>> /\ ~Filtering
    BY <1>1 DEF Filtered, Filtering
  <2> QED
    BY <2>1
<1>2. CASE palette.token = "none"
  <2>1. Filtered = Ranked(Commands, palette.text) /\ ~Filtering
    BY <1>2 DEF Filtered, Filtering
  <2>2. Commands \in Seq(Command) /\ palette.text \in Seq(STRING)
    BY CommandsTell DEF PaletteTyped
  <2>3. Filtered \in Seq({Commands[i] : i \in DOMAIN Commands})
    BY <2>1, <2>2, RankedTells
  <2>4. {Commands[i] : i \in DOMAIN Commands} \subseteq Command
    BY <2>2
  <2>5. Filtered \in Seq(Command)
    BY <2>3, <2>4, Wider
  <2> QED
    BY <2>1, <2>5, LenProperties
<1>3. CASE palette.token \in {"list", "comma"}
  <2> DEFINE s == Scoped(W)
             found == {s[i] : i \in DOMAIN s}
  <2>1. Filtered = Ranked(s, palette.text)
    BY <1>3 DEF Filtered, Filtering
  <2>2. s \in Seq(Command) /\ palette.text \in Seq(STRING)
    BY ScopedTells DEF PaletteTyped
  <2>3. \A k \in DOMAIN s : \E i \in Through(W) : s[k] = Commands[i]
    BY ScopedTells
  <2> HIDE DEF s
  <2>4. Filtered \in Seq(found)
    BY <2>1, <2>2, RankedTells
  <2>5. found \subseteq Command
    BY <2>2
  <2>6. Filtered \in Seq(Command) /\ \A k \in DOMAIN Filtered : Filtered[k] \in found
    BY <2>4, <2>5, Wider, LenProperties, ElementOfSeq
  <2>7. ASSUME W \subseteq StatusValues, NEW k \in DOMAIN Filtered
        PROVE  Filtered[k].review \in RecentIn(W)
    <3>1. PICK i \in Through(W) : Filtered[k] = Commands[i]
      BY <2>3, <2>6
    <3>2. /\ i - Len(Routes) \in DOMAIN recents /\ recents[i - Len(Routes)].status \in W
          /\ Commands[i] = ReviewCommand(recents[i - Len(Routes)])
      BY <2>7, <3>1, ThroughTells
    <3>3. Commands[i].review = recents[i - Len(Routes)].review
      BY <3>2 DEF ReviewCommand
    <3> QED
      BY <3>1, <3>2, <3>3 DEF RecentIn
  <2> QED
    BY <2>6, <2>7, LenProperties
<1> QED
  BY <1>1, <1>2, <1>3 DEF PaletteTyped, Tokens

-----------------------------------------------------------------------------
(* The browser: what is rendered, and what a link leads to.                *)

\* What the layout would have: some of the newest reviews, each once, as they are.
LEMMA RecentTells ==
    ASSUME FleetTyped
    PROVE  /\ Recent \in Seq([review : Reviews, status : StatusValues]) /\ Len(Recent) <= RecentLimit
           /\ \A i, j \in DOMAIN Recent : Recent[i].review = Recent[j].review => i = j
           /\ \A i \in DOMAIN Recent : /\ Recent[i].review \in Newest(Reviews, RecentLimit)
                                       /\ Recent[i].status = fleet[Recent[i].review]
<1> DEFINE newest == Newest(Reviews, RecentLimit)
           before == [r \in newest |-> {s \in newest : s > r}]
           rows == Sorted(before)
           R == {p \in Reviews \X Reviews : p[1] > p[2]}
           n == Cardinality(newest)
<1>0. IsFiniteSet(Reviews) /\ Reviews \subseteq Nat /\ RecentLimit \in Nat /\ \A r \in Reviews : fleet[r] \in StatusValues
  BY ReviewsTell, ReviewBrowserAssumption
<1>1. Recent = [i \in DOMAIN rows |-> [review |-> rows[i], status |-> fleet[rows[i]]]]
  BY DEF Recent
<1>2. newest \in SUBSET Reviews /\ \A r \in newest : Cardinality({s \in Reviews : s > r}) < RecentLimit
  BY DEF Newest
<1> HIDE DEF newest
<1>3. \A s, t \in Reviews : <<s, t>> \in R <=> s > t
  OBVIOUS
<1>4. \A r \in Reviews : Preceding(Reviews, R, r) = {s \in Reviews : s > r}
  BY <1>3 DEF Preceding
<1>5. before = [r \in newest |-> Preceding(newest, R, r)]
  BY <1>2, <1>3 DEF Preceding
<1> HIDE DEF R, before
<1>6. /\ \A s, t, u \in Reviews : <<s, t>> \in R /\ <<t, u>> \in R => <<s, u>> \in R
      /\ \A s \in Reviews : <<s, s>> \notin R
      /\ \A s, t \in Reviews : s # t => <<s, t>> \in R \/ <<t, s>> \in R
  BY <1>0, <1>3
<1>7. IsFiniteSet(newest) /\ n <= RecentLimit
  <2>1. \A s \in newest : Cardinality(Preceding(Reviews, R, s)) < RecentLimit
    BY <1>2, <1>4
  <2> QED
    BY <1>0, <1>2, <1>6, <2>1, FewGoBefore
<1>8. Orders(R, newest)
  BY Zenon, <1>2, <1>6 DEF Orders
<1>9. n \in Nat /\ rows \in Seq(newest) /\ Len(rows) = n /\ rows \in Bijection(1 .. n, newest)
  BY <1>5, <1>7, <1>8, SortedTells
<1> HIDE DEF rows, n
<1>10. /\ DOMAIN rows = 1 .. n /\ \A i \in 1 .. n : rows[i] \in newest
       /\ \A i, j \in 1 .. n : rows[i] = rows[j] => i = j
  <2>1. DOMAIN rows = 1 .. n /\ \A i \in 1 .. n : rows[i] \in newest
    BY <1>9, LenProperties, ElementOfSeq
  <2> DEFINE I == 1 .. n
  <2> HIDE DEF I
  <2>2. rows \in Bijection(I, newest)
    BY <1>9 DEF I
  <2>3. \A i, j \in I : rows[i] = rows[j] => i = j
    BY <2>2, Fun_BijectionProperties
  <2> QED
    BY <2>1, <2>3 DEF I
<1> DEFINE E == [review : Reviews, status : StatusValues]
<1>11. Recent \in [1 .. n -> E]
  BY <1>0, <1>1, <1>2, <1>10
<1>12. Recent \in Seq(E) /\ Len(Recent) = n
  <2> HIDE DEF E
  <2>1. Recent \in Seq(E)
    BY <1>9, <1>11, SeqDef
  <2> QED
    BY <1>9, <1>11, <2>1, LenProperties
<1>13. \A i \in 1 .. n : Recent[i].review = rows[i] /\ Recent[i].status = fleet[rows[i]]
  BY <1>1, <1>10
<1>14. DOMAIN Recent = 1 .. n
  BY <1>11
<1> QED
  BY <1>7, <1>10, <1>12, <1>13, <1>14 DEF newest

\* Sorting leaves what is sorted.
LEMMA OrderKeeps ==
    ASSUME FleetTyped, NEW l \in Lists, NEW rows \in SUBSET Reviews
    PROVE  Range(InOrder(l, rows)) = rows
<1> DEFINE v(r) == SortValue(l.sort, r)
           up == l.dir = "asc"
           R == {p \in rows \X rows : IF v(p[1]) = v(p[2]) THEN p[1] < p[2] ELSE up = (v(p[1]) < v(p[2]))}
           before == [r \in rows |-> Preceding(rows, R, r)]
           order == Sorted(before)
           n == Cardinality(rows)
<1>0. IsFiniteSet(rows) /\ rows \subseteq Nat
  BY ReviewsTell, FS_Subset
<1>1. \A r \in rows : v(r) \in Nat
  <2>1. l.sort \in SortKeys
    BY DEF Lists
  <2>2. CASE rows = {}
    BY <2>2
  <2>3. CASE rows # {}
    BY <2>1, <2>3, SomeNotAbove
  <2> QED
    BY <2>2, <2>3
<1>2. InOrder(l, rows) = order
  BY DEF InOrder, Preceding
<1>3. /\ up => \A s, t \in rows : <<s, t>> \in R <=> IF v(s) = v(t) THEN s < t ELSE v(s) < v(t)
      /\ ~up => \A s, t \in rows : <<s, t>> \in R <=> IF v(s) = v(t) THEN s < t ELSE ~(v(s) < v(t))
  <2> HIDE DEF v
  <2>1. CASE l.dir = "asc"
    BY <2>1
  <2>2. CASE l.dir # "asc"
    BY <2>2
  <2> QED
    BY <2>1, <2>2
<1> HIDE DEF v, up, R
<1>4. Orders(R, rows)
  <2>1. ASSUME NEW s \in rows, NEW t \in rows, NEW u \in rows, <<s, t>> \in R, <<t, u>> \in R
        PROVE  <<s, u>> \in R
    <3> DEFINE a == v(s)
               b == v(t)
               c == v(u)
    <3>1. a \in Nat /\ b \in Nat /\ c \in Nat /\ s \in Nat /\ t \in Nat /\ u \in Nat
      BY <1>0, <1>1
    <3>2. CASE up
      <4>1. (IF a = b THEN s < t ELSE a < b) /\ (IF b = c THEN t < u ELSE b < c)
        BY <1>3, <2>1, <3>2
      <4> HIDE DEF a, b, c
      <4>2. IF a = c THEN s < u ELSE a < c
        BY <3>1, <4>1
      <4> QED
        BY <1>3, <3>2, <4>2 DEF a, c
    <3>3. CASE ~up
      <4>1. (IF a = b THEN s < t ELSE ~(a < b)) /\ (IF b = c THEN t < u ELSE ~(b < c))
        BY <1>3, <2>1, <3>3
      <4> HIDE DEF a, b, c
      <4>2. IF a = c THEN s < u ELSE ~(a < c)
        BY <3>1, <4>1
      <4> QED
        BY <1>3, <3>3, <4>2 DEF a, c
    <3> QED
      BY <3>2, <3>3
  <2>2. \A s \in rows : <<s, s>> \notin R
    BY <1>0, <1>3
  <2>3. ASSUME NEW s \in rows, NEW t \in rows, s # t
        PROVE  <<s, t>> \in R \/ <<t, s>> \in R
    <3> DEFINE a == v(s)
               b == v(t)
    <3>1. a \in Nat /\ b \in Nat /\ s \in Nat /\ t \in Nat
      BY <1>0, <1>1
    <3>2. CASE up
      <4>1. (IF a = b THEN s < t ELSE a < b) \/ (IF b = a THEN t < s ELSE b < a)
        BY <2>3, <3>1
      <4> QED
        BY <1>3, <3>2, <4>1
    <3>3. CASE ~up
      <4>1. (IF a = b THEN s < t ELSE ~(a < b)) \/ (IF b = a THEN t < s ELSE ~(b < a))
        BY <2>3, <3>1
      <4> QED
        BY <1>3, <3>3, <4>1
    <3> QED
      BY <3>2, <3>3
  <2> QED
    BY Zenon, <2>1, <2>2, <2>3 DEF Orders
<1>5. n \in Nat /\ order \in Seq(rows) /\ Len(order) = n /\ order \in Bijection(1 .. n, rows)
  BY <1>0, <1>4, SortedTells
<1> HIDE DEF order, n
<1>6. DOMAIN order = 1 .. n /\ (\A k \in 1 .. n : order[k] \in rows) /\ \A r \in rows : \E k \in 1 .. n : order[k] = r
  <2>1. DOMAIN order = 1 .. n /\ \A k \in 1 .. n : order[k] \in rows
    BY <1>5, LenProperties, ElementOfSeq
  <2> DEFINE I == 1 .. n
  <2> HIDE DEF I
  <2>2. order \in Bijection(I, rows)
    BY <1>5 DEF I
  <2>3. \A r \in rows : \E k \in I : order[k] = r
    BY <2>2, Fun_BijectionProperties
  <2> QED
    BY <2>1, <2>3 DEF I
<1> QED
  BY <1>2, <1>6 DEF Range

\* A page has reviews as its rows; the list, if it could be read, what is fetched for it.
LEMMA RenderedTells ==
    ASSUME FleetTyped, NEW u, IsQuery(u.query), NEW answers
    PROVE  /\ Range(Rendered(u, answers).rows) \subseteq Reviews /\ Rendered(u, answers).crashed \in BOOLEAN
           /\ u.page = "reviews" /\ "reviews" \in answers =>
                  Range(Rendered(u, answers).rows) = Fetch(ListOf(u.query))
<1> DEFINE l == ListOf(u.query)
           onList == u.page = "reviews" /\ "reviews" \in answers
<1>1. l \in Lists
  BY ListRead
<1>2. Rendered(u, answers).rows = IF onList THEN InOrder(l, Fetch(l)) ELSE <<>>
  BY DEF Rendered
<1> HIDE DEF l
<1>3. Fetch(l) \in SUBSET Reviews
  BY <1>1, FetchTells
<1>4. Range(InOrder(l, Fetch(l))) = Fetch(l)
  BY <1>1, <1>3, OrderKeeps
<1>5. Rendered(u, answers).crashed \in BOOLEAN
  BY DEF Rendered
<1>6. Range(<<>>) = {}
  BY DEF Range
<1> HIDE DEF onList
<1>7. onList => Range(Rendered(u, answers).rows) = Fetch(l)
  BY <1>2, <1>4
<1>8. Range(Rendered(u, answers).rows) \subseteq Reviews
  BY <1>2, <1>3, <1>4, <1>6
<1> QED
  BY <1>5, <1>7, <1>8 DEF onList, l

\* The list of a status shows the recent reviews that have one of the statuses, and all that
\* have the one if they fit.
LEMMA ListKeeps ==
    ASSUME FleetTyped, NEW S \in SUBSET StatusValues, NEW l, l = ListOf(StatusUrl(S).query)
    PROVE  /\ \A r \in Newest(Reviews, RecentLimit) : fleet[r] \in S => r \in Fetch(l)
           /\ \A s \in StatusValues : S = {s} /\ Cardinality(InStatus({s})) <= ListLimit => InStatus({s}) \subseteq Fetch(l)
<1>0. /\ IsFiniteSet(Reviews) /\ Reviews \subseteq Nat /\ ListLimit \in Nat /\ RecentLimit \in Nat
      /\ RecentLimit <= ListLimit
  BY ReviewsTell, ReviewBrowserAssumption
<1>1. l = [status |-> S \cap StatusValues, place |-> {}, sort |-> "created", dir |-> "desc"]
  <2>1. StatusUrl(S).query = [status |-> S]
    BY DEF StatusUrl
  <2>2. DOMAIN [status |-> S] = {"status"} /\ [status |-> S]["status"] = S
    OBVIOUS
  <2> DEFINE q == [status |-> S]
  <2> HIDE DEF q
  <2>3. DOMAIN q = {"status"} /\ q["status"] = S
    BY <2>2 DEF q
  <2>4. ListOf(q) = [status |-> S \cap StatusValues, place |-> {}, sort |-> "created", dir |-> "desc"]
    BY <2>3 DEF ListOf, DefaultList, SortKeys
  <2> QED
    BY <2>1, <2>4 DEF q
<1>2. l \in Lists /\ l.status = S /\ l.place = {}
  <2>1. S \cap StatusValues = S
    OBVIOUS
  <2>2. l = [status |-> S, place |-> {}, sort |-> "created", dir |-> "desc"]
    BY <1>1, <2>1
  <2> QED
    BY <2>2 DEF Lists, SortKeys
<1>3. Newest(Reviews, RecentLimit) \subseteq Newest(Reviews, ListLimit)
  BY <1>0, NewestOfFewer
<1>4. ASSUME NEW r \in Newest(Reviews, RecentLimit), fleet[r] \in S
      PROVE  r \in Fetch(l)
  <2>0. r \in Reviews /\ r \in Newest(Reviews, ListLimit)
    BY <1>3 DEF Newest
  <2>1. CASE \E s \in StatusValues : S = {s}
    <3>1. PICK s \in StatusValues : S = {s}
      BY <2>1
    <3> DEFINE A == Asked(l, {s})
    <3>2. A \in SUBSET Reviews /\ r \in A
      BY <1>2, <1>4, <2>0, <3>1 DEF Asked
    <3>3. Fetch(l) = Newest(A, ListLimit)
      BY <1>2, <3>1, FetchTells
    <3> HIDE DEF A
    <3>4. \A t \in A : t \in Newest(Reviews, ListLimit) => t \in Newest(A, ListLimit)
      BY <1>0, <3>2, NewestOfFewer
    <3> QED
      BY <2>0, <3>2, <3>3, <3>4
  <2>2. CASE \A s \in StatusValues : S # {s}
    <3>1. Asked(l, {}) = Reviews
      BY <1>2 DEF Asked
    <3>2. Fetch(l) = {t \in Newest(Reviews, ListLimit) : l.status # {} => fleet[t] \in l.status}
      BY <1>2, <2>2, <3>1, FetchTells
    <3> QED
      BY <1>2, <1>4, <2>0, <3>2
  <2> QED
    BY <2>1, <2>2
<1>5. ASSUME NEW s \in StatusValues, S = {s}, Cardinality(InStatus({s})) <= ListLimit
      PROVE  InStatus({s}) \subseteq Fetch(l)
  <2> DEFINE A == InStatus({s})
  <2>1. Asked(l, {s}) = A
    BY <1>2 DEF Asked, InStatus
  <2>2. Fetch(l) = Newest(A, ListLimit)
    BY <1>2, <1>5, <2>1, FetchTells
  <2>3. A \subseteq Reviews /\ Cardinality(A) <= ListLimit
    BY <1>5 DEF InStatus
  <2> HIDE DEF A
  <2>4. IsFiniteSet(A) /\ A \subseteq Nat
    BY <1>0, <2>3, FS_Subset
  <2>5. Newest(A, ListLimit) = A
    BY <1>0, <2>3, <2>4, NewestOfFewer
  <2> QED
    BY <2>2, <2>5 DEF A
<1> QED
  BY <1>4, <1>5

-----------------------------------------------------------------------------
(* The browser: what holds at all times.                                   *)

\* What may be in the palette.
TypedWords == StatusValues \cup UNION {q.words : q \in Typed}
Palettes ==
    {p \in [open : BOOLEAN, token : Tokens, words : SUBSET TypedWords, text : Seq(STRING), idx : Nat] :
        (p.words # {}) = (p.token \in {"list", "comma"})}

ScreenTyped == Range(screen.rows) \subseteq Reviews /\ screen.crashed \in BOOLEAN
RecentsKnown == Len(recents) <= RecentLimit /\ \A i \in DOMAIN recents : recents[i].review \in Reviews
CursorInside == ~moved => palette.idx = 0 \/ palette.idx < Len(Filtered)
Bounded == moved \in BOOLEAN /\ clicks \in 0 .. MaxClicks /\ changes \in 0 .. MaxChanges

\* What is true of the browser whatever is clicked and whatever the reviews do.
BrowserInv ==
    /\ FleetTyped /\ IsQuery(url.query) /\ ScreenTyped /\ RecentsTyped /\ RecentsKnown
    /\ palette \in Palettes /\ Bounded /\ CursorInside /\ LinksKeepTheirWord

\* Such a palette is typed.
LEMMA PaletteTells ==
    ASSUME palette \in Palettes
    PROVE  PaletteTyped
BY DEF Palettes, PaletteTyped, Filtering

\* What the palette finds depends on what is typed and on the recent reviews.
LEMMA SameFound ==
    ASSUME palette'.token = palette.token, palette'.words = palette.words, palette'.text = palette.text,
           recents' = recents
    PROVE  Filtered' = Filtered
<1>1. Commands' = Commands
  BY DEF Commands
<1>2. \A W : Scoped(W)' = Scoped(W)
  BY <1>1 DEF Scoped
<1>3. Scoped(palette.words)' = Scoped(palette.words)
  BY <1>1 DEF Scoped
<1> QED
  BY <1>1, <1>3 DEF Filtered, Filtering

\* A page that is rendered from the layout's or another link.
LEMMA FollowKeeps ==
    ASSUME BrowserInv, NEW u, IsQuery(u.query), NEW promised, NEW current, current \in BOOLEAN,
           current /\ Cardinality(promised) <= ListLimit =>
               promised = {} \/ (u.page = "reviews" /\ promised \subseteq Fetch(ListOf(u.query))),
           Follow(u, promised, current)
    PROVE  /\ FleetTyped' /\ IsQuery(url.query)' /\ ScreenTyped' /\ RecentsTyped' /\ RecentsKnown'
           /\ clicks' \in 0 .. MaxClicks /\ changes' = changes /\ recents' = recents
           /\ LinksKeepTheirWord'
<1>1. /\ clicks < MaxClicks /\ clicks' = clicks + 1 /\ url' = u
      /\ fleet' = fleet /\ recents' = recents /\ changes' = changes
  BY DEF Follow, Acts
<1>2. PICK answers \in Answers :
          /\ screen' = Rendered(u, answers)
          /\ led' = {[promised |-> promised, current |-> current /\ "reviews" \in answers]}
  BY DEF Follow
<1>3. FleetTyped' /\ Reviews' = Reviews /\ RecentsTyped' /\ RecentsKnown'
  BY <1>1 DEF BrowserInv, FleetTyped, Reviews, RecentsTyped, RecentsKnown
<1>4. /\ Range(screen'.rows) \subseteq Reviews /\ screen'.crashed \in BOOLEAN
      /\ u.page = "reviews" /\ "reviews" \in answers => Range(screen'.rows) = Fetch(ListOf(u.query))
  BY <1>2, RenderedTells DEF BrowserInv
<1>5. LinksKeepTheirWord'
  <2> DEFINE fresh == current /\ "reviews" \in answers
             link == [promised |-> promised, current |-> fresh]
  <2>1. led' = {link}
    BY <1>2
  <2>2. link.promised = promised /\ link.current = fresh /\ fresh \in BOOLEAN
    OBVIOUS
  <2>3. fresh /\ Cardinality(promised) <= ListLimit => promised \subseteq Range(screen'.rows)
    BY <1>4
  <2> HIDE DEF fresh, link
  <2> QED
    BY <2>1, <2>2, <2>3 DEF LinksKeepTheirWord
<1>6. clicks' \in 0 .. MaxClicks
  BY <1>1, ReviewBrowserAssumption DEF BrowserInv, Bounded
<1>7. IsQuery(url.query)' /\ ScreenTyped'
  <2>1. IsQuery(url.query)'
    BY <1>1
  <2> QED
    BY <1>3, <1>4, <2>1 DEF ScreenTyped
<1> QED
  BY <1>1, <1>3, <1>5, <1>6, <1>7

\* A step that closes the palette.
LEMMA Leaves ==
    ASSUME BrowserInv, palette' = Closed, moved' = FALSE,
           FleetTyped', IsQuery(url.query)', ScreenTyped', RecentsTyped', RecentsKnown',
           clicks' \in 0 .. MaxClicks, changes' = changes, LinksKeepTheirWord'
    PROVE  BrowserInv'
<1>1. palette' \in Palettes /\ palette'.idx = 0
  <2>1. Closed \in [open : BOOLEAN, token : Tokens, words : SUBSET TypedWords, text : Seq(STRING), idx : Nat]
    BY DEF Closed, Tokens
  <2> QED
    BY <2>1 DEF Palettes, Closed
<1>2. Bounded' /\ CursorInside'
  BY <1>1 DEF Bounded, CursorInside, BrowserInv
<1> QED
  BY <1>1, <1>2 DEF BrowserInv, Palettes

\* A link beside the palette.
LEMMA Stays ==
    ASSUME BrowserInv, UNCHANGED <<palette, moved>>,
           FleetTyped', IsQuery(url.query)', ScreenTyped', RecentsTyped', RecentsKnown',
           clicks' \in 0 .. MaxClicks, changes' = changes, recents' = recents, LinksKeepTheirWord'
    PROVE  BrowserInv'
<1>1. Filtered' = Filtered
  BY SameFound
<1>2. Bounded' /\ CursorInside' /\ palette' \in Palettes
  BY <1>1 DEF Bounded, CursorInside, BrowserInv
<1> QED
  BY <1>2 DEF BrowserInv, Palettes

\* The query of a list is one.
LEMMA QueryOfList ==
    ASSUME NEW l \in Lists
    PROVE  IsQuery(ListUrl(l).query)
<1>1. ListUrl(l).query = ListQuery(l)
  BY DEF ListUrl
<1> DEFINE q == ListQuery(l)
<1>2. DOMAIN l = {"status", "place", "sort", "dir"} /\ l.place \subseteq Nat
  BY DEF Lists
<1>3. "policy" \notin DOMAIN q /\ ("place" \in DOMAIN q => q["place"] = l.place)
  BY <1>2 DEF ListQuery
<1> HIDE DEF q
<1>4. IsQuery(q)
  BY <1>2, <1>3 DEF IsQuery
<1> QED
  BY <1>1, <1>4 DEF q

\* So is that of a status link.
LEMMA QueryOfStatus ==
    ASSUME NEW S
    PROVE  IsQuery(StatusUrl(S).query) /\ StatusUrl(S).page = "reviews"
<1> DEFINE q == [status |-> S]
<1>1. DOMAIN q = {"status"}
  OBVIOUS
<1> HIDE DEF q
<1>2. IsQuery(q)
  BY <1>1 DEF IsQuery
<1> QED
  BY <1>2 DEF StatusUrl, q

\* And so is no query at all.
LEMMA QueryOfNothing == IsQuery(<<>>)
BY DEF IsQuery

\* The recent reviews with some statuses, when the layout is up to date.
LEMMA RecentOnList ==
    ASSUME FleetTyped, recents = Recent, NEW S \in SUBSET StatusValues
    PROVE  RecentIn(S) \subseteq Fetch(ListOf(StatusUrl(S).query))
<1> SUFFICES ASSUME NEW r \in RecentIn(S)
             PROVE  r \in Fetch(ListOf(StatusUrl(S).query))
  OBVIOUS
<1>1. PICK i \in DOMAIN recents : recents[i].status \in S /\ r = recents[i].review
  BY DEF RecentIn
<1>2. r \in Newest(Reviews, RecentLimit) /\ fleet[r] \in S
  BY <1>1, RecentTells
<1> QED
  BY <1>2, ListKeeps

\* A click on a link of the list.
LEMMA BrowsedList ==
    ASSUME BrowserInv, NEW l \in ListLinks(ListOf(url.query)), ClickList(l)
    PROVE  BrowserInv'
<1>1. l \in Lists
  BY ListRead, LinksStay DEF BrowserInv
<1>2. Follow(ListUrl(l), {}, TRUE) /\ UNCHANGED <<palette, moved>>
  BY DEF ClickList
<1>3. IsQuery(ListUrl(l).query)
  BY <1>1, QueryOfList
<1> QED
  BY <1>2, <1>3, FollowKeeps, Stays

\* A shortcut to a page.
LEMMA BrowsedRoute ==
    ASSUME BrowserInv, NEW p, ClickRoute(p)
    PROVE  BrowserInv'
<1> DEFINE u == [page |-> p, query |-> <<>>]
<1>1. IsQuery(u.query)
  BY QueryOfNothing
<1>2. Follow(u, {}, TRUE) /\ UNCHANGED <<palette, moved>>
  BY DEF ClickRoute
<1> HIDE DEF u
<1> QED
  BY <1>1, <1>2, FollowKeeps, Stays

\* The link of the navigation keeps the word of its badge.
LEMMA BrowsedNav ==
    ASSUME BrowserInv, ClickNav
    PROVE  BrowserInv'
<1> DEFINE u == IF NavStatus = {} THEN ListUrl(DefaultList) ELSE StatusUrl(NavStatus)
           promised == RecentIn(NavStatus)
           current == recents = Recent
<1>1. NavStatus \in SUBSET StatusValues
  BY DEF NavStatus, StatusValues
<1>2. IsQuery(u.query)
  <2>1. DefaultList \in Lists
    BY DEF DefaultList, Lists, SortKeys
  <2> QED
    BY <2>1, QueryOfList, QueryOfStatus
<1>3. NavStatus = {} => promised = {}
  BY DEF RecentIn
<1>4. current /\ NavStatus # {} => u.page = "reviews" /\ promised \subseteq Fetch(ListOf(u.query))
  BY <1>1, RecentOnList, QueryOfStatus DEF BrowserInv
<1>5. Follow(u, promised, current) /\ UNCHANGED <<palette, moved>>
  BY DEF ClickNav
<1>6. current \in BOOLEAN
  OBVIOUS
<1> HIDE DEF u, promised, current
<1>7. current => promised = {} \/ (u.page = "reviews" /\ promised \subseteq Fetch(ListOf(u.query)))
  BY <1>3, <1>4
<1> QED
  BY <1>2, <1>5, <1>6, <1>7, FollowKeeps, Stays

\* A chip of the overview keeps its word.
LEMMA BrowsedChip ==
    ASSUME BrowserInv, NEW chip \in screen.chips, ClickChip(chip)
    PROVE  BrowserInv'
<1> DEFINE u == StatusUrl(chip.status)
           promised == IF "running" \in chip.status THEN {} ELSE chip.counted
           current == screen.chips = OverviewChips
<1>1. IsQuery(u.query) /\ u.page = "reviews"
  BY QueryOfStatus
<1>2. ASSUME chip \in OverviewChips, promised # {}
      PROVE  \E s \in StatusValues : promised = InStatus({s}) /\ chip.status = {s}
  <2>1. \/ chip.counted = InStatus({"completed"}) /\ chip.status = {"completed"}
        \/ chip.counted = InStatus({"failed"}) /\ chip.status = {"failed"}
        \/ "running" \in chip.status
    BY <1>2 DEF OverviewChips
  <2>2. "completed" \in StatusValues /\ "failed" \in StatusValues
    BY DEF StatusValues
  <2>3. "running" \notin chip.status /\ promised = chip.counted
    BY <1>2
  <2> QED
    BY <2>1, <2>2, <2>3
<1>3. Follow(u, promised, current) /\ UNCHANGED <<palette, moved>>
  BY DEF ClickChip
<1>4. current \in BOOLEAN /\ (current => chip \in OverviewChips)
  OBVIOUS
<1> HIDE DEF promised, current
<1>5. current /\ Cardinality(promised) <= ListLimit => promised = {} \/ promised \subseteq Fetch(ListOf(u.query))
  <2> SUFFICES ASSUME current, Cardinality(promised) <= ListLimit, promised # {}
               PROVE  promised \subseteq Fetch(ListOf(u.query))
    OBVIOUS
  <2>1. PICK s \in StatusValues : promised = InStatus({s}) /\ chip.status = {s}
    BY <1>2, <1>4
  <2>2. FleetTyped /\ {s} \in SUBSET StatusValues
    BY DEF BrowserInv
  <2>3. InStatus({s}) \subseteq Fetch(ListOf(StatusUrl({s}).query))
    BY <2>1, <2>2, ListKeeps
  <2> QED
    BY <2>1, <2>3
<1> HIDE DEF u
<1> QED
  BY <1>1, <1>3, <1>4, <1>5, FollowKeeps, Stays

\* The list of the palette's filter.
LEMMA BrowsedFilter ==
    ASSUME BrowserInv, GoToList
    PROVE  BrowserInv'
<1> DEFINE u == StatusUrl(palette.words)
           promised == IF palette.words \subseteq StatusValues
                       THEN {Filtered[i].review : i \in DOMAIN Filtered} ELSE {}
           current == recents = Recent
<1>1. IsQuery(u.query) /\ u.page = "reviews"
  BY QueryOfStatus
<1>2. Filtering /\ Follow(u, promised, current) /\ palette' = Closed /\ moved' = FALSE
  BY DEF GoToList, Leave
<1>3. current => promised = {} \/ promised \subseteq Fetch(ListOf(u.query))
  <2> SUFFICES ASSUME recents = Recent, palette.words \subseteq StatusValues
               PROVE  promised \subseteq Fetch(ListOf(u.query))
    OBVIOUS
  <2>1. FleetTyped /\ RecentsTyped /\ PaletteTyped
    BY PaletteTells DEF BrowserInv
  <2>2. \A k \in DOMAIN Filtered : Filtered[k].review \in RecentIn(palette.words)
    BY <1>2, <2>1, FilteredTells
  <2>3. RecentIn(palette.words) \subseteq Fetch(ListOf(u.query))
    BY <2>1, RecentOnList
  <2> QED
    BY <2>2, <2>3
<1>4. current \in BOOLEAN
  OBVIOUS
<1> HIDE DEF u, promised, current
<1> QED
  BY <1>1, <1>2, <1>3, <1>4, FollowKeeps, Leaves

\* Enter, with a row and without.
LEMMA BrowsedRow ==
    ASSUME BrowserInv, Enter
    PROVE  BrowserInv'
<1>1. CASE palette.idx >= Len(Filtered) /\ GoToList
  BY <1>1, BrowsedFilter
<1>2. CASE Leave([page |-> Filtered[palette.idx + 1].page, query |-> <<>>], {}, TRUE)
  <2> DEFINE u == [page |-> Filtered[palette.idx + 1].page, query |-> <<>>]
  <2>1. IsQuery(u.query)
    BY QueryOfNothing
  <2>2. Follow(u, {}, TRUE) /\ palette' = Closed /\ moved' = FALSE
    BY <1>2 DEF Leave
  <2> HIDE DEF u
  <2> QED
    BY <2>1, <2>2, FollowKeeps, Leaves
<1> QED
  BY <1>1, <1>2 DEF Enter

\* What the layout would have is what it may have.
LEMMA RecentFits ==
    ASSUME FleetTyped
    PROVE  /\ Recent \in Seq([review : DOMAIN AgeOf, status : StatusValues]) /\ Len(Recent) <= RecentLimit
           /\ \A i, j \in DOMAIN Recent : Recent[i].review = Recent[j].review => i = j
           /\ \A i \in DOMAIN Recent : Recent[i].review \in Reviews
<1>1. Recent \in Seq([review : Reviews, status : StatusValues])
  BY RecentTells
<1>2. [review : Reviews, status : StatusValues] \subseteq [review : DOMAIN AgeOf, status : StatusValues]
  BY ReviewsTell
<1>3. Recent \in Seq([review : DOMAIN AgeOf, status : StatusValues])
  BY <1>1, <1>2, Wider
<1>4. Newest(Reviews, RecentLimit) \subseteq Reviews
  BY DEF Newest
<1> QED
  BY <1>3, <1>4, RecentTells

\* A page and its layout, rendered afresh.
LEMMA BrowserLoads ==
    ASSUME BrowserInv, NEW u, IsQuery(u.query), Load(u), clicks' \in 0 .. MaxClicks
    PROVE  BrowserInv'
<1>1. /\ url' = u /\ fleet' = fleet /\ changes' = changes /\ palette' = Closed /\ moved' = FALSE /\ led' = {}
  BY DEF Load
<1>2. PICK answers \in Answers : /\ screen' = Rendered(u, answers)
                                 /\ recents' = IF "reviews" \in answers THEN Recent ELSE <<>>
  BY DEF Load
<1>3. FleetTyped' /\ Reviews' = Reviews
  BY <1>1 DEF BrowserInv, FleetTyped, Reviews
<1>4. IsQuery(url.query)' /\ ScreenTyped'
  <2>1. Range(screen'.rows) \subseteq Reviews /\ screen'.crashed \in BOOLEAN
    BY <1>2, RenderedTells DEF BrowserInv
  <2>2. IsQuery(url.query)'
    BY <1>1
  <2> QED
    BY <1>3, <2>1, <2>2 DEF ScreenTyped
<1>5. RecentsTyped' /\ RecentsKnown'
  <2>1. CASE recents' = Recent
    <3>1. /\ Recent \in Seq([review : DOMAIN AgeOf, status : StatusValues]) /\ Len(Recent) <= RecentLimit
          /\ \A i, j \in DOMAIN Recent : Recent[i].review = Recent[j].review => i = j
          /\ \A i \in DOMAIN Recent : Recent[i].review \in Reviews
      BY RecentFits DEF BrowserInv
    <3> QED
      BY <1>3, <2>1, <3>1 DEF RecentsTyped, RecentsKnown
  <2>2. CASE recents' = <<>>
    <3>1. RecentLimit \in Nat
      BY ReviewBrowserAssumption
    <3> QED
      BY <2>2, <3>1 DEF RecentsTyped, RecentsKnown
  <2> QED
    BY <1>2, <2>1, <2>2
<1>6. LinksKeepTheirWord'
  BY <1>1 DEF LinksKeepTheirWord
<1> QED
  BY <1>1, <1>3, <1>4, <1>5, <1>6, Leaves

\* The bound on clicks.
LEMMA OneMore ==
    ASSUME BrowserInv, Acts
    PROVE  clicks' \in 0 .. MaxClicks
BY ReviewBrowserAssumption DEF BrowserInv, Bounded, Acts

\* A refresh: what was typed stays, the rows under the cursor may not.
LEMMA BrowserRefreshes ==
    ASSUME BrowserInv, Refresh
    PROVE  BrowserInv'
<1>1. /\ fleet' = fleet /\ url' = url /\ palette' = palette /\ changes' = changes /\ led' = {}
      /\ moved' = (moved \/ recents' # recents) /\ recents' = Recent
      /\ screen' = Rendered(url, {"reviews", "sla"}) /\ Acts
  BY DEF Refresh
<1>2. FleetTyped' /\ Reviews' = Reviews /\ clicks' \in 0 .. MaxClicks
  BY <1>1, OneMore DEF BrowserInv, FleetTyped, Reviews
<1>3. IsQuery(url.query)' /\ ScreenTyped'
  <2>1. Range(screen'.rows) \subseteq Reviews /\ screen'.crashed \in BOOLEAN
    BY <1>1, RenderedTells DEF BrowserInv
  <2> QED
    BY <1>1, <1>2, <2>1 DEF ScreenTyped, BrowserInv
<1>4. RecentsTyped' /\ RecentsKnown'
  <2>1. /\ Recent \in Seq([review : DOMAIN AgeOf, status : StatusValues]) /\ Len(Recent) <= RecentLimit
        /\ \A i, j \in DOMAIN Recent : Recent[i].review = Recent[j].review => i = j
        /\ \A i \in DOMAIN Recent : Recent[i].review \in Reviews
    BY RecentFits DEF BrowserInv
  <2> QED
    BY <1>1, <1>2, <2>1 DEF RecentsTyped, RecentsKnown
<1>5. LinksKeepTheirWord'
  BY <1>1 DEF LinksKeepTheirWord
<1>6. CursorInside'
  <2>1. recents' = recents => Filtered' = Filtered
    BY <1>1, SameFound
  <2>2. moved \in BOOLEAN
    BY DEF BrowserInv, Bounded
  <2>3. ~moved' => ~moved /\ recents' = recents
    BY <1>1, <2>2
  <2> QED
    BY <1>1, <2>1, <2>3 DEF CursorInside, BrowserInv
<1>7. Bounded'
  <2>1. moved' \in BOOLEAN
    BY <1>1 DEF BrowserInv, Bounded
  <2> QED
    BY <1>1, <1>2, <2>1 DEF BrowserInv, Bounded
<1> QED
  BY <1>1, <1>2, <1>3, <1>4, <1>5, <1>6, <1>7 DEF BrowserInv, Palettes

\* What only the palette is changed by.
LEMMA PaletteChanges ==
    ASSUME BrowserInv, Acts, UNCHANGED <<fleet, url, screen, recents, changes>>, led' = {},
           palette' \in Palettes, moved' \in BOOLEAN, CursorInside'
    PROVE  BrowserInv'
<1>1. FleetTyped' /\ IsQuery(url.query)' /\ ScreenTyped' /\ RecentsTyped' /\ RecentsKnown'
  BY DEF BrowserInv, FleetTyped, ScreenTyped, Reviews, RecentsTyped, RecentsKnown
<1>2. LinksKeepTheirWord'
  BY DEF LinksKeepTheirWord
<1>3. Bounded'
  BY OneMore DEF BrowserInv, Bounded
<1> QED
  BY <1>1, <1>2, <1>3 DEF BrowserInv, Palettes

\* The fields of the palette.
LEMMA PaletteRead ==
    ASSUME palette \in Palettes
    PROVE  /\ palette \in [open : BOOLEAN, token : Tokens, words : SUBSET TypedWords, text : Seq(STRING), idx : Nat]
           /\ (palette.words # {}) = (palette.token \in {"list", "comma"})
BY DEF Palettes

\* The cursor at a place.
LEMMA PaletteMoves ==
    ASSUME BrowserInv, NEW i \in Nat, i = 0 \/ i < Len(Filtered), MoveTo(i)
    PROVE  BrowserInv'
<1>1. /\ Acts /\ UNCHANGED <<fleet, url, screen, recents, changes>> /\ led' = {}
      /\ palette' = [palette EXCEPT !.idx = i] /\ moved' = moved
  BY DEF MoveTo, Editing
<1>2. /\ palette \in [open : BOOLEAN, token : Tokens, words : SUBSET TypedWords, text : Seq(STRING), idx : Nat]
      /\ (palette.words # {}) = (palette.token \in {"list", "comma"})
  BY PaletteRead DEF BrowserInv
<1>3. palette' \in Palettes /\ palette'.idx = i
  BY <1>1, <1>2 DEF Palettes
<1>4. palette'.token = palette.token /\ palette'.words = palette.words /\ palette'.text = palette.text
  BY <1>1, <1>2
<1>5. Filtered' = Filtered
  BY <1>1, <1>4, SameFound
<1>6. CursorInside'
  BY <1>3, <1>5 DEF CursorInside
<1>7. moved' \in BOOLEAN
  BY <1>1 DEF BrowserInv, Bounded
<1> QED
  BY <1>1, <1>3, <1>6, <1>7, PaletteChanges

\* The palette with other text, the cursor on the first row.
LEMMA PaletteTyping ==
    ASSUME BrowserInv, NEW new \in Palettes, new.idx = 0, Editing(new), moved' = FALSE
    PROVE  BrowserInv'
<1>1. /\ Acts /\ UNCHANGED <<fleet, url, screen, recents, changes>> /\ led' = {} /\ palette' = new
  BY DEF Editing
<1>2. CursorInside' /\ palette' \in Palettes
  BY <1>1 DEF CursorInside, Palettes
<1> QED
  BY <1>1, <1>2, PaletteChanges

\* Typing, picking and clearing.
LEMMA PaletteEdited ==
    ASSUME BrowserInv,
           \/ ClosePalette \/ ClearFilter
           \/ \E q \in Typed : TypeText(q)
           \/ \E s \in StatusValues : PickStatus(s)
    PROVE  BrowserInv'
<1> DEFINE All == [open : BOOLEAN, token : Tokens, words : SUBSET TypedWords, text : Seq(STRING), idx : Nat]
<1>0. palette \in All /\ (palette.words # {}) = (palette.token \in {"list", "comma"})
  BY PaletteRead DEF BrowserInv
<1>1. ASSUME ClosePalette
      PROVE  BrowserInv'
  <2>1. Closed \in Palettes /\ Closed.idx = 0
    BY DEF Closed, Tokens, Palettes
  <2> QED
    BY <1>1, <2>1, PaletteTyping DEF ClosePalette
<1>2. ASSUME ClearFilter
      PROVE  BrowserInv'
  <2> DEFINE new == [palette EXCEPT !.token = "none", !.words = {}, !.idx = 0]
  <2>1. new \in All /\ new.words = {} /\ new.token = "none" /\ new.idx = 0
    BY <1>0 DEF Tokens
  <2>2. Editing(new) /\ moved' = FALSE
    BY <1>2 DEF ClearFilter
  <2> HIDE DEF new
  <2>3. new \in Palettes
    BY <2>1 DEF Palettes
  <2> QED
    BY <2>1, <2>2, <2>3, PaletteTyping
<1>3. ASSUME NEW q \in Typed, TypeText(q)
      PROVE  BrowserInv'
  <2> DEFINE new == [open |-> TRUE, token |-> q.token, words |-> q.words, text |-> q.text, idx |-> 0]
  <2>1. q.token \in Tokens /\ q.text \in Seq(STRING) /\ (q.words # {}) = (q.token \in {"list", "comma"})
    BY ReviewBrowserAssumption DEF Tokens
  <2>2. q.words \subseteq TypedWords
    BY DEF TypedWords
  <2>3. new \in All /\ new.words = q.words /\ new.token = q.token /\ new.idx = 0
    BY <2>1, <2>2
  <2>4. Editing(new) /\ moved' = FALSE
    BY <1>3 DEF TypeText
  <2> HIDE DEF new
  <2>5. new \in Palettes
    BY <2>1, <2>3 DEF Palettes
  <2> QED
    BY <2>3, <2>4, <2>5, PaletteTyping
<1>4. ASSUME NEW s \in StatusValues, PickStatus(s)
      PROVE  BrowserInv'
  <2> DEFINE new == [palette EXCEPT !.token = "list", !.words = @ \cup {s}, !.idx = 0]
  <2>1. new \in All /\ new.words = palette.words \cup {s} /\ new.token = "list" /\ new.idx = 0
    BY <1>0 DEF Tokens, TypedWords
  <2>2. Editing(new) /\ moved' = FALSE
    BY <1>4 DEF PickStatus
  <2> HIDE DEF new
  <2>3. new \in Palettes
    BY <2>1 DEF Palettes
  <2> QED
    BY <2>1, <2>2, <2>3, PaletteTyping
<1> QED
  BY <1>1, <1>2, <1>3, <1>4

\* cmd-k, which leaves what was typed.
LEMMA PaletteToggled ==
    ASSUME BrowserInv, TogglePalette
    PROVE  BrowserInv'
<1>1. /\ Acts /\ UNCHANGED <<fleet, url, screen, recents, moved, changes>> /\ led' = {}
      /\ palette' = [palette EXCEPT !.open = ~@]
  BY DEF TogglePalette
<1>2. /\ palette \in [open : BOOLEAN, token : Tokens, words : SUBSET TypedWords, text : Seq(STRING), idx : Nat]
      /\ (palette.words # {}) = (palette.token \in {"list", "comma"})
  BY PaletteRead DEF BrowserInv
<1> DEFINE other == ~palette.open
<1>3. other \in BOOLEAN /\ palette' = [palette EXCEPT !.open = other]
  BY <1>1
<1> HIDE DEF other
<1>4. /\ palette' \in Palettes /\ palette'.idx = palette.idx
      /\ palette'.token = palette.token /\ palette'.words = palette.words /\ palette'.text = palette.text
  BY <1>2, <1>3 DEF Palettes
<1>5. Filtered' = Filtered
  BY <1>1, <1>4, SameFound
<1>6. CursorInside' /\ moved' \in BOOLEAN
  BY <1>1, <1>4, <1>5 DEF CursorInside, BrowserInv, Bounded
<1> QED
  BY <1>1, <1>4, <1>6, PaletteChanges

\* The keys and the mouse.
LEMMA CursorMoves ==
    ASSUME BrowserInv, Down \/ Up \/ NextSection \/ \E i \in DOMAIN Filtered : Hover(i)
    PROVE  BrowserInv'
<1> DEFINE n == Len(Filtered)
<1>0. Filtered \in Seq(Command) /\ n \in Nat /\ DOMAIN Filtered = 1 .. n /\ (Filtered # <<>> => n > 0)
  <2>1. Filtered \in Seq(Command)
    BY PaletteTells, FilteredTells DEF BrowserInv
  <2> QED
    BY <2>1, LenProperties, EmptySeq
<1>1. palette.idx \in Nat
  BY PaletteRead DEF BrowserInv
<1> HIDE DEF n
<1>2. ASSUME Down
      PROVE  BrowserInv'
  <2> DEFINE i == IF Filtered = <<>> THEN 0 ELSE (palette.idx + 1) % n
  <2>1. i \in Nat /\ (i = 0 \/ i < n)
    BY <1>0, <1>1
  <2>2. MoveTo(i)
    BY <1>2 DEF Down, n
  <2> HIDE DEF i
  <2> QED
    BY <2>1, <2>2, PaletteMoves DEF n
<1>3. ASSUME Up
      PROVE  BrowserInv'
  <2> DEFINE i == IF Filtered = <<>> THEN 0 ELSE (palette.idx - 1 + n) % n
  <2>1. i \in Nat /\ (i = 0 \/ i < n)
    BY <1>0, <1>1
  <2>2. MoveTo(i)
    BY <1>3 DEF Up, n
  <2> HIDE DEF i
  <2> QED
    BY <2>1, <2>2, PaletteMoves DEF n
<1>4. ASSUME NEW k \in DOMAIN Filtered, Hover(k)
      PROVE  BrowserInv'
  <2>1. k - 1 \in Nat /\ k - 1 < n /\ MoveTo(k - 1)
    BY <1>0, <1>4 DEF Hover
  <2> DEFINE i == k - 1
  <2> HIDE DEF i
  <2>2. i \in Nat /\ i < n /\ MoveTo(i)
    BY <2>1 DEF i
  <2> QED
    BY <2>2, PaletteMoves DEF n
<1>5. ASSUME NextSection
      PROVE  BrowserInv'
  <2> DEFINE here == IF palette.idx < n THEN Filtered[palette.idx + 1].kind ELSE Filtered[1].kind
             kind == CHOOSE kind \in Kinds : kind # here
             places == {i \in DOMAIN Filtered : Filtered[i].kind = kind}
             i == Min(places) - 1
  <2>1. Cardinality(Kinds) > 1 /\ MoveTo(i)
    BY <1>5 DEF NextSection, Top, n
  <2>2. kind \in Kinds
    <3>1. \E other \in Kinds : other # here
      <4> SUFFICES ASSUME Kinds \subseteq {here}
                   PROVE  FALSE
        OBVIOUS
      <4> HIDE DEF here
      <4>1. IsFiniteSet({here}) /\ Cardinality({here}) = 1
        BY FS_Singleton
      <4>2. Cardinality(Kinds) <= 1 /\ Cardinality(Kinds) \in Nat
        BY <4>1, FS_Subset, FS_CardinalityType
      <4> QED
        BY <2>1, <4>2
    <3> QED
      BY <3>1
  <2> HIDE DEF kind
  <2>3. places \in SUBSET (0 .. n) /\ places # {}
    BY <1>0, <2>2 DEF Kinds
  <2>4. Min(places) \in places
    <3> HIDE DEF places
    <3> QED
      BY <1>0, <2>3, MinMax
  <2>5. i \in Nat /\ i < n
    BY <1>0, <2>4
  <2> HIDE DEF i
  <2> QED
    BY <2>1, <2>5, PaletteMoves DEF n
<1> QED
  BY <1>2, <1>3, <1>4, <1>5

\* The reviews go on.
LEMMA ReviewsGoOn ==
    ASSUME BrowserInv, Arrive \/ \E r \in Reviews : Progress(r)
    PROVE  BrowserInv'
<1>1. /\ UNCHANGED <<url, screen, recents, palette, moved, clicks>> /\ led' = {}
      /\ changes < MaxChanges /\ changes' = changes + 1
  BY DEF Arrive, Progress, Changed
<1>2. FleetTyped' /\ Reviews \subseteq Reviews'
  <2>0. fleet \in Seq(StatusValues) /\ Len(fleet) <= Len(AgeOf) /\ Len(fleet) \in Nat /\ Len(AgeOf) \in Nat
    BY SlaBoardAssumption, LenProperties DEF BrowserInv, FleetTyped
  <2>1. CASE Arrive
    <3>1. fleet' = Append(fleet, "queued") /\ Len(fleet) < Len(AgeOf)
      BY <2>1 DEF Arrive
    <3>2. "queued" \in StatusValues
      BY DEF StatusValues
    <3>3. fleet' \in Seq(StatusValues) /\ Len(fleet') = Len(fleet) + 1
      BY <2>0, <3>1, <3>2, AppendProperties
    <3>4. DOMAIN fleet = 1 .. Len(fleet) /\ DOMAIN fleet' = 1 .. Len(fleet')
      BY <2>0, <3>3, LenProperties
    <3> QED
      BY <2>0, <3>1, <3>3, <3>4 DEF FleetTyped, Reviews
  <2>2. ASSUME NEW r \in Reviews, Progress(r)
        PROVE  FleetTyped' /\ Reviews \subseteq Reviews'
    <3>1. PICK s \in Moves(fleet[r]) : fleet' = [fleet EXCEPT ![r] = s]
      BY <2>2 DEF Progress
    <3>2. fleet[r] \in StatusValues
      BY ReviewsTell DEF BrowserInv
    <3>3. s \in StatusValues
      BY <3>1, <3>2 DEF Moves, StatusValues
    <3>4. fleet' \in Seq(StatusValues) /\ Len(fleet') = Len(fleet) /\ DOMAIN fleet' = DOMAIN fleet
      BY <2>0, <3>1, <3>3, ExceptSeq DEF Reviews
    <3> QED
      BY <2>0, <3>4 DEF FleetTyped, Reviews
  <2> QED
    BY <2>1, <2>2
<1>3. IsQuery(url.query)' /\ ScreenTyped' /\ RecentsTyped' /\ RecentsKnown'
  BY <1>1, <1>2 DEF BrowserInv, ScreenTyped, RecentsTyped, RecentsKnown
<1>4. Filtered' = Filtered
  BY <1>1, SameFound
<1>5. CursorInside' /\ palette' \in Palettes
  BY <1>1, <1>4 DEF CursorInside, BrowserInv
<1>6. Bounded' /\ LinksKeepTheirWord'
  BY <1>1, ReviewBrowserAssumption DEF BrowserInv, Bounded, LinksKeepTheirWord
<1> QED
  BY <1>2, <1>3, <1>5, <1>6 DEF BrowserInv, Palettes

\* The browser is opened on the settings.
LEMMA InitBrowser == BrowserInit => BrowserInv
<1> SUFFICES ASSUME BrowserInit
             PROVE  BrowserInv
  OBVIOUS
<1>1. /\ fleet = FirstFleet /\ url = [page |-> "settings", query |-> <<>>] /\ recents = Recent
      /\ screen = [rows |-> <<>>, chips |-> {}, crashed |-> FALSE]
      /\ palette = Closed /\ moved = FALSE /\ led = {} /\ clicks = 0 /\ changes = 0
  BY DEF BrowserInit
<1>2. FleetTyped
  BY <1>1, ReviewBrowserAssumption DEF FleetTyped
<1>3. IsQuery(url.query) /\ ScreenTyped
  BY <1>1, QueryOfNothing DEF ScreenTyped, Range
<1>4. RecentsTyped /\ RecentsKnown
  <2>1. /\ Recent \in Seq([review : DOMAIN AgeOf, status : StatusValues]) /\ Len(Recent) <= RecentLimit
        /\ \A i, j \in DOMAIN Recent : Recent[i].review = Recent[j].review => i = j
        /\ \A i \in DOMAIN Recent : Recent[i].review \in Reviews
    BY <1>2, RecentFits
  <2> QED
    BY <1>1, <2>1 DEF RecentsTyped, RecentsKnown
<1>5. palette \in Palettes /\ CursorInside
  BY <1>1 DEF Closed, Tokens, Palettes, CursorInside
<1>6. Bounded /\ LinksKeepTheirWord
  <2>1. MaxClicks \in Nat /\ MaxChanges \in Nat
    BY ReviewBrowserAssumption
  <2>2. moved \in BOOLEAN /\ clicks \in 0 .. MaxClicks /\ changes \in 0 .. MaxChanges
    <3>1. moved = FALSE /\ clicks = 0 /\ changes = 0
      BY <1>1
    <3>2. moved \in BOOLEAN
      BY Zenon, <3>1
    <3>3. 0 \in 0 .. MaxClicks /\ 0 \in 0 .. MaxChanges
      BY <2>1
    <3>4. clicks \in 0 .. MaxClicks /\ changes \in 0 .. MaxChanges
      BY <3>1, <3>3
    <3> QED
      BY <3>2, <3>4
  <2>3. LinksKeepTheirWord
    BY <1>1 DEF LinksKeepTheirWord
  <2> QED
    BY <2>2, <2>3 DEF Bounded
<1> QED
  BY <1>2, <1>3, <1>4, <1>5, <1>6 DEF BrowserInv

\* Every step keeps to it, one action after the other.
LEMMA NextBrowser == BrowserInv /\ [BrowserNext]_browserVars => BrowserInv'
<1> SUFFICES ASSUME BrowserInv, [BrowserNext]_browserVars
             PROVE  BrowserInv'
  OBVIOUS
<1>1. ASSUME NEW l \in ListLinks(ListOf(url.query)), ClickList(l)
      PROVE  BrowserInv'
  BY <1>1, BrowsedList
<1>2. ASSUME NEW chip \in screen.chips, ClickChip(chip)
      PROVE  BrowserInv'
  BY <1>2, BrowsedChip
<1>3. ASSUME NEW p \in Range(Routes), ClickRoute(p)
      PROVE  BrowserInv'
  BY <1>3, BrowsedRoute
<1>4. ASSUME NEW u \in Bookmarks, OpenUrl(u)
      PROVE  BrowserInv'
  <2>1. IsQuery(u.query) /\ Load(u) /\ clicks' \in 0 .. MaxClicks
    BY <1>4, OneMore, ReviewBrowserAssumption DEF OpenUrl
  <2> QED
    BY <2>1, BrowserLoads
<1>5. ASSUME Reload
      PROVE  BrowserInv'
  <2>1. IsQuery(url.query) /\ Load(url) /\ clicks' \in 0 .. MaxClicks
    BY <1>5 DEF Reload, BrowserInv, Bounded
  <2> DEFINE u == url
  <2> HIDE DEF u
  <2>2. IsQuery(u.query) /\ Load(u)
    BY <2>1 DEF u
  <2> QED
    BY <2>1, <2>2, BrowserLoads
<1>6. CASE ClickNav
  BY <1>6, BrowsedNav
<1>7. CASE Refresh
  BY <1>7, BrowserRefreshes
<1>8. CASE TogglePalette
  BY <1>8, PaletteToggled
<1>9. CASE \/ ClosePalette \/ ClearFilter
           \/ \E q \in Typed : TypeText(q)
           \/ \E s \in StatusValues : PickStatus(s)
  BY <1>9, PaletteEdited
<1>10. CASE Down \/ Up \/ NextSection \/ \E i \in DOMAIN Filtered : Hover(i)
  BY <1>10, CursorMoves
<1>11. CASE GoToList \/ Enter
  BY <1>11, BrowsedFilter, BrowsedRow
<1>12. CASE Arrive \/ \E r \in Reviews : Progress(r)
  BY <1>12, ReviewsGoOn
<1>13. CASE UNCHANGED browserVars
  <2>1. UNCHANGED <<fleet, url, screen, recents, palette, moved, led, clicks, changes>>
    BY <1>13 DEF browserVars
  <2>2. Filtered' = Filtered
    BY <2>1, SameFound
  <2> QED
    BY <2>1, <2>2 DEF BrowserInv, FleetTyped, Reviews, ScreenTyped, RecentsTyped, RecentsKnown, Palettes, Bounded,
                      CursorInside, LinksKeepTheirWord
<1> QED
  BY <1>1, <1>2, <1>3, <1>4, <1>5, <1>6, <1>7, <1>8, <1>9, <1>10, <1>11, <1>12, <1>13 DEF BrowserNext

\* What holds at all times says that the browser tells the truth.
LEMMA BrowserTells ==
    ASSUME BrowserInv
    PROVE  BrowserTypes /\ BrowserIsTrue
<1>1. BrowserTypes
  <2>1. palette.token \in Tokens /\ palette.idx \in Nat /\ (palette.words # {}) = Filtering
    BY PaletteTells DEF BrowserInv, PaletteTyped
  <2>2. \A i \in DOMAIN recents : recents[i].status \in StatusValues
    <3>1. recents \in Seq([review : DOMAIN AgeOf, status : StatusValues])
      BY DEF BrowserInv, RecentsTyped
    <3>2. \A i \in DOMAIN recents : recents[i] \in [review : DOMAIN AgeOf, status : StatusValues]
      BY <3>1, ElementOfSeq, LenProperties
    <3> QED
      BY <3>2
  <2> QED
    BY <2>1, <2>2 DEF BrowserInv, BrowserTypes, FleetTyped, ScreenTyped, RecentsKnown, Tokens, Bounded
<1>2. CursorStands
  BY DEF BrowserInv, CursorInside, CursorStands
<1>3. OptionsCount
  BY OptionsHold DEF BrowserInv
<1>4. ListIsTrue
  BY ListHolds DEF BrowserInv
<1>5. SlaIsTrue
  <2>1. InStatus({"completed"}) \in SUBSET DOMAIN AgeOf
    BY ReviewsTell DEF BrowserInv, InStatus
  <2>2. TableOf(url.query) \in Table
    BY TableRead DEF BrowserInv
  <2> QED
    BY <2>1, <2>2, SlaHolds DEF SlaIsTrue
<1> QED
  BY <1>1, <1>2, <1>3, <1>4, <1>5 DEF BrowserInv, BrowserIsTrue

\* The browser of the dashboard.
THEOREM BrowserTellsTruth == BrowserSpec => [](BrowserTypes /\ BrowserIsTrue)
<1>1. BrowserInv => BrowserTypes /\ BrowserIsTrue
  BY BrowserTells
<1> QED
  BY InitBrowser, NextBrowser, <1>1, PTL DEF BrowserSpec
=============================================================================
