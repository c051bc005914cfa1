---------------------------- MODULE ReviewBrowser -----------------------------
(***************************************************************************)
(* An operator looks for reviews in the dashboard: the list with its       *)
(* filters in the URL, the command palette with its status: vocabulary,    *)
(* the badge of the navigation, the overview and the SLA page.  The        *)
(* reviews go on meanwhile, and what the layout knows of them (the recent  *)
(* ones, for badge and palette) is as old as the last full render.         *)
(*                                                                         *)
(* Next.js is external: a link renders its page and keeps the layout, a    *)
(* reload or a refresh renders both.  A word of a status: filter is known  *)
(* by the statuses it begins; a text and a command's name are sequences of *)
(* letters.                                                                *)
(***************************************************************************)
EXTENDS SlaBoard

CONSTANTS
    FindingsIn, CostOf, TookOf, \* of each review, when it is completed; the cost in cents
    PlaceOf,                    \* the repository of each review
    ListLimit, RecentLimit,     \* rows of the list (50), of the layout (12)
    Routes,                     \* the pages the palette offers, in its order
    LettersOfPage, LettersOfReview, \* what a text is matched with
    Begins,                     \* the statuses a word begins
    Typed,                      \* what is typed into the palette: [token, words, text]
    Bookmarks,                  \* the queries typed into the address bar
    FirstFleet,                 \* the statuses of the reviews at the start
    MaxClicks, MaxChanges       \* bounds: what the operator does, what the reviews do

StatusValues == {"running", "completed", "failed", "queued"}
SortKeys == {"created", "findings", "duration", "spend"}

\* What a query may have: a place is a set of repositories, windows are numbers of hours.
IsQuery(q) ==
    /\ "place" \in DOMAIN q => q["place"] \subseteq Nat
    /\ "policy" \in DOMAIN q => \E S \in SUBSET (0 .. 4) : q["policy"] \in [S -> Nat]

\* No status begins another.
ASSUME ReviewBrowserAssumption ==
    /\ ListLimit \in Nat \ {0} /\ RecentLimit \in 1 .. ListLimit
    /\ MaxClicks \in Nat /\ MaxChanges \in Nat
    /\ \A s \in StatusValues : Begins[s] = {s}
    /\ \A r \in DOMAIN AgeOf : FindingsIn[r] \in Nat /\ CostOf[r] \in Nat /\ TookOf[r] \in Nat
    /\ FirstFleet \in Seq(StatusValues) /\ Len(FirstFleet) <= Len(AgeOf)
    /\ Routes \in Seq(DOMAIN LettersOfPage)
    /\ \A q \in Typed : /\ q.token \in {"none", "bare", "list", "comma"}
                         /\ (q.words # {}) = (q.token \in {"list", "comma"})
                         /\ q.text \in Seq(STRING)
    /\ \A p \in DOMAIN LettersOfPage : LettersOfPage[p] \in Seq(STRING)
    /\ \A r \in DOMAIN AgeOf : LettersOfReview[r] \in Seq(STRING)
    /\ \A u \in Bookmarks : IsQuery(u.query)

VARIABLES
    fleet,   \* the status of each review, oldest first
    url,     \* where the browser stands: [page, query]
    screen,  \* what the page has rendered: [rows, chips, crashed]
    recents, \* the reviews the layout has, newest first: [review, status]
    palette, \* [open, token, words, text, idx]
    moved,   \* whether the recents changed under what is typed
    led,     \* what the last link promised: {} or {[promised, current]}
    clicks, changes

browserVars == <<fleet, url, screen, recents, palette, moved, led, clicks, changes>>

Reviews == DOMAIN fleet
InStatus(S) == {r \in Reviews : fleet[r] \in S}

-----------------------------------------------------------------------------
(* The list and its links.                                                 *)

DefaultList == [status |-> {}, place |-> {}, sort |-> "created", dir |-> "desc"]

\* hrefWith(): what differs from the default.
ListQuery(l) == [k \in {k \in DOMAIN l : l[k] # DefaultList[k]} |-> l[k]]

\* parseStatusList(), parseSort(), parseDir(): what they do not know falls away.
ListOf(q) ==
    LET Of(k) == IF k \in DOMAIN q THEN q[k] ELSE DefaultList[k]
    IN  [status |-> Of("status") \cap StatusValues,
         place |-> Of("place"),
         sort |-> IF Of("sort") \in SortKeys THEN Of("sort") ELSE "created",
         dir |-> IF Of("dir") = "asc" THEN "asc" ELSE "desc"]

\* Mutant: the server is asked for one of the statuses and the others are lost.
FetchFirst(l) ==
    LET asked == {CHOOSE s \in l.status : TRUE}
    IN  Newest({r \in Reviews : (l.status # {} => fleet[r] \in asked)
                                /\ (l.place # {} => PlaceOf[r] \in l.place)}, ListLimit)

\* One status is left to the server; of more, the newest of all are filtered here.
Fetch(l) ==
    LET one == Cardinality(l.status) = 1
        served == Newest({r \in Reviews : (one => fleet[r] \in l.status)
                                          /\ (l.place # {} => PlaceOf[r] \in l.place)}, ListLimit)
    IN  IF l.status = {} \/ one THEN served ELSE {r \in served : fleet[r] \in l.status}

Ended(r) == fleet[r] \in {"completed", "failed"}

SortValue(key, r) ==
    CASE key = "created" -> r
      [] key = "findings" -> IF fleet[r] = "completed" THEN FindingsIn[r] ELSE 0
      [] key = "duration" -> IF Ended(r) THEN TookOf[r] ELSE 0
      [] key = "spend" -> IF fleet[r] = "completed" THEN CostOf[r] ELSE 0

\* sortItems(): ties stand in the order of their ids, whatever the direction.
InOrder(l, rows) ==
    LET Precedes(a, b) ==
            LET v == SortValue(l.sort, a) w == SortValue(l.sort, b)
            IN  IF v = w THEN a < b ELSE (l.dir = "asc") = (v < w)
    IN  Sorted([a \in rows |-> {b \in rows : Precedes(b, a)}])

\* anomalyCounts() and the rings of the rows: a spike costs 1.6 times the mean and 5 cents
\* at least, a jump has 1.8 times the mean and 3 findings more.
Spikes(rows) ==
    LET n == Cardinality(rows) sum == MapThenSumSet(LAMBDA r : SortValue("spend", r), rows)
    IN  {r \in rows : /\ n >= 2 /\ sum > 0 /\ SortValue("spend", r) >= 5
                      /\ 10 * n * SortValue("spend", r) >= 16 * sum}

Jumps(rows) ==
    LET n == Cardinality(rows) sum == MapThenSumSet(LAMBDA r : SortValue("findings", r), rows)
    IN  {r \in rows : /\ n >= 2 /\ sum > 0 /\ n * SortValue("findings", r) >= sum + 3 * n
                      /\ 10 * n * SortValue("findings", r) >= 18 * sum}

\* statusToggleHref()
StatusLink(l, s) == [l EXCEPT !.status = IF s \in @ THEN @ \ {s} ELSE @ \cup {s}]

\* sortHref(): the other direction of the column it is sorted by.
SortLink(l, key) ==
    [l EXCEPT !.sort = key, !.dir = IF l.sort = key /\ l.dir = "desc" THEN "asc" ELSE "desc"]

\* The chips of the filters that are on; with several statuses one takes them all off.
ListChips(l) ==
    {[l EXCEPT !.status = @ \ {s}] : s \in l.status}
    \cup {[l EXCEPT !.place = {}] : p \in l.place}
    \cup (IF <<l.sort, l.dir>> # <<"created", "desc">> THEN {[l EXCEPT !.sort = "created", !.dir = "desc"]} ELSE {})
    \cup (IF Cardinality(l.status) >= 2 THEN {[l EXCEPT !.status = {}]} ELSE {})

\* What the list can be clicked to.
ListLinks(l) ==
    {StatusLink(l, s) : s \in StatusValues} \cup {[l EXCEPT !.status = {}]}
    \cup {SortLink(l, key) : key \in SortKeys} \cup ListChips(l)
    \cup (IF ListChips(l) # {} THEN {DefaultList} ELSE {})

-----------------------------------------------------------------------------
(* The layout, the overview and where a link leads.                        *)

\* getRecentReviews(): what the layout would have if it were rendered now.
Recent ==
    LET newest == Newest(Reviews, RecentLimit)
        rows == Sorted([r \in newest |-> {s \in newest : s > r}])
    IN  [i \in DOMAIN rows |-> [review |-> rows[i], status |-> fleet[rows[i]]]]

RecentIn(S) == {recents[i].review : i \in {i \in DOMAIN recents : recents[i].status \in S}}

\* The reviews link of the navigation: to the failed ones, counted in its badge, or the
\* running ones.
NavStatus == CASE RecentIn({"failed"}) # {} -> {"failed"}
               [] RecentIn({"failed"}) = {} /\ RecentIn({"running"}) # {} -> {"running"}
               [] OTHER -> {}

\* The chips of the overview's reliability card, by the statuses they lead to.
OverviewChips ==
    {[counted |-> InStatus({"completed"}), status |-> {"completed"}] : x \in InStatus({"completed"})}
    \cup {[counted |-> InStatus({"failed"}), status |-> {"failed"}] : x \in InStatus({"failed"})}
    \cup {[counted |-> InStatus({"running", "queued"}), status |-> {"running"}] :
             x \in InStatus({"running", "queued"})}
    \cup {[counted |-> InStatus({"failed", "running", "queued"}), status |-> {"failed", "running"}] :
             x \in InStatus({"failed"}) \X InStatus({"running", "queued"})}

ListUrl(l) == [page |-> "reviews", query |-> ListQuery(l)]
StatusUrl(words) == [page |-> "reviews", query |-> [status |-> words]]

\* The page at a place.  A list that cannot be read is empty, a report that cannot is none.
Rendered(u, answers) ==
    [rows |-> IF u.page = "reviews" /\ "reviews" \in answers
              THEN InOrder(ListOf(u.query), Fetch(ListOf(u.query))) ELSE <<>>,
     chips |-> IF u.page = "overview" /\ "reviews" \in answers THEN OverviewChips ELSE {},
     crashed |-> /\ "sla" \in answers /\ u.page \in {"overview", "sla"}
                 /\ Throws(SlaReport(InStatus({"completed"}),
                                     IF u.page = "sla" THEN TableOf(u.query).policy ELSE <<>>))]

Closed == [open |-> FALSE, token |-> "none", words |-> {}, text |-> <<>>, idx |-> 0]

Acts == /\ clicks < MaxClicks
        /\ clicks' = clicks + 1

\* What answers when a page is rendered.
Answers == SUBSET {"reviews", "sla"}

\* A link: its page is rendered, the layout stays as it is.
Follow(u, promised, current) ==
    /\ Acts
    /\ url' = u
    /\ \E answers \in Answers :
          /\ screen' = Rendered(u, answers)
          /\ led' = {[promised |-> promised, current |-> current /\ "reviews" \in answers]}
    /\ UNCHANGED <<fleet, recents, changes>>

OnPageOf(page) == url.page = page /\ ~palette.open /\ ~screen.crashed

ClickList(l) ==
    /\ OnPageOf("reviews")
    /\ Follow(ListUrl(l), {}, TRUE)
    /\ UNCHANGED <<palette, moved>>

ClickNav ==
    /\ ~palette.open
    /\ Follow(IF NavStatus = {} THEN ListUrl(DefaultList) ELSE StatusUrl(NavStatus),
              RecentIn(NavStatus), recents = Recent)
    /\ UNCHANGED <<palette, moved>>

\* A chip of the overview.  The one for running reviews counts the queued ones as well,
\* which its link leaves out.
ClickChip(chip) ==
    /\ OnPageOf("overview")
    /\ Follow(StatusUrl(chip.status), IF "running" \in chip.status THEN {} ELSE chip.counted,
              screen.chips = OverviewChips)
    /\ UNCHANGED <<palette, moved>>

\* g and a letter.
ClickRoute(page) ==
    /\ ~palette.open
    /\ Follow([page |-> page, query |-> <<>>], {}, TRUE)
    /\ UNCHANGED <<palette, moved>>

\* Page and layout are rendered afresh.
Load(u) ==
    /\ url' = u
    /\ \E answers \in Answers : /\ screen' = Rendered(u, answers)
                                /\ recents' = IF "reviews" \in answers THEN Recent ELSE <<>>
    /\ palette' = Closed
    /\ moved' = FALSE /\ led' = {}
    /\ UNCHANGED <<fleet, changes>>

\* An address is typed; the page is reloaded, as often as one likes.
OpenUrl(u) == Acts /\ Load(u)
Reload == Load(url) /\ UNCHANGED clicks

\* A server action that revalidates renders both under what stands on the screen.
Refresh ==
    /\ Acts
    /\ screen' = Rendered(url, {"reviews", "sla"})
    /\ recents' = Recent
    /\ moved' = (moved \/ recents' # recents)
    /\ led' = {}
    /\ UNCHANGED <<fleet, url, palette, changes>>

-----------------------------------------------------------------------------
(* The palette.                                                            *)

\* A page has no status.
PageCommand(route) == [kind |-> "navigate", page |-> route, review |-> 0, status |-> {}]
ReviewCommand(r) == [kind |-> "reviews", page |-> "review", review |-> r.review, status |-> {r.status}]

Commands == [i \in DOMAIN Routes |-> PageCommand(Routes[i])]
            \o [i \in DOMAIN recents |-> ReviewCommand(recents[i])]

\* What a command is matched with; the status of a review is one of its keywords.
Haystack(c) ==
    (IF c.kind = "navigate" THEN LettersOfPage[c.page] ELSE LettersOfReview[c.review]) \o SetToSeq(c.status)

\* fuzzyScore(): the place of the text, or 1000 and the place of its first letter when its
\* letters stand in order but apart; none ({}) otherwise.
FuzzyScore(needle, hay) ==
    LET whole == {i \in 0 .. Len(hay) - Len(needle) : SubSeq(hay, i + 1, i + Len(needle)) = needle}
        matched == FoldLeft(LAMBDA n, c : IF n < Len(needle) /\ c = needle[n + 1] THEN n + 1 ELSE n, 0, hay)
    IN  CASE needle = <<>> -> {0}
          [] needle # <<>> /\ whole # {} -> {Min(whole)}
          [] needle # <<>> /\ whole = {} /\ matched = Len(needle) ->
                {1000 + Min({i \in 0 .. Len(hay) - 1 : hay[i + 1] = needle[1]})}
          [] OTHER -> {}

\* The commands a text matches, the tighter match first.
Ranked(commands, needle) ==
    LET score == [i \in DOMAIN commands |-> FuzzyScore(needle, Haystack(commands[i]))]
        hits == {i \in DOMAIN commands : score[i] # {}}
        Better(i, j) == Min(score[i]) < Min(score[j]) \/ (score[i] = score[j] /\ i < j)
        order == Sorted([i \in hits |-> {j \in hits : Better(j, i)}])
    IN  [k \in DOMAIN order |-> commands[order[k]]]

\* The reviews a status: filter lets through.
Scoped(words) ==
    Selected(Commands, {i \in DOMAIN Commands :
                           \E s \in Commands[i].status : \E w \in words : s \in Begins[w]})

Filtering == palette.token \in {"list", "comma"}

\* parseStatusFilter(): a token with a word is a filter; status: alone finds nothing.
Filtered ==
    IF palette.token = "bare" THEN <<>>
    ELSE Ranked(IF Filtering THEN Scoped(palette.words) ELSE Commands, palette.text)

\* statusCompletionState(): chips show after status: and after a comma.
Completing == palette.token \in {"bare", "comma"}

\* The statuses of recent reviews that are not chosen yet.
StatusOptions == IF Completing THEN {recents[i].status : i \in DOMAIN recents} \ palette.words ELSE {}
OptionCount(s) == Cardinality(RecentIn({s}))

\* The first row of a section.
Top(kind) == Min({i \in DOMAIN Filtered : Filtered[i].kind = kind}) - 1
Kinds == {Filtered[i].kind : i \in DOMAIN Filtered}

Editing(new) ==
    /\ Acts /\ palette.open
    /\ palette' = new
    /\ led' = {}
    /\ UNCHANGED <<fleet, url, screen, recents, changes>>

\* cmd-k leaves what was typed, Escape and a click beside it do not.
TogglePalette ==
    /\ Acts
    /\ palette' = [palette EXCEPT !.open = ~@]
    /\ led' = {}
    /\ UNCHANGED <<fleet, url, screen, recents, moved, changes>>

ClosePalette == Editing(Closed) /\ moved' = FALSE

TypeText(q) ==
    /\ Editing([open |-> TRUE, token |-> q.token, words |-> q.words, text |-> q.text, idx |-> 0])
    /\ moved' = FALSE

\* The chip of a status: it joins the words, a blank ends the token.
PickStatus(s) ==
    /\ s \in StatusOptions
    /\ Editing([palette EXCEPT !.token = "list", !.words = @ \cup {s}, !.idx = 0])
    /\ moved' = FALSE

\* The pill of the filter: the whole token goes.
ClearFilter ==
    /\ Filtering
    /\ Editing([palette EXCEPT !.token = "none", !.words = {}, !.idx = 0])
    /\ moved' = FALSE

\* The keys that move the cursor and the mouse over a row.
MoveTo(i) == Editing([palette EXCEPT !.idx = i]) /\ UNCHANGED moved

Down == StatusOptions = {} /\ MoveTo(IF Filtered = <<>> THEN 0 ELSE (palette.idx + 1) % Len(Filtered))
Up == MoveTo(IF Filtered = <<>> THEN 0 ELSE (palette.idx - 1 + Len(Filtered)) % Len(Filtered))
NextSection ==
    /\ Cardinality(Kinds) > 1
    /\ LET here == IF palette.idx < Len(Filtered) THEN Filtered[palette.idx + 1].kind ELSE Filtered[1].kind
       IN  MoveTo(Top(CHOOSE kind \in Kinds : kind # here))
Hover(i) == i <= Len(Filtered) /\ MoveTo(i - 1)

Leave(u, promised, current) ==
    /\ palette.open
    /\ Follow(u, promised, current)
    /\ palette' = Closed
    /\ moved' = FALSE

\* The list of a filter: promised are the reviews it previews, if its words are statuses.
GoToList ==
    /\ Filtering
    /\ Leave(StatusUrl(palette.words),
             IF palette.words \subseteq StatusValues THEN {Filtered[i].review : i \in DOMAIN Filtered} ELSE {},
             recents = Recent)

\* Enter, or a click on the row: the row at the cursor; with none, the list of the filter.
Enter ==
    \/ /\ palette.idx < Len(Filtered)
       /\ Leave([page |-> Filtered[palette.idx + 1].page, query |-> <<>>], {}, TRUE)
    \/ palette.idx >= Len(Filtered) /\ GoToList

-----------------------------------------------------------------------------
(* The reviews.                                                            *)

Moves(s) ==
    CASE s \in {"queued", "failed"} -> {"running"}
      [] s = "running" -> {"completed", "failed"}
      [] s = "completed" -> {}

Changed == /\ changes < MaxChanges
           /\ changes' = changes + 1
           /\ led' = {}
           /\ UNCHANGED <<url, screen, recents, palette, moved, clicks>>

Progress(r) == \E s \in Moves(fleet[r]) : fleet' = [fleet EXCEPT ![r] = s] /\ Changed
Arrive == Len(fleet) < Len(AgeOf) /\ fleet' = Append(fleet, "queued") /\ Changed

BrowserInit ==
    /\ fleet = FirstFleet
    /\ url = [page |-> "settings", query |-> <<>>]
    /\ screen = [rows |-> <<>>, chips |-> {}, crashed |-> FALSE]
    /\ recents = Recent /\ palette = Closed /\ moved = FALSE /\ led = {} /\ clicks = 0 /\ changes = 0

BrowserNext ==
    \/ \E l \in ListLinks(ListOf(url.query)) : ClickList(l)
    \/ \E chip \in screen.chips : ClickChip(chip)
    \/ \E page \in Range(Routes) : ClickRoute(page)
    \/ \E u \in Bookmarks : OpenUrl(u)
    \/ \E q \in Typed : TypeText(q)
    \/ \E s \in StatusValues : PickStatus(s)
    \/ \E i \in DOMAIN Filtered : Hover(i)
    \/ ClickNav \/ Reload \/ Refresh \/ TogglePalette \/ ClosePalette \/ ClearFilter
    \/ Down \/ Up \/ NextSection \/ GoToList \/ Enter
    \/ \E r \in Reviews : Progress(r)
    \/ Arrive

BrowserSpec == BrowserInit /\ [][BrowserNext]_browserVars

-----------------------------------------------------------------------------
(* Properties                                                              *)

BrowserTypes ==
    /\ fleet \in Seq(StatusValues) /\ Len(fleet) <= Len(AgeOf)
    /\ Range(screen.rows) \subseteq Reviews /\ screen.crashed \in BOOLEAN
    /\ \A i \in DOMAIN recents : recents[i].review \in Reviews /\ recents[i].status \in StatusValues
    /\ Len(recents) <= RecentLimit
    /\ palette.token \in {"none", "bare", "list", "comma"} /\ palette.idx \in Nat
    /\ (palette.words # {}) = Filtering
    /\ moved \in BOOLEAN /\ clicks \in 0 .. MaxClicks /\ changes \in 0 .. MaxChanges

\* What the badge, a chip of the overview or the palette's preview counted stands on the
\* list it led to, if it was up to date and fits on the list.
LinksKeepTheirWord ==
    \A p \in led : p.current /\ Cardinality(p.promised) <= ListLimit => p.promised \subseteq Range(screen.rows)

\* The cursor of the palette stands on a row while there is one, unless a refresh changed
\* the rows under it.
CursorStands == palette.open /\ ~moved => palette.idx = 0 \/ palette.idx < Len(Filtered)

\* The number at a status that is offered is the number of reviews it brings in.
OptionsCount ==
    palette.words \subseteq StatusValues =>
        \A s \in StatusOptions :
            Len(Scoped(palette.words \cup {s})) = Len(Scoped(palette.words)) + OptionCount(s)

\* Every link of the list is read back as it was meant, a status that is clicked twice is
\* where it was, nothing is filtered or sorted without a chip to take it off; what several
\* statuses show of one, its own tab shows; and not every row is out of the ordinary.
ListIsTrue ==
    LET l == ListOf(url.query)
    IN  url.page = "reviews" =>
            /\ \A m \in ListLinks(l) : ListOf(ListQuery(m)) = m
            /\ \A s \in StatusValues : StatusLink(StatusLink(l, s), s) = l
            /\ (ListChips(l) = {}) = (ListQuery(l) = <<>>)
            /\ \A s \in l.status : Fetch(l) \cap InStatus({s}) \subseteq Fetch([l EXCEPT !.status = {s}])
            /\ Fetch(l) # {} => Spikes(Fetch(l)) # Fetch(l) /\ Jumps(Fetch(l)) # Fetch(l)

SlaIsTrue == url.page = "sla" => SlaAgrees(InStatus({"completed"}), TableOf(url.query))

\* What the browser shows and where it leads is so.
BrowserIsTrue == LinksKeepTheirWord /\ CursorStands /\ OptionsCount /\ ListIsTrue /\ SlaIsTrue

\* The pages that show the SLA report can read it: the dashboard's types match what the
\* server answers (data.ts:75).
PagesRender == ~screen.crashed
=============================================================================
