---------------------------- MODULE ReviewListing ----------------------------
(***************************************************************************)
(* The list of reviews a dashboard pages through while reviews start, run  *)
(* and end: list() of apps/server/src/services/review-store.ts and GET     *)
(* /api/reviews.  The cursor is a number of rows, not a row, so a page is  *)
(* cut from whatever the list is when it is asked for.                     *)
(***************************************************************************)
EXTENDS Integers, Sequences, FiniteSets

CONSTANTS
    MaxRows,  \* bound: reviews started
    MaxLeft,  \* bound: how far the reviews that leave the list are counted
    PageSize, \* the reader's limit
    Wanted    \* the statuses a reader may ask for; "all" asks for all

ASSUME ReviewListingAssumption ==
    /\ MaxRows \in Nat /\ MaxLeft \in Nat /\ MaxLeft >= MaxRows
    /\ Wanted # {} /\ PageSize \in Nat \ {0}

VARIABLES
    status,  \* status[n]: the status of the n-th review
    turn,    \* the reader's walk: "idle", "open" or "done"
    want,    \* the status it asks for
    offset,  \* its cursor
    shown,   \* history: the reviews it was shown
    kept,    \* history: those it was owed: in its list from the beginning on
    left     \* history: how often a review left its list

reviewVars == <<status, turn, want, offset, shown, kept, left>>

Statuses == {"queued", "running", "completed", "failed"}
Rows == 1 .. MaxRows

InList(s, w) == w = "all" \/ s = w

\* The reviews in the reader's list.
Listed == {n \in DOMAIN status : InList(status[n], want)}

ReviewTypes ==
    /\ status \in Seq(Statuses) /\ Len(status) <= MaxRows
    /\ turn \in {"idle", "open", "done"}
    /\ want \in Wanted
    /\ offset \in 0 .. MaxRows
    /\ shown \subseteq DOMAIN status
    /\ kept \subseteq Listed
    /\ left \in 0 .. MaxLeft

ReviewInit ==
    /\ status = <<>>
    /\ turn = "idle"
    /\ want = CHOOSE w \in Wanted : TRUE
    /\ offset = 0
    /\ shown = {}
    /\ kept = {}
    /\ left = 0

-----------------------------------------------------------------------------
\* Row n gets a status; what that means for the walk under way is history.
SetStatus(n, s) ==
    /\ status' = [status EXCEPT ![n] = s]
    /\ kept' = IF InList(s, want) THEN kept ELSE kept \ {n}
    /\ left' = IF turn = "open" /\ n \in Listed /\ ~InList(s, want) /\ left < MaxLeft
             THEN left + 1 ELSE left
    /\ UNCHANGED <<turn, want, offset, shown>>

\* start()
StartReview ==
    /\ Len(status) < MaxRows
    /\ status' = Append(status, "queued")
    /\ UNCHANGED <<turn, want, offset, shown, kept, left>>

\* markRunning(), whatever the status: at the first attempt, at a later one, and
\* at a second run of a stalled job whose first run has come to its end
MarkRunning(n) == SetStatus(n, "running")

\* complete() and fail(), whatever the status: of runs that overlap each ends the
\* review its way.  A run that ends has begun, so the row is not queued.
EndReview(n) ==
    /\ status[n] # "queued"
    /\ \E s \in {"completed", "failed"} : SetStatus(n, s)

-----------------------------------------------------------------------------
OpenList(w) ==
    /\ turn # "open"
    /\ turn' = "open"
    /\ want' = w
    /\ offset' = 0
    /\ shown' = {}
    /\ kept' = {n \in DOMAIN status : InList(status[n], w)}
    /\ left' = 0
    /\ UNCHANGED status

\* How many rows of the list come before row n: the newest come first.
Before(n) == Cardinality({m \in Listed : m > n})

\* Mutant: the next page begins one row too late.
Slice == {n \in Listed : Before(n) > offset /\ Before(n) <= offset + PageSize}

\* The rows of the page at the cursor.
ListPage == {n \in Listed : Before(n) >= offset /\ Before(n) < offset + PageSize}

\* GET /api/reviews, and the next page if there is one.
FetchPage ==
    /\ turn = "open"
    /\ shown' = shown \cup ListPage
    /\ IF offset + PageSize < Cardinality(Listed)
       THEN turn' = "open" /\ offset' = offset + PageSize
       ELSE turn' = "done" /\ UNCHANGED offset
    /\ UNCHANGED <<status, want, kept, left>>

ReviewNext ==
    \/ StartReview
    \/ \E n \in DOMAIN status : MarkRunning(n) \/ EndReview(n)
    \/ \E w \in Wanted : OpenList(w)
    \/ FetchPage

ReviewSpec == ReviewInit /\ [][ReviewNext]_reviewVars

-----------------------------------------------------------------------------
\* A walk through the list misses no more of the reviews that were in it all
\* along than reviews left it meanwhile, a completed one that a second run of its
\* job takes up among them: each one that leaves moves the rest up by one, past
\* the cursor.  New reviews and those that come back only repeat rows.
MissesBounded == turn = "done" => Cardinality(kept \ shown) <= left
=============================================================================
