-------------------------- MODULE DeliveryListing ---------------------------
(***************************************************************************)
(* What a reader of the captured webhooks sees while they come and go:     *)
(* put, list and stats of apps/server/src/services/webhook-store.ts and    *)
(* the routes /api/internal/webhook/recent and /stats of                   *)
(* apps/server/src/routes/webhook-replay.ts.                               *)
(*                                                                         *)
(* The store is a Map in the order of capture; here every delivery has the *)
(* stamp of its last capture, 0 when it is not kept, and the order of the  *)
(* Map is the order of the stamps.  A delivery is received when it is      *)
(* captured, so stamps are also the times that `since' and the histogram   *)
(* look at.  One reader walks from the newest delivery to the oldest, page *)
(* by page, with the id of the last entry as the cursor of the next page.  *)
(***************************************************************************)
EXTENDS Integers, FiniteSets

CONSTANTS
    Deliveries, \* deliveries, by X-GitHub-Delivery
    EventOf,    \* EventOf[d]: the event of d
    RepoOf,     \* RepoOf[d]: its repository, numbered in the order of the names
    Capacity,   \* how many deliveries the store keeps
    Queries,    \* what readers ask for: filter and size of a page
    Unset,      \* a filter that is not set
    None,       \* no cursor
    BucketSize, \* the width of a bucket of the histogram
    Buckets,    \* how many buckets it has
    MaxPuts     \* bound: captures

ASSUME ListingAssumption ==
    /\ IsFiniteSet(Deliveries) /\ None \notin Deliveries
    /\ Capacity \in Nat \ {0} /\ BucketSize \in Nat \ {0} /\ Buckets \in Nat \ {0}
    /\ MaxPuts \in Nat /\ Queries # {}
    /\ \A q \in Queries : q.limit \in Nat \ {0} /\ q.since \in Nat
    /\ \A d \in Deliveries : RepoOf[d] \in Nat

VARIABLES
    stamp,  \* stamp[d]: the number of the capture that d is kept from, or 0
    clock,  \* captures so far
    walk,   \* the reader's walk: "idle", "open" or "done"
    query,  \* what it asks for
    cursor, \* the last entry it was shown
    listed, \* history: the deliveries it was shown
    again,  \* history: those it was shown more than once
    start,  \* history: the stamps when it began
    jumped  \* history: its cursor was captured anew

store == <<stamp, clock>>
reader == <<walk, query, cursor, listed, again, start>>
deliveryVars == <<store, reader, jumped>>

Captured == {d \in Deliveries : stamp[d] > 0}

DeliveryTypes ==
    /\ stamp \in [Deliveries -> 0 .. clock] /\ Cardinality(Captured) <= Capacity
    /\ clock \in 0 .. MaxPuts
    /\ walk \in {"idle", "open", "done"}
    /\ query \in Queries
    /\ cursor \in Deliveries \cup {None}
    /\ listed \subseteq Deliveries /\ again \subseteq listed
    /\ start \in [Deliveries -> 0 .. clock]
    /\ jumped \in BOOLEAN

DeliveryInit ==
    /\ stamp = [d \in Deliveries |-> 0]
    /\ clock = 0
    /\ walk = "idle"
    /\ query = CHOOSE q \in Queries : TRUE
    /\ cursor = None
    /\ listed = {}
    /\ again = {}
    /\ start = stamp
    /\ jumped = FALSE

-----------------------------------------------------------------------------
(* The store.                                                              *)

\* Mutant: the store grows by one too many.
EvictedLate(d, others) ==
    IF Cardinality(others) <= Capacity THEN {{}}
    ELSE {{e} : e \in {f \in others : \A g \in others : stamp[f] <= stamp[g]}}

\* The entry that goes when d comes and the others are as many as are kept: the
\* oldest.
Evicted(d, others) ==
    IF Cardinality(others) < Capacity THEN {{}}
    ELSE {{e} : e \in {f \in others : \A g \in others : stamp[f] <= stamp[g]}}

\* put(): a delivery known already moves to the end.
Put(d) ==
    /\ clock < MaxPuts
    /\ clock' = clock + 1
    /\ \E gone \in Evicted(d, Captured \ {d}) :
          stamp' = [e \in Deliveries |-> IF e = d THEN clock + 1
                                         ELSE IF e \in gone THEN 0 ELSE stamp[e]]
    /\ jumped' = (jumped \/ (walk = "open" /\ cursor = d))
    /\ UNCHANGED reader

\* A restart empties the store.
Forget ==
    /\ Captured # {}
    /\ stamp' = [d \in Deliveries |-> 0]
    /\ UNCHANGED <<clock, reader, jumped>>

-----------------------------------------------------------------------------
(* list() and the route that pages with it.                                *)

IsAskedFor(d, q) ==
    /\ q.event \in {Unset, EventOf[d]}
    /\ q.repo \in {Unset, RepoOf[d]}
    /\ stamp[d] >= q.since

\* Mutant: an unknown cursor starts again from the newest entry.
AfterOrAll(d) == cursor \notin Captured \/ stamp[d] < stamp[cursor]

\* Behind the cursor; nothing is behind one that is not kept.
After(d) == cursor = None \/ (cursor \in Captured /\ stamp[d] < stamp[cursor])

Listable == {d \in Captured : IsAskedFor(d, query) /\ After(d)}

\* P is the first page of L: the newest of it, as many as asked for.
IsPage(P, L) ==
    /\ \A p \in P, e \in L \ P : stamp[p] > stamp[e]
    /\ Cardinality(P) <= query.limit
    /\ P = L \/ Cardinality(P) = query.limit

\* Mutant: a page that is just full ends the walk.
NextCursorLate(P) ==
    IF Cardinality(P) > query.limit THEN {p \in P : \A e \in P : stamp[p] <= stamp[e]}
    ELSE {None}

\* nextCursor: the last entry of a full page.
NextCursor(P) ==
    IF Cardinality(P) = query.limit THEN {p \in P : \A e \in P : stamp[p] <= stamp[e]}
    ELSE {None}

Open(q) ==
    /\ walk # "open"
    /\ walk' = "open"
    /\ query' = q
    /\ cursor' = None
    /\ listed' = {}
    /\ again' = {}
    /\ start' = stamp
    /\ jumped' = FALSE
    /\ UNCHANGED store

\* GET /api/internal/webhook/recent, and the reader goes on if it is told how.
Page ==
    /\ walk = "open"
    /\ \E P \in SUBSET Listable :
          /\ IsPage(P, Listable)
          /\ cursor' \in NextCursor(P)
          /\ listed' = listed \cup P
          /\ again' = again \cup (listed \cap P)
    /\ walk' = IF cursor' = None THEN "done" ELSE "open"
    /\ UNCHANGED <<store, query, start, jumped>>

DeliveryNext ==
    \/ \E d \in Deliveries : Put(d)
    \/ Forget
    \/ \E q \in Queries : Open(q)
    \/ Page

DeliverySpec == DeliveryInit /\ [][DeliveryNext]_deliveryVars

-----------------------------------------------------------------------------
(* stats(): the same deliveries, counted.                                  *)

Counted(q) == {d \in Captured : IsAskedFor(d, q)}

ByEvent(q) ==
    [v \in {EventOf[d] : d \in Counted(q)} |-> Cardinality({d \in Counted(q) : EventOf[d] = v})]

RepoCount(q, r) == Cardinality({d \in Counted(q) : RepoOf[d] = r})

\* The repositories with most deliveries; names decide between equals.
TopRepos(q, n) ==
    LET repos == {RepoOf[d] : d \in Counted(q)}
        Before(r, s) == \/ RepoCount(q, r) > RepoCount(q, s)
                        \/ RepoCount(q, r) = RepoCount(q, s) /\ r < s
    IN  {r \in repos : Cardinality({s \in repos : Before(s, r)}) < n}

\* What is left to the row "(other)".
OtherRepos(q, n) == Cardinality({d \in Counted(q) : RepoOf[d] \notin TopRepos(q, n)})

\* Mutant: the histogram is drawn before the filter is applied.
BucketUnfiltered(q, now, i) ==
    Cardinality({d \in Captured : stamp[d] <= now /\ (now - stamp[d]) \div BucketSize = i})

\* How many deliveries are i buckets old at the anchor; later ones are in none.  One
\* that comes at the anchor itself is in the newest (`ageMs >= 0'), whose right edge
\* the comment at nowMs (webhook-store.ts:243) calls exclusive.
Bucket(q, now, i) ==
    Cardinality({d \in Counted(q) : stamp[d] <= now /\ (now - stamp[d]) \div BucketSize = i})

\* computePeakBucket(): the first of the fullest buckets, -1 when all are empty.
Peak(q, now) ==
    LET full == {i \in 0 .. Buckets - 1 :
                    /\ Bucket(q, now, i) > 0
                    /\ \A j \in 0 .. Buckets - 1 : Bucket(q, now, j) <= Bucket(q, now, i)}
    IN  IF full = {} THEN -1 ELSE CHOOSE i \in full : \A j \in full : i <= j

-----------------------------------------------------------------------------
(* Properties                                                              *)

\* The deliveries a walk owes its reader: kept since it began, and asked for.
Owed == {d \in Deliveries : start[d] > 0 /\ stamp[d] = start[d] /\ IsAskedFor(d, query)}

\* A walk that has come to its end has shown every delivery that was there when
\* it began and still is, although the store moved on under it: the cursor may
\* have been dropped or captured anew, and a page that comes back empty for it
\* ends the walk.
WalkIsComplete == walk = "done" => Owed \subseteq listed

\* A walk shows no delivery twice unless its own cursor was captured anew, which
\* takes it back to the newest entry.
WalkIsOnce == again # {} => jumped

\* Whoever pages through the deliveries misses none and, but for that cursor, gets none
\* twice.
WalkIsFaithful == WalkIsComplete /\ WalkIsOnce

\* What the statistics count is what the listing lists: the two breakdowns and
\* the histogram lose no delivery, whatever the filter, the anchor and the
\* number of repositories asked for, and the peak is in the histogram.  The
\* histogram covers the time up to and including the anchor, as the code does and
\* unlike the comment that calls this edge exclusive.
StatsAgree ==
    LET Sum(f) == Cardinality({p \in (DOMAIN f) \X (1 .. Capacity) : p[2] <= f[p[1]]})
        counted == Counted(query)
    IN  /\ Sum(ByEvent(query)) = Cardinality(counted)
        /\ \A n \in 1 .. 2 :
              LET top == TopRepos(query, n)
              IN  /\ Sum([r \in top |-> RepoCount(query, r)]) + OtherRepos(query, n) = Cardinality(counted)
                  /\ Cardinality(top) <= n
        /\ \A now \in 0 .. clock :
              LET seen == {d \in counted : stamp[d] \in now - BucketSize * Buckets + 1 .. now}
              IN  /\ Sum([i \in 0 .. Buckets - 1 |-> Bucket(query, now, i)]) = Cardinality(seen)
                  /\ Peak(query, now) = -1 <=> seen = {}
=============================================================================
