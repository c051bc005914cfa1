-------------------------- MODULE Clients_proofs --------------------------
(***************************************************************************)
(* What clients can rely on, for any sizes, filters and bounds, while the  *)
(* server moves on: two lists they page through, the commands that gate a  *)
(* build, those that resolve presets, the reads of one review, and the     *)
(* dashboard, whose operators Dashboard_proofs is about.                   *)
(*                                                                         *)
(* The deliveries: whoever pages through them misses none that was there   *)
(* all the time, and gets none twice unless the cursor was captured anew.  *)
(* The argument needs where the cursor stands.  What is owed and not shown *)
(* lies behind it (Ahead), so it cannot be the oldest entry, the only one  *)
(* the store drops: a cursor that is gone has nothing behind it that is    *)
(* owed.  What is shown is not behind it (Behind), as long as it has not   *)
(* moved itself.  The statistics over them add up, whatever they count.    *)
(*                                                                         *)
(* The reviews: their cursor is a number of rows, so a row that leaves the *)
(* list pulls the rows behind it past the cursor.  The walk misses no more *)
(* reviews than left the list: those it will miss are the ones passed, and *)
(* a review is passed only when another leaves (WalkInv).                  *)
(*                                                                         *)
(* The commands: the gate of a command and its hooks tell what it read,    *)
(* whatever command lines are run, however often a loop polls and whenever *)
(* a SIGINT comes.  The argument needs what holds between two reports: a   *)
(* loop remembers the sight that it saw last (prev = seen), and the hooks  *)
(* have told that sight or there was nothing to tell; nothing has been     *)
(* told while there is nothing seen, and a command that goes on has polls  *)
(* left.                                                                   *)
(*                                                                         *)
(* The presets: what a chain resolves to, preset by preset, says of each   *)
(* field what its names say.  The recursion of resolveOne ends because the *)
(* presets above a preset grow in number (ResolutionExists); presets that  *)
(* load are without circles, since in a circle a preset comes back to what *)
(* is above it (LoadedIsSound); so they can be ranked, and the claim holds *)
(* rank by rank (ResolvedSays).                                            *)
(*                                                                         *)
(* The reads of one review: whatever is read is made from the row of now   *)
(* and from what was kept of its last run, so what has to be kept is how   *)
(* the two belong together (Holds): the digest and the report that are     *)
(* stored are of the findings in the row, in whatever state reviewers have *)
(* put them since, and they are replaced together. The same is so of what  *)
(* a run has summarised and not yet stored (PostingTold). From there, each *)
(* answer is told by the findings alone (ReportIsTold and its like), and   *)
(* the sums of its breakdowns are the sizes of their classes.              *)
(***************************************************************************)
EXTENDS ApiClients, Dashboard_proofs

-----------------------------------------------------------------------------
(* The captured deliveries.                                                *)

\* The store: no two deliveries are captured at once, and there is room for all.
StoreInv ==
    /\ clock \in Nat /\ clock <= MaxPuts
    /\ stamp \in [Deliveries -> Nat]
    /\ \A d \in Deliveries : stamp[d] <= clock
    /\ \A d, e \in Deliveries : stamp[d] = stamp[e] /\ stamp[d] > 0 => d = e
    /\ Cardinality(Captured) <= Capacity

\* The reader.
ReaderInv ==
    /\ walk \in {"idle", "open", "done"}
    /\ query \in Queries
    /\ cursor \in Deliveries \cup {None}
    /\ listed \subseteq Deliveries /\ again \subseteq listed
    /\ start \in [Deliveries -> Nat]
    /\ \A d \in Deliveries : start[d] <= clock
    /\ walk = "open" /\ cursor = None => listed = {}

\* What is owed and not shown yet lies behind the cursor.
Ahead == walk = "open" /\ cursor # None => \A d \in Owed \ listed : stamp[d] < stamp[cursor]

\* What was shown and is kept does not.
Behind == walk = "open" /\ cursor # None /\ ~jumped =>
              \A d \in listed : stamp[d] = 0 \/ stamp[d] >= stamp[cursor]

ListingInv == StoreInv /\ ReaderInv /\ jumped \in BOOLEAN /\ Ahead /\ Behind /\ WalkIsFaithful

-----------------------------------------------------------------------------
\* What is kept is finite.
LEMMA StoredFinite == IsFiniteSet(Captured)
  BY ListingAssumption, FS_Subset DEF Captured

\* The listing starts well.
LEMMA ListingStarts == DeliveryInit => ListingInv
<1> SUFFICES ASSUME DeliveryInit PROVE ListingInv
  OBVIOUS
<1>1. \A d \in Deliveries : stamp[d] = 0
  BY DEF DeliveryInit
<1>2. Captured = {} /\ Cardinality(Captured) = 0
  <2>1. Captured = {}
    BY <1>1 DEF Captured
  <2> QED BY <2>1, FS_EmptySet
<1>3. StoreInv
  BY <1>1, <1>2, ListingAssumption DEF DeliveryInit, StoreInv
<1>4. ReaderInv
  BY <1>1, ListingAssumption DEF DeliveryInit, ReaderInv
<1>5. Ahead /\ Behind /\ WalkIsFaithful
  BY DEF DeliveryInit, Ahead, Behind, WalkIsFaithful, WalkIsComplete, WalkIsOnce
<1> QED BY <1>3, <1>4, <1>5 DEF ListingInv, DeliveryInit

-----------------------------------------------------------------------------
(* A capture.                                                              *)

\* It gives the delivery the newest stamp and drops at most the oldest of the others.
LEMMA PutFacts ==
    ASSUME StoreInv, NEW d \in Deliveries, Put(d)
    PROVE  \E gone \in SUBSET (Captured \ {d}) :
              /\ gone # {} => Cardinality(Captured \ {d}) >= Capacity
              /\ Cardinality(Captured \ {d}) >= Capacity => \E e \in Captured \ {d} : gone = {e}
              /\ \A e \in gone, f \in Captured \ {d} : stamp[e] <= stamp[f]
              /\ \A e \in Deliveries : stamp'[e] = IF e = d THEN clock + 1 ELSE IF e \in gone THEN 0 ELSE stamp[e]
              /\ stamp' \in [Deliveries -> Nat]
              /\ Captured' = ((Captured \ {d}) \ gone) \cup {d}
<1>1. PICK gone \in Evicted(d, Captured \ {d}) :
         stamp' = [e \in Deliveries |-> IF e = d THEN clock + 1 ELSE IF e \in gone THEN 0 ELSE stamp[e]]
  BY DEF Put
<1>2. Cardinality(Captured \ {d}) \in Nat
  <2>1. IsFiniteSet(Captured \ {d})
    BY StoredFinite, FS_Subset
  <2> QED BY <2>1, FS_CardinalityType
<1>3. \/ Cardinality(Captured \ {d}) < Capacity /\ gone = {}
      \/ /\ Cardinality(Captured \ {d}) >= Capacity
         /\ \E e \in Captured \ {d} : gone = {e} /\ \A f \in Captured \ {d} : stamp[e] <= stamp[f]
  BY <1>1, <1>2, ListingAssumption DEF Evicted
<1>4. gone \subseteq Captured \ {d}
  BY <1>3
<1>5. stamp' \in [Deliveries -> Nat]
  BY <1>1 DEF StoreInv
<1>6. \A e \in Deliveries : stamp'[e] = IF e = d THEN clock + 1 ELSE IF e \in gone THEN 0 ELSE stamp[e]
  BY <1>1
<1>7. Captured' = ((Captured \ {d}) \ gone) \cup {d}
  <2>1. \A e \in Deliveries : stamp'[e] > 0 <=> e = d \/ (e \in Captured /\ e \notin gone)
    BY <1>6 DEF Captured, StoreInv
  <2> QED BY <1>4, <2>1 DEF Captured
<1>8. gone # {} => Cardinality(Captured \ {d}) >= Capacity
  BY <1>3
<1>9. Cardinality(Captured \ {d}) >= Capacity => \E e \in Captured \ {d} : gone = {e}
  BY <1>2, <1>3, ListingAssumption
<1>10. \A e \in gone, f \in Captured \ {d} : stamp[e] <= stamp[f]
  BY <1>3
<1> QED
  <2> WITNESS gone \in SUBSET (Captured \ {d})
  <2> QED BY <1>5, <1>6, <1>7, <1>8, <1>9, <1>10

\* Storing a delivery keeps the store within its capacity, and its stamps apart.
LEMMA PutKeepsStore ==
    ASSUME StoreInv, NEW d \in Deliveries, Put(d)
    PROVE  StoreInv'
<1>1. PICK gone \in SUBSET (Captured \ {d}) :
         /\ gone # {} => Cardinality(Captured \ {d}) >= Capacity
         /\ Cardinality(Captured \ {d}) >= Capacity => \E e \in Captured \ {d} : gone = {e}
         /\ \A e \in Deliveries : stamp'[e] = IF e = d THEN clock + 1 ELSE IF e \in gone THEN 0 ELSE stamp[e]
         /\ stamp' \in [Deliveries -> Nat]
         /\ Captured' = ((Captured \ {d}) \ gone) \cup {d}
  BY PutFacts
<1>2. clock \in Nat /\ clock' = clock + 1 /\ clock' <= MaxPuts
  BY ListingAssumption DEF Put, StoreInv
<1>3. \A e \in Deliveries : stamp'[e] <= clock'
  BY <1>1, <1>2 DEF StoreInv
<1>4. \A e, f \in Deliveries : stamp'[e] = stamp'[f] /\ stamp'[e] > 0 => e = f
  BY <1>1, <1>2 DEF StoreInv
<1>5. Cardinality(Captured') <= Capacity
  <2> DEFINE others == Captured \ {d}
             stay == others \ gone
  <2>1. /\ IsFiniteSet(others) /\ Cardinality(others) <= Cardinality(Captured)
        /\ Cardinality(others) \in Nat /\ Cardinality(Captured) \in Nat
    BY StoredFinite, FS_Subset, FS_CardinalityType
  <2>2. IsFiniteSet(stay) /\ Cardinality(stay) \in Nat /\ Cardinality(stay) <= Cardinality(others)
    BY <2>1, FS_Subset, FS_CardinalityType
  <2>3. d \notin stay
    OBVIOUS
  <2>4. Cardinality(stay \cup {d}) = Cardinality(stay) + 1
    <3> HIDE DEF stay
    <3> QED BY <2>2, <2>3, FS_AddElement
  <2>5. CASE Cardinality(others) < Capacity
    BY <1>1, <2>1, <2>2, <2>4, <2>5, ListingAssumption
  <2>6. CASE Cardinality(others) >= Capacity
    <3>1. PICK e \in others : gone = {e}
      BY <1>1, <2>6
    <3>2. Cardinality(others \ {e}) = Cardinality(others) - 1
      <4> HIDE DEF others
      <4> QED BY <2>1, <3>1, FS_RemoveElement
    <3> QED BY <1>1, <2>1, <2>4, <3>1, <3>2, ListingAssumption DEF StoreInv
  <2> QED BY <2>1, <2>5, <2>6, ListingAssumption
<1> QED BY <1>1, <1>2, <1>3, <1>4, <1>5 DEF StoreInv

\* A capture lets nothing new be owed, and what is still owed has stay its stamp.
LEMMA OwedStays ==
    ASSUME StoreInv, ReaderInv, NEW d \in Deliveries, Put(d), NEW e \in Owed'
    PROVE  e \in Owed /\ e # d /\ stamp'[e] = stamp[e]
<1>1. PICK gone \in SUBSET (Captured \ {d}) :
         \A f \in Deliveries : stamp'[f] = IF f = d THEN clock + 1 ELSE IF f \in gone THEN 0 ELSE stamp[f]
  BY PutFacts
<1>2. e \in Deliveries /\ start' = start /\ query' = query /\ start[e] > 0 /\ stamp'[e] = start[e] /\ IsAskedFor(e, query)'
  BY DEF Owed, Put, reader
<1>3. e # d
  BY <1>1, <1>2 DEF StoreInv, ReaderInv
<1>4. stamp'[e] = stamp[e]
  BY <1>1, <1>2, <1>3 DEF StoreInv, ReaderInv
<1>5. IsAskedFor(e, query)
  BY <1>2, <1>4 DEF IsAskedFor
<1> QED BY <1>2, <1>3, <1>4, <1>5 DEF Owed

\* Storing a delivery, and what it evicts, disturbs no walk in progress.
LEMMA PutKeeps ==
    ASSUME ListingInv, NEW d \in Deliveries, Put(d)
    PROVE  ListingInv'
<1> USE DEF ListingInv
<1>1. PICK gone \in SUBSET (Captured \ {d}) :
         /\ \A e \in gone, f \in Captured \ {d} : stamp[e] <= stamp[f]
         /\ \A e \in Deliveries : stamp'[e] = IF e = d THEN clock + 1 ELSE IF e \in gone THEN 0 ELSE stamp[e]
  BY PutFacts
<1>2. /\ clock' = clock + 1 /\ UNCHANGED <<walk, query, cursor, listed, again, start>>
      /\ jumped' = (jumped \/ (walk = "open" /\ cursor = d))
  BY DEF Put, reader
<1>3. ReaderInv'
  BY <1>2 DEF ReaderInv, StoreInv
<1>4. Ahead'
  <2> SUFFICES ASSUME walk = "open", cursor # None, NEW e \in Owed', e \notin listed
               PROVE  stamp'[e] < stamp'[cursor]
    BY <1>2 DEF Ahead
  <2>1. e \in Owed /\ e # d /\ stamp'[e] = stamp[e]
    BY OwedStays
  <2>2. stamp[e] < stamp[cursor] /\ cursor \in Deliveries /\ e \in Deliveries /\ e \in Captured
    BY <2>1 DEF Ahead, ReaderInv, Owed, Captured
  <2>3. cursor \notin gone
    BY <1>1, <2>1, <2>2 DEF StoreInv
  <2> QED BY <1>1, <2>1, <2>2, <2>3 DEF StoreInv
<1>5. Behind'
  <2> SUFFICES ASSUME walk = "open", cursor # None, ~jumped', NEW e \in listed
               PROVE  stamp'[e] = 0 \/ stamp'[e] >= stamp'[cursor]
    BY <1>2 DEF Behind
  <2>1. ~jumped /\ cursor # d /\ cursor \in Deliveries /\ e \in Deliveries
    BY <1>2 DEF ReaderInv
  <2>2. stamp[e] = 0 \/ stamp[e] >= stamp[cursor]
    BY <2>1 DEF Behind
  <2>3. stamp[e] \in Nat /\ stamp[cursor] \in Nat /\ stamp[cursor] <= clock /\ clock \in Nat
    BY <2>1 DEF StoreInv
  <2> QED BY <1>1, <2>1, <2>2, <2>3
<1>6. WalkIsFaithful'
  <2>1. WalkIsComplete'
    BY <1>2, OwedStays DEF WalkIsFaithful, WalkIsComplete
  <2>2. WalkIsOnce'
    BY <1>2 DEF WalkIsFaithful, WalkIsOnce
  <2> QED BY <2>1, <2>2 DEF WalkIsFaithful
<1>7. jumped' \in BOOLEAN
  BY <1>2
<1> QED BY <1>3, <1>4, <1>5, <1>6, <1>7, PutKeepsStore

-----------------------------------------------------------------------------
\* A restart leaves nothing to show.
LEMMA ForgetKeeps ==
    ASSUME ListingInv, Forget
    PROVE  ListingInv'
<1> USE DEF ListingInv
<1>1. /\ \A d \in Deliveries : stamp'[d] = 0
      /\ stamp' \in [Deliveries -> Nat]
      /\ UNCHANGED <<clock, walk, query, cursor, listed, again, start, jumped>>
  BY DEF Forget, reader
<1>2. Captured' = {} /\ Cardinality(Captured') = 0 /\ Owed' = {}
  <2>1. Captured' = {}
    BY <1>1 DEF Captured
  <2>2. Owed' = {}
    BY <1>1 DEF Owed
  <2> QED BY <2>1, <2>2, FS_EmptySet
<1>3. StoreInv'
  BY <1>1, <1>2, ListingAssumption DEF StoreInv
<1>4. ReaderInv'
  BY <1>1 DEF ReaderInv
<1>5. Ahead' /\ WalkIsFaithful'
  BY <1>1, <1>2 DEF Ahead, WalkIsFaithful, WalkIsComplete, WalkIsOnce
<1>6. Behind'
  BY <1>1 DEF Behind, ReaderInv
<1> QED BY <1>1, <1>3, <1>4, <1>5, <1>6

\* A walk begins with nothing shown.
LEMMA OpenKeeps ==
    ASSUME ListingInv, NEW q \in Queries, Open(q)
    PROVE  ListingInv'
<1> USE DEF ListingInv
<1>1. /\ walk' = "open" /\ query' = q /\ cursor' = None /\ listed' = {} /\ again' = {}
      /\ start' = stamp /\ jumped' = FALSE /\ stamp' = stamp /\ clock' = clock
  BY DEF Open, store
<1>2. StoreInv'
  BY <1>1 DEF StoreInv, Captured
<1>3. ReaderInv'
  BY <1>1 DEF ReaderInv, StoreInv
<1>4. Ahead' /\ Behind' /\ WalkIsFaithful'
  BY <1>1 DEF Ahead, Behind, WalkIsFaithful, WalkIsComplete, WalkIsOnce
<1> QED BY <1>1, <1>2, <1>3, <1>4

\* A page shows what is newest behind the cursor, and the cursor goes to its end.
LEMMA PageKeeps ==
    ASSUME ListingInv, Page
    PROVE  ListingInv'
<1> USE DEF ListingInv
<1>1. PICK P \in SUBSET Listable :
         /\ IsPage(P, Listable) /\ cursor' \in NextCursor(P)
         /\ listed' = listed \cup P /\ again' = again \cup (listed \cap P)
  BY DEF Page
<1>2. /\ walk = "open" /\ walk' = IF cursor' = None THEN "done" ELSE "open"
      /\ UNCHANGED <<stamp, clock, query, start, jumped>>
  BY DEF Page, store
<1>3. P \subseteq Deliveries /\ P \subseteq Captured /\ \A p \in P : After(p)
  BY <1>1 DEF Listable, Captured
<1>4. \/ cursor' = None /\ Cardinality(P) # query.limit
      \/ cursor' \in P /\ \A e \in P : stamp[cursor'] <= stamp[e]
  BY <1>1 DEF NextCursor
<1>5. Owed' = Owed
  BY <1>2 DEF Owed, IsAskedFor
<1>6. \A d \in Owed \ listed : d \in Listable
  <2> SUFFICES ASSUME NEW d \in Owed, d \notin listed PROVE d \in Listable
    OBVIOUS
  <2>1. d \in Captured /\ IsAskedFor(d, query)
    BY DEF Owed, Captured
  <2>2. ASSUME cursor # None PROVE cursor \in Captured /\ stamp[d] < stamp[cursor]
    <3>1. stamp[d] < stamp[cursor] /\ cursor \in Deliveries
      BY <1>2, <2>2 DEF Ahead, ReaderInv
    <3> QED BY <2>1, <3>1 DEF Captured, StoreInv
  <2> QED BY <2>1, <2>2 DEF Listable, After
<1>7. StoreInv'
  BY <1>2 DEF StoreInv, Captured
<1>8. ReaderInv'
  BY <1>1, <1>2, <1>3, <1>4 DEF ReaderInv
<1>9. Ahead'
  <2> SUFFICES ASSUME cursor' # None, NEW d \in Owed, d \notin listed, d \notin P
               PROVE  stamp[d] < stamp[cursor']
    BY <1>1, <1>2, <1>5 DEF Ahead
  <2> QED BY <1>1, <1>4, <1>6 DEF IsPage
<1>10. \A d \in P : ~jumped => d \notin listed
  BY <1>2, <1>3 DEF After, Behind, Captured, ReaderInv, StoreInv
<1>11. Behind'
  <2> SUFFICES ASSUME cursor' # None, ~jumped, NEW d \in listed \cup P
               PROVE  stamp[d] = 0 \/ stamp[d] >= stamp[cursor']
    BY <1>1, <1>2 DEF Behind
  <2>1. cursor' \in P /\ \A e \in P : stamp[cursor'] <= stamp[e]
    BY <1>4
  <2>2. stamp[d] \in Nat /\ stamp[cursor'] \in Nat
    BY <1>3, <2>1 DEF StoreInv, ReaderInv
  <2>3. CASE d \in P
    BY <2>1, <2>2, <2>3
  <2>4. CASE d \in listed
    <3>1. cursor # None /\ cursor \in Deliveries
      BY <1>2, <2>4 DEF ReaderInv
    <3>2. stamp[d] = 0 \/ stamp[d] >= stamp[cursor]
      BY <1>2, <2>4, <3>1 DEF Behind
    <3>3. stamp[cursor'] < stamp[cursor]
      BY <1>3, <2>1, <3>1 DEF After
    <3> QED BY <2>2, <3>1, <3>2, <3>3 DEF StoreInv
  <2> QED BY <2>3, <2>4
<1>12. WalkIsComplete'
  <2> SUFFICES ASSUME cursor' = None, NEW d \in Owed PROVE d \in listed \cup P
    BY <1>1, <1>2, <1>5 DEF WalkIsComplete
  <2>1. P = Listable
    BY <1>1, <1>3, <1>4, ListingAssumption DEF IsPage
  <2> QED BY <1>6, <2>1
<1>13. WalkIsOnce'
  BY <1>1, <1>2, <1>10 DEF WalkIsFaithful, WalkIsOnce
<1> QED BY <1>2, <1>7, <1>8, <1>9, <1>11, <1>12, <1>13 DEF WalkIsFaithful

\* What leaves the listing alone keeps its invariant.
LEMMA ListingStutters ==
    ASSUME ListingInv, UNCHANGED deliveryVars
    PROVE  ListingInv'
BY DEF deliveryVars, store, reader, ListingInv, StoreInv, ReaderInv, Ahead, Behind, WalkIsFaithful,
       WalkIsComplete, WalkIsOnce, Owed, IsAskedFor, Captured

-----------------------------------------------------------------------------
\* The cursor stands where it should, at all times.
THEOREM CursorStandsRight == DeliverySpec => []ListingInv
<1>1. ListingInv /\ DeliveryNext => ListingInv'
  BY PutKeeps, ForgetKeeps, OpenKeeps, PageKeeps DEF DeliveryNext
<1>2. ListingInv /\ [DeliveryNext]_deliveryVars => ListingInv'
  BY <1>1, ListingStutters
<1> QED BY <1>2, ListingStarts, PTL DEF DeliverySpec

\* A walk that has come to its end has shown every delivery that was there all the time,
\* and none twice unless its cursor was captured anew.
THEOREM WalksAreFaithful == DeliverySpec => []WalkIsFaithful
<1>1. ListingInv => WalkIsFaithful
  BY DEF ListingInv
<1> QED BY <1>1, CursorStandsRight, PTL

\* Type correctness; the store never keeps more deliveries than its capacity.
THEOREM DeliveriesTyped == DeliverySpec => []DeliveryTypes
<1>1. ListingInv => DeliveryTypes
  BY ListingAssumption DEF ListingInv, StoreInv, ReaderInv, DeliveryTypes
<1> QED BY <1>1, CursorStandsRight, PTL

-----------------------------------------------------------------------------
(* The statistics over what is captured.                                   *)

\* What is counted is kept.
LEMMA CountedFacts ==
    ASSUME ListingInv
    PROVE  /\ Counted(query) \subseteq Captured /\ Counted(query) \subseteq Deliveries
           /\ IsFiniteSet(Counted(query))
           /\ Capacity \in Nat
           /\ Cardinality(Counted(query)) \in Nat /\ Cardinality(Counted(query)) <= Capacity
<1>1. Counted(query) \subseteq Captured /\ Captured \subseteq Deliveries
  BY DEF Counted, Captured
<1>2. Cardinality(Captured) <= Capacity
  BY DEF ListingInv, StoreInv
<1>3. /\ IsFiniteSet(Counted(query)) /\ Cardinality(Counted(query)) <= Cardinality(Captured)
      /\ Cardinality(Captured) \in Nat /\ Cardinality(Counted(query)) \in Nat
  BY <1>1, StoredFinite, FS_Subset, FS_CardinalityType
<1> QED BY <1>1, <1>2, <1>3, ListingAssumption

\* A selection of the counted deliveries is finite and no larger than they are.
LEMMA SubsetCounts ==
    ASSUME ListingInv, NEW S \in SUBSET Counted(query)
    PROVE  /\ IsFiniteSet(S) /\ Cardinality(S) \in Nat
           /\ Cardinality(S) <= Capacity /\ Cardinality(S) <= Cardinality(Counted(query))
<1>1. IsFiniteSet(S) /\ Cardinality(S) <= Cardinality(Counted(query))
  BY CountedFacts, FS_Subset
<1> QED BY <1>1, CountedFacts, FS_CardinalityType

\* Every delivery has its event.
LEMMA EventsAddUp ==
    ASSUME ListingInv
    PROVE  Cardinality(Units(ByEvent(query), Capacity)) = Cardinality(Counted(query))
<1> DEFINE S == Counted(query)
           K == {EventOf[d] : d \in S}
           class == [d \in S |-> EventOf[d]]
           f == ByEvent(query)
<1>1. IsFiniteSet(S) /\ Cardinality(S) <= Capacity /\ Capacity \in Nat
  BY CountedFacts
<1>2. class \in [S -> K]
  OBVIOUS
<1>3. DOMAIN f = K
  BY DEF ByEvent
<1>4. \A k \in K : f[k] = Cardinality({s \in S : class[s] = k})
  <2> SUFFICES ASSUME NEW k \in K PROVE f[k] = Cardinality({s \in S : class[s] = k})
    OBVIOUS
  <2>1. {s \in S : class[s] = k} = {d \in Counted(query) : EventOf[d] = k}
    OBVIOUS
  <2>2. f[k] = Cardinality({d \in Counted(query) : EventOf[d] = k})
    BY DEF ByEvent
  <2> QED BY <2>1, <2>2
<1> HIDE DEF S, K, class, f
<1>5. Cardinality(Units(f, Capacity)) = Cardinality(S)
  BY <1>1, <1>2, <1>3, <1>4, ClassesAddUp
<1> QED BY <1>5 DEF S, f

\* The repositories with most deliveries are no more than asked for.
LEMMA TopIsShort ==
    ASSUME ListingInv, NEW n \in Nat
    PROVE  Cardinality(TopRepos(query, n)) <= n
<1> DEFINE repos == {RepoOf[d] : d \in Counted(query)}
           size == [r \in repos |-> RepoCount(query, r)]
           R == {p \in repos \X repos : \/ size[p[1]] > size[p[2]]
                                        \/ size[p[1]] = size[p[2]] /\ p[1] < p[2]}
           top == {r \in repos : Cardinality({s \in repos : <<s, r>> \in R}) < n}
<1>1. repos \subseteq Nat
  BY CountedFacts, ListingAssumption
<1>2. IsFiniteSet(repos)
  <2> DEFINE S == Counted(query)
             g == [d \in S |-> RepoOf[d]]
  <2>1. g \in [S -> repos] /\ \A r \in repos : \E d \in S : g[d] = r
    OBVIOUS
  <2>2. IsFiniteSet(S)
    BY CountedFacts
  <2> HIDE DEF S, g, repos
  <2>3. g \in Surjection(S, repos)
    BY <2>1, Fun_IsSurj
  <2> QED BY <2>2, <2>3, FS_Surjection
<1>3. \A r \in repos : size[r] \in Nat
  BY SubsetCounts DEF RepoCount
<1>4. \A s, t \in repos : <<s, t>> \in R <=> size[s] > size[t] \/ (size[s] = size[t] /\ s < t)
  OBVIOUS
<1> HIDE DEF size, R, repos
<1>5. \A s, t, u \in repos : <<s, t>> \in R /\ <<t, u>> \in R => <<s, u>> \in R
  <2> SUFFICES ASSUME NEW s \in repos, NEW t \in repos, NEW u \in repos, <<s, t>> \in R, <<t, u>> \in R
               PROVE  <<s, u>> \in R
    OBVIOUS
  <2>1. s \in Nat /\ t \in Nat /\ u \in Nat /\ size[s] \in Nat /\ size[t] \in Nat /\ size[u] \in Nat
    BY <1>1, <1>3
  <2>2. size[s] > size[t] \/ (size[s] = size[t] /\ s < t)
    BY <1>4
  <2>3. size[t] > size[u] \/ (size[t] = size[u] /\ t < u)
    BY <1>4
  <2>4. size[s] > size[u] \/ (size[s] = size[u] /\ s < u)
    BY <2>1, <2>2, <2>3
  <2> QED BY <1>4, <2>4
<1>6. \A s \in repos : <<s, s>> \notin R
  BY <1>1, <1>3, <1>4
<1>7. \A s, t \in repos : s # t => <<s, t>> \in R \/ <<t, s>> \in R
  <2> SUFFICES ASSUME NEW s \in repos, NEW t \in repos, s # t
               PROVE  <<s, t>> \in R \/ <<t, s>> \in R
    OBVIOUS
  <2>1. s \in Nat /\ t \in Nat /\ size[s] \in Nat /\ size[t] \in Nat
    BY <1>1, <1>3
  <2>2. \/ size[s] > size[t] \/ (size[s] = size[t] /\ s < t)
        \/ size[t] > size[s] \/ (size[t] = size[s] /\ t < s)
    BY <2>1
  <2> QED BY <1>4, <2>2
<1>8. IsFiniteSet(top) /\ Cardinality(top) <= n
  <2>1. top \in SUBSET repos /\ \A r \in top : Cardinality(Preceding(repos, R, r)) < n
    BY DEF Preceding
  <2> HIDE DEF top
  <2> QED BY <2>1, <1>2, <1>5, <1>6, <1>7, FewGoBefore
<1>9. TopRepos(query, n) = top
  <2>1. \A r \in repos : {s \in repos : <<s, r>> \in R}
                           = {s \in repos : \/ RepoCount(query, s) > RepoCount(query, r)
                                            \/ RepoCount(query, s) = RepoCount(query, r) /\ s < r}
    BY DEF size, R
  <2> QED BY <2>1 DEF TopRepos, repos
<1> QED BY <1>8, <1>9

\* A delivery is of one of them or of another.
LEMMA ReposAddUp ==
    ASSUME ListingInv, NEW n \in Nat
    PROVE  Cardinality(Units([r \in TopRepos(query, n) |-> RepoCount(query, r)], Capacity))
              + OtherRepos(query, n) = Cardinality(Counted(query))
<1> DEFINE all == Counted(query)
           top == TopRepos(query, n)
           S == {d \in all : RepoOf[d] \in top}
           rest == {d \in all : RepoOf[d] \notin top}
           class == [d \in S |-> RepoOf[d]]
           f == [r \in top |-> RepoCount(query, r)]
<1>1. S \in SUBSET all /\ rest \in SUBSET all
  OBVIOUS
<1>2. IsFiniteSet(S) /\ IsFiniteSet(rest) /\ Cardinality(S) <= Capacity /\ Capacity \in Nat
      /\ Cardinality(S) \in Nat /\ Cardinality(rest) \in Nat
  <2> HIDE DEF S, rest
  <2> QED BY <1>1, SubsetCounts, CountedFacts
<1>3. class \in [S -> top] /\ DOMAIN f = top
  OBVIOUS
<1>4. \A k \in top : f[k] = Cardinality({s \in S : class[s] = k})
  <2> SUFFICES ASSUME NEW k \in top PROVE f[k] = Cardinality({s \in S : class[s] = k})
    OBVIOUS
  <2>1. {s \in S : class[s] = k} = {d \in Counted(query) : RepoOf[d] = k}
    OBVIOUS
  <2>2. f[k] = Cardinality({d \in Counted(query) : RepoOf[d] = k})
    BY DEF RepoCount
  <2> QED BY <2>1, <2>2
<1>5. S \cup rest = all /\ S \cap rest = {}
  OBVIOUS
<1>6. OtherRepos(query, n) = Cardinality(rest)
  BY DEF OtherRepos
<1>7. Cardinality(Units(f, Capacity)) = Cardinality(S)
  <2>1. DOMAIN f = top /\ class \in [S -> top]
    BY <1>3
  <2>2. \A k \in top : f[k] = Cardinality({s \in S : class[s] = k})
    BY <1>4
  <2> HIDE DEF S, class, f, top, rest, all
  <2> QED BY <1>2, <2>1, <2>2, ClassesAddUp
<1>8. Cardinality(all) = Cardinality(S) + Cardinality(rest)
  <2> HIDE DEF S, rest, all
  <2>1. Cardinality(all) = Cardinality(S) + Cardinality(rest) - Cardinality({})
    BY <1>2, <1>5, FS_Union
  <2> QED BY <1>2, <2>1, FS_EmptySet
<1> QED BY <1>6, <1>7, <1>8

\* The deliveries in the histogram at an anchor.
Seen(now) == {d \in Counted(query) : stamp[d] \in now - BucketSize * Buckets + 1 .. now}

\* A delivery is in a bucket when it is seen and that many buckets old.
LEMMA BucketFacts ==
    ASSUME ListingInv, NEW now \in Nat
    PROVE  /\ \A d \in Seen(now) : (now - stamp[d]) \div BucketSize \in 0 .. Buckets - 1
           /\ \A i \in 0 .. Buckets - 1 :
                 Bucket(query, now, i) = Cardinality({d \in Seen(now) : (now - stamp[d]) \div BucketSize = i})
<1>1. \A d \in Counted(query) : stamp[d] \in Nat
  BY CountedFacts DEF ListingInv, StoreInv
<1>2. BucketSize \in Nat \ {0} /\ Buckets \in Nat \ {0} /\ BucketSize * Buckets \in Nat
  BY ListingAssumption
<1>3. ASSUME NEW d \in Counted(query), stamp[d] <= now
      PROVE  /\ (now - stamp[d]) \div BucketSize \in Nat
             /\ (now - stamp[d]) \div BucketSize < Buckets <=> d \in Seen(now)
  <2> DEFINE x == now - stamp[d]
             old == x \div BucketSize
             span == BucketSize * Buckets
  <2>1. x \in Nat
    BY <1>1, <1>3
  <2>2. old \in Nat /\ (old < Buckets <=> x < span)
    <3> HIDE DEF x
    <3> QED BY <1>2, <2>1, Multiples
  <2>3. x < span <=> stamp[d] \in now - span + 1 .. now
    <3>1. span \in Nat
      BY <1>2
    <3> HIDE DEF span
    <3> QED BY <1>1, <1>3, <3>1
  <2>4. d \in Seen(now) <=> stamp[d] \in now - span + 1 .. now
    BY DEF Seen
  <2> HIDE DEF span
  <2> QED BY <2>2, <2>3, <2>4
<1>4. \A d \in Seen(now) : d \in Counted(query) /\ stamp[d] <= now
  BY <1>1, <1>2 DEF Seen
<1>5. \A d \in Seen(now) : (now - stamp[d]) \div BucketSize \in 0 .. Buckets - 1
  <2> SUFFICES ASSUME NEW d \in Seen(now) PROVE (now - stamp[d]) \div BucketSize \in 0 .. Buckets - 1
    OBVIOUS
  <2> DEFINE old == (now - stamp[d]) \div BucketSize
  <2>1. old \in Nat /\ old < Buckets
    BY <1>3, <1>4
  <2> HIDE DEF old
  <2>2. old \in 0 .. Buckets - 1
    BY <1>2, <2>1
  <2> QED BY <2>2 DEF old
<1>6. ASSUME NEW i \in 0 .. Buckets - 1
      PROVE  Bucket(query, now, i) = Cardinality({d \in Seen(now) : (now - stamp[d]) \div BucketSize = i})
  <2>1. {d \in Counted(query) : stamp[d] <= now /\ (now - stamp[d]) \div BucketSize = i}
           = {d \in Seen(now) : (now - stamp[d]) \div BucketSize = i}
    <3>1. i < Buckets
      BY <1>2
    <3> QED BY <1>3, <1>4, <3>1
  <2> QED BY <2>1 DEF Bucket
<1> QED BY <1>5, <1>6

\* The buckets of the time line hold every delivery of the window once.
LEMMA BucketsAddUp ==
    ASSUME ListingInv, NEW now \in Nat
    PROVE  Cardinality(Units([i \in 0 .. Buckets - 1 |-> Bucket(query, now, i)], Capacity))
              = Cardinality(Seen(now))
<1> DEFINE S == Seen(now)
           K == 0 .. Buckets - 1
           class == [d \in S |-> (now - stamp[d]) \div BucketSize]
           f == [i \in K |-> Bucket(query, now, i)]
<1>1. IsFiniteSet(S) /\ Cardinality(S) <= Capacity /\ Capacity \in Nat
  <2>1. S \in SUBSET Counted(query)
    BY DEF Seen
  <2> QED BY <2>1, SubsetCounts, CountedFacts
<1>2. class \in [S -> K]
  BY BucketFacts
<1>3. DOMAIN f = K
  OBVIOUS
<1>4. \A k \in K : f[k] = Cardinality({s \in S : class[s] = k})
  <2> SUFFICES ASSUME NEW k \in K PROVE f[k] = Cardinality({s \in S : class[s] = k})
    OBVIOUS
  <2>1. {s \in S : class[s] = k} = {d \in Seen(now) : (now - stamp[d]) \div BucketSize = k}
    OBVIOUS
  <2>2. f[k] = Bucket(query, now, k)
    OBVIOUS
  <2> QED BY <2>1, <2>2, BucketFacts
<1> HIDE DEF S, K, class, f
<1>5. Cardinality(Units(f, Capacity)) = Cardinality(S)
  BY <1>1, <1>2, <1>3, <1>4, ClassesAddUp
<1> QED BY <1>5 DEF S, K, f

\* There is a peak unless all buckets are empty.
LEMMA PeakTells ==
    ASSUME ListingInv, NEW now \in Nat
    PROVE  Peak(query, now) = -1 <=> Seen(now) = {}
<1> DEFINE K == 0 .. Buckets - 1
           size(i) == Bucket(query, now, i)
           full == {i \in K : size(i) > 0 /\ \A j \in K : size(j) <= size(i)}
<1>1. \A i \in K : size(i) \in Nat /\ size(i) <= Capacity
  <2> SUFFICES ASSUME NEW i \in K PROVE size(i) \in Nat /\ size(i) <= Capacity
    OBVIOUS
  <2> DEFINE T == {d \in Counted(query) : stamp[d] <= now /\ (now - stamp[d]) \div BucketSize = i}
  <2>1. T \in SUBSET Counted(query) /\ size(i) = Cardinality(T)
    BY DEF Bucket
  <2> QED BY <2>1, SubsetCounts
<1>2. Peak(query, now) = IF full = {} THEN -1 ELSE CHOOSE i \in full : \A j \in full : i <= j
  BY DEF Peak
<1>3. full # {} => Peak(query, now) \in Nat
  <2> SUFFICES ASSUME full # {} PROVE Peak(query, now) \in Nat
    OBVIOUS
  <2>1. full \in SUBSET Nat
    OBVIOUS
  <2> HIDE DEF full
  <2>2. \E i \in full : \A j \in full : i <= j
    BY <2>1, Least
  <2>3. Peak(query, now) \in full
    BY <1>2, <2>2
  <2> QED BY <2>1, <2>3
<1>4. ASSUME Seen(now) = {} PROVE full = {}
  <2>1. \A i \in K : size(i) = Cardinality({d \in Seen(now) : (now - stamp[d]) \div BucketSize = i})
    BY BucketFacts
  <2>2. \A i \in K : size(i) = 0
    BY <1>4, <2>1, FS_EmptySet
  <2> QED BY <2>2
<1>5. ASSUME NEW d \in Seen(now) PROVE full # {}
  <2> DEFINE k == (now - stamp[d]) \div BucketSize
             sizes == {size(i) : i \in K}
             T == {e \in Seen(now) : (now - stamp[e]) \div BucketSize = k}
  <2>1. k \in K /\ size(k) = Cardinality(T)
    BY BucketFacts
  <2>2. size(k) > 0
    <3>1. d \in T
      OBVIOUS
    <3>2. IsFiniteSet(T)
      <4>1. T \in SUBSET Counted(query)
        BY DEF Seen
      <4> HIDE DEF T
      <4> QED BY <4>1, SubsetCounts
    <3>3. Cardinality(T) # 0 /\ Cardinality(T) \in Nat
      <4> HIDE DEF T
      <4> QED BY <3>1, <3>2, FS_EmptySet, FS_CardinalityType
    <3> QED BY <2>1, <3>3
  <2> HIDE DEF k, T, size, K
  <2>3. sizes \in SUBSET Nat /\ sizes # {} /\ \A u \in sizes : u <= Capacity
    BY <1>1, <2>1
  <2>4. PICK s \in sizes : \A u \in sizes : u <= s
    <3> HIDE DEF sizes
    <3>1. Capacity \in Nat /\ sizes \in SUBSET (0 .. Capacity)
      BY <2>3, CountedFacts
    <3> QED BY <2>3, <3>1, Greatest
  <2>5. PICK i \in K : s = size(i)
    BY <2>4
  <2>6. size(i) > 0 /\ \A j \in K : size(j) <= size(i)
    BY <1>1, <2>1, <2>2, <2>4, <2>5
  <2> QED BY <2>6
<1> HIDE DEF full
<1>6. full # {} => Peak(query, now) # -1
  BY <1>3
<1>7. full = {} => Peak(query, now) = -1
  BY <1>2
<1>8. full = {} <=> Seen(now) = {}
  BY <1>4, <1>5
<1> QED BY <1>6, <1>7, <1>8

\* The counts agree in every state the listing's invariant allows.
LEMMA StatsFollow == ListingInv => StatsAgree
<1> SUFFICES ASSUME ListingInv PROVE StatsAgree
  OBVIOUS
<1>1. \A n \in 1 .. 2 : n \in Nat
  OBVIOUS
<1>2. \A now \in 0 .. clock : now \in Nat
  BY DEF ListingInv, StoreInv
<1> QED BY <1>1, <1>2, EventsAddUp, ReposAddUp, TopIsShort, BucketsAddUp, PeakTells DEF StatsAgree, Units, Seen

\* The statistics count what the listing lists: no delivery is lost between the
\* breakdowns and the histogram, and the peak is one of its buckets.
THEOREM StatsAlwaysAgree == DeliverySpec => []StatsAgree
BY StatsFollow, CursorStandsRight, PTL

-----------------------------------------------------------------------------
(* The reviews.                                                            *)

\* The reviews that are owed, not shown, and before the cursor: no page to come has them.
Passed == {n \in kept \ shown : Before(n) < offset}

\* As many were passed as left, at most; at the end of a walk that is all it missed.
WalkInv ==
    /\ turn = "open" => Cardinality(Passed) <= left
    /\ MissesBounded

PagingInv == ReviewTypes /\ WalkInv

-----------------------------------------------------------------------------
(* How many rows come before a row.                                        *)

\* There are finitely many rows, and finitely many of them are listed.
LEMMA RowsFinite ==
    ASSUME ReviewTypes
    PROVE  /\ IsFiniteSet(DOMAIN status) /\ Cardinality(DOMAIN status) = Len(status)
           /\ DOMAIN status \subseteq Nat
           /\ IsFiniteSet(Listed) /\ Cardinality(Listed) \in Nat /\ Cardinality(Listed) <= Len(status)
<1>1. DOMAIN status = 1 .. Len(status) /\ Len(status) \in Nat
  BY DEF ReviewTypes
<1>2. IsFiniteSet(1 .. Len(status)) /\ Cardinality(1 .. Len(status)) = Len(status)
  <2> DEFINE N == Len(status)
  <2>1. N \in Int /\ 1 \in Int
    BY <1>1
  <2>2. IsFiniteSet(1 .. N) /\ Cardinality(1 .. N) = IF 1 > N THEN 0 ELSE N - 1 + 1
    BY <2>1, FS_Interval
  <2> QED BY <1>1, <2>2
<1>3. IsFiniteSet(Listed) /\ Cardinality(Listed) <= Cardinality(DOMAIN status)
  BY <1>1, <1>2, FS_Subset DEF Listed
<1> QED BY <1>1, <1>2, <1>3, FS_CardinalityType

\* A set of rows that is in another has no more members.
LEMMA FewerRows ==
    ASSUME NEW S, NEW T, S \subseteq T, IsFiniteSet(T)
    PROVE  /\ IsFiniteSet(S) /\ Cardinality(S) \in Nat /\ Cardinality(T) \in Nat
           /\ Cardinality(S) <= Cardinality(T)
  BY FS_Subset, FS_CardinalityType

\* A newer row has fewer before it, and each has fewer than there are.
LEMMA BeforeOrders ==
    ASSUME ReviewTypes, NEW n \in Listed
    PROVE  /\ Before(n) \in Nat /\ Before(n) < Cardinality(Listed)
           /\ \A m \in Listed : n < m => Before(m) < Before(n)
<1> DEFINE newer(k) == {m \in Listed : m > k}
<1>1. Listed \subseteq Nat /\ IsFiniteSet(Listed)
  BY RowsFinite DEF Listed
<1>2. Before(n) \in Nat /\ Before(n) < Cardinality(Listed)
  <2>1. newer(n) \subseteq Listed \ {n}
    BY <1>1
  <2>2. IsFiniteSet(Listed \ {n}) /\ Cardinality(Listed \ {n}) = Cardinality(Listed) - 1
    BY <1>1, FS_RemoveElement
  <2>3. Cardinality(newer(n)) \in Nat /\ Cardinality(newer(n)) <= Cardinality(Listed \ {n})
    BY <2>1, <2>2, FewerRows
  <2>4. Cardinality(Listed) \in Nat
    BY <1>1, FS_CardinalityType
  <2> QED BY <2>2, <2>3, <2>4 DEF Before
<1>3. ASSUME NEW m \in Listed, n < m PROVE Before(m) < Before(n)
  <2>1. newer(m) \subseteq newer(n) \ {m}
    <3>1. \A k \in Listed : k > m => k > n /\ k # m
      BY <1>1, <1>3
    <3> QED BY <3>1
  <2>2. m \in newer(n) /\ IsFiniteSet(newer(n)) /\ Cardinality(newer(n)) \in Nat
    <3>1. newer(n) \subseteq Listed
      OBVIOUS
    <3> QED BY <1>1, <1>3, <3>1, FewerRows
  <2>3. IsFiniteSet(newer(n) \ {m}) /\ Cardinality(newer(n) \ {m}) = Cardinality(newer(n)) - 1
    BY <2>2, FS_RemoveElement
  <2>4. Cardinality(newer(m)) \in Nat /\ Cardinality(newer(m)) <= Cardinality(newer(n) \ {m})
    BY <2>1, <2>3, FewerRows
  <2> QED BY <2>2, <2>3, <2>4 DEF Before
<1> QED BY <1>2, <1>3

\* No two rows have as many before them.
LEMMA BeforeTells ==
    ASSUME ReviewTypes, NEW n \in Listed, NEW m \in Listed, Before(n) = Before(m)
    PROVE  n = m
<1>1. n \in Nat /\ m \in Nat
  BY RowsFinite DEF Listed
<1>2. \A k, l \in Listed : k < l => Before(l) < Before(k)
  BY BeforeOrders
<1>3. Before(n) \in Nat
  BY BeforeOrders
<1> QED BY <1>1, <1>2, <1>3

\* When rows only join the list, no row has fewer before it.
LEMMA JoinersPush ==
    ASSUME ReviewTypes, ReviewTypes', Listed \subseteq Listed', NEW n \in Listed
    PROVE  Before(n) \in Nat /\ Before(n)' \in Nat /\ Before(n) <= Before(n)'
<1>1. IsFiniteSet(Listed') /\ Listed' \subseteq Nat
  <2>1. DOMAIN status' = 1 .. Len(status') /\ Len(status') \in Nat
    BY DEF ReviewTypes
  <2>2. IsFiniteSet(1 .. Len(status'))
    BY <2>1, FS_Interval
  <2> QED BY <2>1, <2>2, FS_Subset DEF Listed
<1>2. {m \in Listed : m > n} \subseteq {m \in Listed' : m > n}
  OBVIOUS
<1>3. {m \in Listed' : m > n} \subseteq Listed' /\ IsFiniteSet({m \in Listed' : m > n})
  BY <1>1, FS_Subset
<1> QED BY <1>2, <1>3, FewerRows DEF Before

\* When row r leaves the list, a row has as many before it or one fewer.
LEMMA LeaversPull ==
    ASSUME ReviewTypes, NEW r \in Listed, Listed' = Listed \ {r}, NEW n \in Listed, n # r
    PROVE  /\ Before(n) \in Nat /\ Before(n)' \in Nat
           /\ Before(n) <= Before(n)' + 1
<1> DEFINE newer == {m \in Listed : m > n}
<1>1. IsFiniteSet(newer) /\ Cardinality(newer) \in Nat
  BY RowsFinite, FewerRows, newer \subseteq Listed
<1>2. Before(n)' = Cardinality(newer \ {r}) /\ Before(n) = Cardinality(newer)
  <2>1. {m \in Listed' : m > n} = newer \ {r}
    OBVIOUS
  <2> QED BY <2>1 DEF Before
<1>3. Cardinality(newer \ {r}) \in Nat /\ Cardinality(newer) <= Cardinality(newer \ {r}) + 1
  <2> HIDE DEF newer
  <2>1. CASE r \in newer
    <3>1. IsFiniteSet(newer \ {r}) /\ Cardinality(newer \ {r}) = Cardinality(newer) - 1
      BY <1>1, <2>1, FS_RemoveElement
    <3>2. Cardinality(newer \ {r}) \in Nat
      BY <3>1, FS_CardinalityType
    <3> QED BY <1>1, <3>1, <3>2
  <2>2. CASE r \notin newer
    <3>1. newer \ {r} = newer
      BY <2>2
    <3> QED BY <1>1, <3>1
  <2> QED BY <2>1, <2>2
<1> QED BY <1>1, <1>2, <1>3

-----------------------------------------------------------------------------
(* The types.                                                              *)

\* The walk through the reviews starts well.
LEMMA WalkStarts == ReviewInit => PagingInv
<1> SUFFICES ASSUME ReviewInit PROVE PagingInv
  OBVIOUS
<1>1. kept = {} /\ kept \ shown = {} /\ Passed = {} /\ left = 0 /\ turn = "idle"
  BY DEF ReviewInit, Passed
<1>2. ReviewTypes
  <2>1. status \in Seq(Statuses) /\ Len(status) = 0 /\ DOMAIN status = {}
    BY DEF ReviewInit
  <2>2. want \in Wanted
    BY ReviewListingAssumption DEF ReviewInit
  <2>3. offset = 0 /\ shown = {}
    BY DEF ReviewInit
  <2> QED BY <1>1, <2>1, <2>2, <2>3, ReviewListingAssumption DEF ReviewTypes
<1>3. WalkInv
  BY <1>1, FS_EmptySet DEF WalkInv, MissesBounded
<1> QED BY <1>2, <1>3 DEF PagingInv

\* A row gets a status: it stays in the list, joins it, leaves it or never was in it.
LEMMA StatusFacts ==
    ASSUME ReviewTypes, NEW r \in DOMAIN status, NEW s \in Statuses, SetStatus(r, s)
    PROVE  /\ status' \in Seq(Statuses) /\ Len(status') = Len(status) /\ DOMAIN status' = DOMAIN status
           /\ Listed' = IF InList(s, want) THEN Listed \cup {r} ELSE Listed \ {r}
           /\ ReviewTypes'
<1>1. /\ status' = [status EXCEPT ![r] = s]
      /\ kept' = IF InList(s, want) THEN kept ELSE kept \ {r}
      /\ left' = IF turn = "open" /\ r \in Listed /\ ~InList(s, want) /\ left < MaxLeft
                 THEN left + 1 ELSE left
      /\ UNCHANGED <<turn, want, offset, shown>>
  BY DEF SetStatus
<1>2. /\ status' \in Seq(Statuses) /\ Len(status') = Len(status) /\ DOMAIN status' = DOMAIN status
      /\ \A n \in DOMAIN status : status'[n] = IF n = r THEN s ELSE status[n]
  BY <1>1 DEF ReviewTypes
<1>3. Listed' = IF InList(s, want) THEN Listed \cup {r} ELSE Listed \ {r}
  BY <1>1, <1>2 DEF Listed
<1>4. kept' \subseteq Listed'
  BY <1>1, <1>3 DEF ReviewTypes
<1>5. left' \in 0 .. MaxLeft
  BY <1>1, ReviewListingAssumption DEF ReviewTypes
<1> QED BY <1>1, <1>2, <1>3, <1>4, <1>5 DEF ReviewTypes

-----------------------------------------------------------------------------
(* The steps.                                                              *)

\* A row that leaves the list takes at most one unseen row past the cursor.
LEMMA StatusKeeps ==
    ASSUME PagingInv, NEW r \in DOMAIN status, NEW s \in Statuses, SetStatus(r, s)
    PROVE  PagingInv'
<1>1. /\ ReviewTypes /\ ReviewTypes'
      /\ Listed' = IF InList(s, want) THEN Listed \cup {r} ELSE Listed \ {r}
  BY StatusFacts DEF PagingInv
<1>2. /\ kept' = IF InList(s, want) THEN kept ELSE kept \ {r}
      /\ left' = IF turn = "open" /\ r \in Listed /\ ~InList(s, want) /\ left < MaxLeft
                 THEN left + 1 ELSE left
      /\ UNCHANGED <<turn, want, offset, shown>>
  BY DEF SetStatus
<1>3. /\ kept \subseteq Listed /\ kept' \subseteq kept
      /\ IsFiniteSet(kept) /\ Cardinality(kept) <= MaxRows /\ Cardinality(kept) \in Nat
      /\ left \in Nat /\ left <= MaxLeft /\ offset \in Nat
  <2>1. kept \subseteq Listed /\ IsFiniteSet(Listed) /\ Cardinality(Listed) \in Nat /\ Cardinality(Listed) <= MaxRows
    BY <1>1, RowsFinite, ReviewListingAssumption DEF ReviewTypes
  <2>2. IsFiniteSet(kept) /\ Cardinality(kept) \in Nat /\ Cardinality(kept) <= Cardinality(Listed)
    BY <2>1, FewerRows
  <2> QED BY <1>1, <1>2, <2>1, <2>2, ReviewListingAssumption DEF ReviewTypes
<1>4. \A S : S \subseteq kept => IsFiniteSet(S) /\ Cardinality(S) \in Nat /\ Cardinality(S) <= Cardinality(kept)
  BY <1>3, FewerRows
<1>5. MissesBounded'
  <2> SUFFICES ASSUME turn = "done" PROVE Cardinality(kept' \ shown) <= left
    BY <1>2 DEF MissesBounded
  <2>1. kept' \ shown \subseteq kept \ shown
    BY <1>3
  <2>2. Cardinality(kept \ shown) <= left
    BY DEF PagingInv, WalkInv, MissesBounded
  <2>3. IsFiniteSet(kept \ shown) /\ Cardinality(kept \ shown) \in Nat
    BY <1>4
  <2>4. Cardinality(kept' \ shown) \in Nat /\ Cardinality(kept' \ shown) <= Cardinality(kept \ shown)
    BY <2>1, <2>3, FewerRows
  <2> QED BY <1>3, <2>2, <2>3, <2>4
<1>6. ASSUME turn = "open" PROVE Cardinality(Passed') <= left'
  <2>1. Cardinality(Passed) <= left /\ Passed \subseteq kept
    BY <1>6 DEF PagingInv, WalkInv, Passed
  <2>2. Passed' \subseteq kept /\ Passed' \subseteq kept'
    BY <1>3 DEF Passed
  <2>3. \A n \in Passed' : n \in kept /\ n \notin shown /\ n \in Listed /\ Before(n)' < offset
    BY <1>2, <1>3 DEF Passed
  <2>4. CASE Listed \subseteq Listed'
    <3>1. Passed' \subseteq Passed
      <4> SUFFICES ASSUME NEW n \in Passed' PROVE n \in Passed
        OBVIOUS
      <4>1. Before(n) \in Nat /\ Before(n)' \in Nat /\ Before(n) <= Before(n)'
        BY <1>1, <2>3, <2>4, JoinersPush
      <4> QED BY <1>3, <2>3, <4>1 DEF Passed
    <3>2. Cardinality(Passed') \in Nat /\ Cardinality(Passed) \in Nat /\ Cardinality(Passed') <= Cardinality(Passed)
      BY <1>4, <2>1, <3>1, FewerRows
    <3> QED BY <1>2, <1>3, <2>1, <3>2
  <2>5. CASE r \in Listed /\ ~InList(s, want)
    <3>1. Listed' = Listed \ {r} /\ kept' = kept \ {r}
      BY <1>1, <1>2, <2>5
    <3>2. CASE left = MaxLeft
      BY <1>2, <1>3, <1>4, <2>2, <3>2, ReviewListingAssumption
    <3>3. CASE left < MaxLeft
      <4> DEFINE edge == {n \in kept \ shown : Before(n) = offset}
      <4>1. left' = left + 1
        BY <1>2, <1>6, <2>5, <3>3
      <4>2. Passed' \subseteq Passed \cup edge
        <5> SUFFICES ASSUME NEW n \in Passed' PROVE n \in Passed \cup edge
          OBVIOUS
        <5>1. n # r
          BY <2>2, <3>1
        <5>2. Before(n) \in Nat /\ Before(n)' \in Nat /\ Before(n) <= Before(n)' + 1
          BY <1>1, <2>3, <2>5, <3>1, <5>1, LeaversPull
        <5> QED BY <1>3, <2>3, <5>2 DEF Passed
      <4>3. IsFiniteSet(edge) /\ Cardinality(edge) \in Nat /\ Cardinality(edge) <= 1
        <5>1. edge \subseteq kept
          OBVIOUS
        <5>2. \A m, n \in edge : m = n
          BY <1>1, <1>3, BeforeTells
        <5>3. CASE edge = {}
          BY <5>3, FS_EmptySet
        <5>4. CASE edge # {}
          <6>1. PICK e \in edge : edge = {e}
            BY <5>2, <5>4
          <6> HIDE DEF edge
          <6>2. IsFiniteSet({e}) /\ Cardinality({e}) = 1
            BY FS_Singleton
          <6> QED BY <6>1, <6>2
        <5> QED BY <5>3, <5>4
      <4>4. IsFiniteSet(Passed) /\ Cardinality(Passed) \in Nat
        BY <1>4, <2>1
      <4> HIDE DEF edge
      <4>5. /\ IsFiniteSet(Passed \cup edge) /\ Cardinality(Passed \cup edge) \in Nat
            /\ Cardinality(Passed \cup edge) <= Cardinality(Passed) + Cardinality(edge)
        <5>1. /\ IsFiniteSet(Passed \cup edge) /\ IsFiniteSet(Passed \cap edge)
              /\ Cardinality(Passed \cup edge) = Cardinality(Passed) + Cardinality(edge) - Cardinality(Passed \cap edge)
          BY <4>3, <4>4, FS_Union, FS_Intersection
        <5>2. Cardinality(Passed \cap edge) \in Nat /\ Cardinality(Passed \cup edge) \in Nat
          BY <5>1, FS_CardinalityType
        <5> QED BY <4>3, <4>4, <5>1, <5>2
      <4>6. Cardinality(Passed') \in Nat /\ Cardinality(Passed') <= Cardinality(Passed \cup edge)
        BY <4>2, <4>5, FewerRows
      <4> QED BY <1>3, <2>1, <4>1, <4>3, <4>4, <4>5, <4>6
    <3> QED BY <1>3, <3>2, <3>3, ReviewListingAssumption
  <2> QED BY <1>1, <2>4, <2>5
<1> QED BY <1>1, <1>2, <1>5, <1>6 DEF PagingInv, WalkInv

\* A review that starts moves every row one place down, and is one more to miss.
LEMMA StartKeeps ==
    ASSUME PagingInv, StartReview
    PROVE  PagingInv'
<1>1. /\ ReviewTypes /\ Len(status) < MaxRows /\ status' = Append(status, "queued")
      /\ UNCHANGED <<turn, want, offset, shown, kept, left>>
  BY DEF PagingInv, StartReview
<1>2. /\ status' \in Seq(Statuses) /\ Len(status') = Len(status) + 1
      /\ \A n \in DOMAIN status : n \in DOMAIN status' /\ status'[n] = status[n]
  BY <1>1 DEF ReviewTypes, Statuses
<1>3. Listed \subseteq Listed'
  BY <1>1, <1>2 DEF Listed
<1>4. ReviewTypes'
  BY <1>1, <1>2, <1>3, ReviewListingAssumption DEF ReviewTypes
<1>5. Passed' \subseteq Passed
  <2> SUFFICES ASSUME NEW n \in Passed' PROVE n \in Passed
    OBVIOUS
  <2>1. n \in kept \ shown /\ Before(n)' < offset /\ n \in Listed /\ offset \in Nat
    BY <1>1 DEF Passed, ReviewTypes
  <2>2. Before(n) \in Nat /\ Before(n)' \in Nat /\ Before(n) <= Before(n)'
    BY <1>1, <1>3, <1>4, <2>1, JoinersPush
  <2> QED BY <2>1, <2>2 DEF Passed
<1>6. IsFiniteSet(Passed) /\ Cardinality(Passed) \in Nat
  BY <1>1, RowsFinite, FewerRows, Passed \subseteq Listed DEF Passed, ReviewTypes
<1>7. Cardinality(Passed') \in Nat /\ Cardinality(Passed') <= Cardinality(Passed)
  BY <1>5, <1>6, FewerRows
<1> QED BY <1>1, <1>4, <1>6, <1>7 DEF PagingInv, WalkInv, MissesBounded, ReviewTypes

\* A walk begins with nothing passed.
LEMMA OpenListKeeps ==
    ASSUME PagingInv, NEW w \in Wanted, OpenList(w)
    PROVE  PagingInv'
<1>1. /\ ReviewTypes /\ turn' = "open" /\ want' = w /\ offset' = 0 /\ shown' = {}
      /\ kept' = Listed' /\ left' = 0 /\ status' = status
  BY DEF PagingInv, OpenList, Listed
<1>2. ReviewTypes'
  BY <1>1, ReviewListingAssumption DEF ReviewTypes
<1>3. Passed' = {}
  <2> SUFFICES ASSUME NEW n \in Listed' PROVE ~(Before(n)' < 0)
    BY <1>1 DEF Passed
  <2>1. IsFiniteSet(Listed') /\ {m \in Listed' : m > n} \subseteq Listed'
    BY <1>1, RowsFinite, FS_Subset DEF Listed
  <2>2. Before(n)' \in Nat
    BY <2>1, FewerRows DEF Before
  <2> QED BY <2>2
<1>4. WalkInv'
  BY <1>1, <1>3, FS_EmptySet DEF WalkInv, MissesBounded
<1> QED BY <1>2, <1>4 DEF PagingInv

\* A page passes no row; on the last one, all that was not passed is shown.
LEMMA FetchKeeps ==
    ASSUME PagingInv, FetchPage
    PROVE  PagingInv'
<1>1. /\ ReviewTypes /\ turn = "open" /\ shown' = shown \cup ListPage
      /\ IF offset + PageSize < Cardinality(Listed)
         THEN turn' = "open" /\ offset' = offset + PageSize
         ELSE turn' = "done" /\ UNCHANGED offset
      /\ UNCHANGED <<status, want, kept, left>>
  BY DEF PagingInv, FetchPage
<1>2. /\ Listed' = Listed /\ \A n : Before(n)' = Before(n)
      /\ kept \subseteq Listed /\ offset \in Nat /\ PageSize \in Nat
      /\ Cardinality(Listed) \in Nat /\ Cardinality(Listed) <= MaxRows
  BY <1>1, RowsFinite, ReviewListingAssumption DEF Listed, Before, ReviewTypes
<1>3. ReviewTypes'
  BY <1>1, <1>2, ReviewListingAssumption DEF ReviewTypes, ListPage, Listed
<1>4. Cardinality(Passed) <= left /\ IsFiniteSet(Passed) /\ Cardinality(Passed) \in Nat
  <2>1. Passed \subseteq Listed
    BY <1>2 DEF Passed
  <2> QED BY <1>1, <2>1, RowsFinite, FewerRows DEF PagingInv, WalkInv
<1>5. left \in Nat /\ left' = left
  BY <1>1 DEF ReviewTypes
<1>6. CASE offset + PageSize < Cardinality(Listed)
  <2>1. Passed' \subseteq Passed
    <3> SUFFICES ASSUME NEW n \in Passed' PROVE n \in Passed
      OBVIOUS
    <3>1. n \in kept /\ n \notin shown /\ n \notin ListPage /\ Before(n) < offset + PageSize
      BY <1>1, <1>2, <1>6 DEF Passed
    <3>2. n \in Listed /\ Before(n) \in Nat
      BY <1>1, <1>2, <3>1, BeforeOrders
    <3> QED BY <1>2, <3>1, <3>2 DEF Passed, ListPage
  <2>2. Cardinality(Passed') \in Nat /\ Cardinality(Passed') <= Cardinality(Passed)
    BY <1>4, <2>1, FewerRows
  <2> QED BY <1>1, <1>3, <1>4, <1>5, <1>6, <2>2 DEF PagingInv, WalkInv, MissesBounded
<1>7. CASE ~(offset + PageSize < Cardinality(Listed))
  <2>1. kept \ shown' \subseteq Passed
    <3> SUFFICES ASSUME NEW n \in kept, n \notin shown, n \notin ListPage PROVE n \in Passed
      BY <1>1
    <3>1. n \in Listed /\ Before(n) \in Nat /\ Before(n) < Cardinality(Listed)
      BY <1>1, <1>2, BeforeOrders
    <3> QED BY <1>2, <1>7, <3>1 DEF Passed, ListPage
  <2>2. Cardinality(kept \ shown') \in Nat /\ Cardinality(kept \ shown') <= Cardinality(Passed)
    BY <1>4, <2>1, FewerRows
  <2> QED BY <1>1, <1>3, <1>4, <1>5, <1>7, <2>2 DEF PagingInv, WalkInv, MissesBounded
<1> QED BY <1>6, <1>7

\* What leaves the reviews and the walk alone keeps their invariant.
LEMMA PagingStutters ==
    ASSUME PagingInv, UNCHANGED reviewVars
    PROVE  PagingInv'
<1>1. Listed' = Listed /\ \A n : Before(n)' = Before(n)
  BY DEF reviewVars, Listed, Before
<1>2. Passed' = Passed
  BY <1>1 DEF Passed, reviewVars
<1> QED BY <1>1, <1>2 DEF reviewVars, PagingInv, WalkInv, MissesBounded, ReviewTypes

\* At every point of a walk, at most as many of the reviews that are owed were passed
\* as reviews left the list.
THEOREM PassedBounded == ReviewSpec => []PagingInv
<1>1. ASSUME PagingInv, ReviewNext PROVE PagingInv'
  <2>1. CASE StartReview
    BY <1>1, <2>1, StartKeeps
  <2>2. ASSUME NEW n \in DOMAIN status, MarkRunning(n) \/ EndReview(n) PROVE PagingInv'
    <3>1. PICK s \in Statuses : SetStatus(n, s)
      BY <2>2 DEF MarkRunning, EndReview, Statuses
    <3> QED BY <1>1, <3>1, StatusKeeps
  <2>3. ASSUME NEW w \in Wanted, OpenList(w) PROVE PagingInv'
    BY <1>1, <2>3, OpenListKeeps
  <2>4. CASE FetchPage
    BY <1>1, <2>4, FetchKeeps
  <2> QED BY <1>1, <2>1, <2>2, <2>3, <2>4 DEF ReviewNext
<1>2. PagingInv /\ [ReviewNext]_reviewVars => PagingInv'
  BY <1>1, PagingStutters
<1> QED BY <1>2, WalkStarts, PTL DEF ReviewSpec

\* A walk through the list misses no more of the reviews that were in it all along than
\* reviews left it meanwhile.
THEOREM MissesAreBounded == ReviewSpec => []MissesBounded
<1>1. PagingInv => MissesBounded
  BY DEF PagingInv, WalkInv
<1> QED BY <1>1, PassedBounded, PTL

\* Type correctness; what is owed is in the list.
THEOREM ReviewsTyped == ReviewSpec => []ReviewTypes
<1>1. PagingInv => ReviewTypes
  BY DEF PagingInv
<1> QED BY <1>1, PassedBounded, PTL

-----------------------------------------------------------------------------
(* The commands.                                                           *)

\* What a command has seen.
SightsInv ==
    /\ line \in CommandLines
    /\ at \in {"none", "read", "write", "hook", "sleep", "exit", "killed"}
    /\ prev \in Sights /\ first \in Sights /\ seen \in Sights /\ told \in Sights
    /\ seen = "none" <=> first = "none"
    /\ at \in {"write", "hook", "sleep"} => seen # "none"
    /\ at \in {"read", "sleep"} /\ line.kind \in Watches => prev = seen

\* How often it has looked.
PollsInv ==
    /\ polls \in Nat
    /\ line.polls > 0 => polls <= line.polls
    /\ line.polls > 0 /\ at \in {"read", "sleep"} => polls < line.polls
    /\ at = "read" /\ line.kind \notin Watches => polls = 0
    /\ at = "sleep" => line.kind \in Watches
    /\ at = "write" => line.kind = "diff"

\* The rest of the types.
RestInv ==
    /\ code \in 0 .. 3
    /\ stopped \in BOOLEAN /\ fired \in BOOLEAN
    /\ due \in Hooks \cup {"none"} /\ (at = "hook" => due # "none")

\* What the hooks of a loop have told when a report is over.
HeardInv ==
    at \in {"read", "sleep", "exit"} =>
        /\ (/\ line.kind = "watch" /\ ~line.once
            /\ OnHook(line, "drift") = "set" /\ OnHook(line, "recover") = "set")
           => told = seen \/ (told = "none" /\ seen = "clear")
        /\ (line.kind = "reportWatch" /\ OnApplied(line) = "set")
           => told = seen \/ (told = "none" /\ seen = first)

CommandInv == SightsInv /\ PollsInv /\ RestInv /\ GateHonest /\ HeardInv

-----------------------------------------------------------------------------
\* A report is a hit or clear.
LEMMA SightFacts == \A r : Sight(r) \in {"hit", "clear"}
  BY DEF Sight

\* A report that cannot be used ends the command with an error, neither open nor closed.
LEMMA FailureFacts == \A f, r : Failure(f, r) # 0 /\ f.kind \in {"drift", "watch", "compare", "report", "reportWatch", "diff"}
                                => Failure(f, r) \in {1, 2}
  BY DEF Failure, DriftFailure, WatchFailure, CompareFailure, ReportFailure, ReportWatchFailure, DiffFailure

\* A poll fires a hook that the command line knows, or none.
LEMMA HookFacts == \A f, r : HookDue(f, r) \in Hooks \cup {"none"}
  BY DEF HookDue, Hooks

\* The exit code of a command that has read all it wants tells what it saw last.
LEMMA ExitFacts ==
    ASSUME NEW s \in {"hit", "clear"}
    PROVE  /\ GateCode(line, s) \in {0, 3}
           /\ GateCode(line, s) = 3 => s = "hit"
           /\ GateCode(line, s) = 0 =>
                 \/ s = "clear" \/ stopped
                 \/ line.kind \in {"report", "reportWatch"} /\ ~line.require
  BY DEF GateCode

\* A loop that goes to sleep has polls left and remembers the sight; a command that
\* ends instead tells it by its code.
LEMMA TurnFacts ==
    ASSUME NEW s \in {"hit", "clear"}, NEW n \in Nat, Turn(s, n), line.polls \in Nat
    PROVE  /\ prev' = s
           /\ \/ at' = "sleep" /\ line.kind \in Watches /\ (line.polls > 0 => n < line.polls) /\ code' = code
              \/ at' = "exit" /\ code' = GateCode(line, s)
  BY DEF Turn, Exit

\* A hook that is not due leaves nothing untold.
LEMMA SilenceFacts ==
    ASSUME SightsInv, HeardInv, at = "read", NEW r, HookDue(line, r) = "none"
    PROVE  /\ (/\ line.kind = "watch" /\ ~line.once
               /\ OnHook(line, "drift") = "set" /\ OnHook(line, "recover") = "set")
              => told = Sight(r) \/ (told = "none" /\ Sight(r) = "clear")
           /\ (line.kind = "reportWatch" /\ OnApplied(line) = "set")
              => told = Sight(r) \/ (told = "none" /\ Sight(r) = IF first = "none" THEN Sight(r) ELSE first)
<1>1. Sight(r) \in {"hit", "clear"}
  BY SightFacts
<1>2. ASSUME line.kind = "watch", ~line.once, OnHook(line, "drift") = "set", OnHook(line, "recover") = "set"
      PROVE  told = Sight(r) \/ (told = "none" /\ Sight(r) = "clear")
  <2>1. ~DriftHookDue(line, Sight(r)) /\ ~RecoverHookDue(line, Sight(r))
    BY <1>2 DEF HookDue
  <2>2. Sight(r) = "clear" /\ prev # "hit"
    BY <1>1, <1>2, <2>1 DEF DriftHookDue, RecoverHookDue, Set
  <2>3. prev = seen /\ seen \in {"none", "clear"}
    BY <1>2, <2>2 DEF SightsInv, Sights, Watches
  <2>4. told = seen \/ (told = "none" /\ seen = "clear")
    BY <1>2 DEF HeardInv
  <2> QED BY <2>2, <2>3, <2>4
<1>3. ASSUME line.kind = "reportWatch", OnApplied(line) = "set"
      PROVE  told = Sight(r) \/ (told = "none" /\ Sight(r) = IF first = "none" THEN Sight(r) ELSE first)
  <2>1. ~AppliedHookDue(line, Sight(r))
    BY <1>3 DEF HookDue
  <2>2. prev \in {"none", Sight(r)} /\ prev = seen
    BY <1>3, <2>1 DEF AppliedHookDue, SightsInv, Watches
  <2>3. told = seen \/ (told = "none" /\ seen = first)
    BY <1>3 DEF HeardInv
  <2> QED BY <2>2, <2>3 DEF SightsInv
<1> QED BY <1>2, <1>3

-----------------------------------------------------------------------------
\* The command starts well.
LEMMA CommandStarts == CommandInit => CommandInv
<1> SUFFICES ASSUME CommandInit PROVE CommandInv
  OBVIOUS
<1>1. line \in CommandLines /\ line.polls \in Nat
  BY CommandAssumption DEF CommandInit
<1>2. SightsInv /\ HeardInv
  BY <1>1 DEF CommandInit, SightsInv, HeardInv, Sights
<1>3. PollsInv
  BY <1>1 DEF CommandInit, PollsInv
<1>4. GateHonest
  BY DEF CommandInit, GateHonest
<1>5. RestInv
  <2>1. code \in 0 .. 3
    BY DEF CommandInit
  <2>2. stopped \in BOOLEAN /\ fired \in BOOLEAN /\ due = "none" /\ at = "none"
    BY DEF CommandInit
  <2> QED BY <2>1, <2>2 DEF RestInv
<1> QED BY <1>2, <1>3, <1>4, <1>5 DEF CommandInv

\* A new command has seen nothing; one that is refused ends with an error.
LEMMA LaunchKeeps ==
    ASSUME CommandInv, NEW f \in CommandLines, Launch(f)
    PROVE  CommandInv'
<1>1. line' = f /\ f.polls \in Nat
  BY CommandAssumption DEF Launch
<1>2. \/ at' = "exit" /\ code' = 2
      \/ at' = "read" /\ code' = 0
  BY DEF Launch, Exit
<1>3. /\ polls' = 0 /\ stopped' = FALSE /\ prev' = "none" /\ fired' = FALSE /\ due' = "none"
      /\ first' = "none" /\ seen' = "none" /\ told' = "none"
  BY DEF Launch
<1>4. SightsInv' /\ HeardInv'
  BY <1>1, <1>2, <1>3 DEF SightsInv, HeardInv, Sights
<1>5. PollsInv'
  BY <1>1, <1>2, <1>3 DEF PollsInv
<1>6. GateHonest'
  BY <1>2 DEF GateHonest
<1>7. RestInv'
  <2>1. code' \in 0 .. 3
    BY <1>2
  <2>2. stopped' \in BOOLEAN /\ fired' \in BOOLEAN /\ due' = "none" /\ at' # "hook"
    BY <1>2, <1>3
  <2> QED BY <2>1, <2>2 DEF RestInv
<1> QED BY <1>4, <1>5, <1>6, <1>7 DEF CommandInv

\* A report that is read, in the three ways it can go on: an error, the file or the hook
\* first, or the turn of the loop with no hook due.
LEMMA ReadKeeps ==
    ASSUME CommandInv, NEW r, Read(r)
    PROVE  CommandInv'
<1>1. /\ at = "read" /\ line \in CommandLines /\ line.polls \in Nat /\ polls \in Nat
      /\ line.kind \in {"drift", "watch", "compare", "report", "reportWatch", "diff"}
  BY CommandAssumption DEF Read, CommandInv, SightsInv, PollsInv
<1>2. UNCHANGED <<line, stopped, fired, told>>
  BY DEF Read
<1>3. polls' \in Nat /\ (line.polls > 0 => polls' <= line.polls)
  BY <1>1 DEF Read, CommandInv, PollsInv
<1>4. CASE Failure(line, r) # 0
  <2>1. at' = "exit" /\ code' \in {1, 2} /\ UNCHANGED <<prev, due, first, seen>>
    BY <1>1, <1>4, FailureFacts DEF Read, Exit
  <2> QED BY <1>1, <1>2, <1>3, <2>1
      DEF CommandInv, SightsInv, PollsInv, RestInv, GateHonest, HeardInv, OnHook, OnApplied, TemplateUrl
<1>5. CASE Failure(line, r) = 0
  <2>1. /\ seen' = Sight(r) /\ Sight(r) \in {"hit", "clear"}
        /\ first' = IF first = "none" THEN Sight(r) ELSE first
        /\ due' = HookDue(line, r) /\ due' \in Hooks \cup {"none"}
    BY <1>5, SightFacts, HookFacts DEF Read
  <2>2. \/ at' = "exit" /\ code' = 2 /\ prev' = prev
        \/ at' = "write" /\ line.kind = "diff" /\ code' = code /\ prev' = prev
        \/ at' = "hook" /\ due' # "none" /\ code' = code /\ prev' = prev
        \/ due' = "none" /\ Turn(Sight(r), polls')
    BY <1>5 DEF Read, Announce, Exit
  <2>3. first' \in {"hit", "clear"}
    BY <2>1 DEF CommandInv, SightsInv, Sights
  <2>4. ASSUME at' = "exit", code' = 2, prev' = prev
        PROVE  CommandInv'
    <3>1. line.kind = "diff"
      BY <1>1, <1>5, <2>1, <2>4, ExitFacts DEF Read, Announce, Turn, Exit
    <3> QED BY <1>1, <1>2, <1>3, <2>1, <2>3, <2>4, <3>1
        DEF CommandInv, SightsInv, PollsInv, RestInv, GateHonest, HeardInv, Sights
  <2>5. ASSUME (at' = "write" /\ line.kind = "diff") \/ (at' = "hook" /\ due' # "none"), code' = code, prev' = prev
        PROVE  CommandInv'
    BY <1>1, <1>2, <1>3, <2>1, <2>3, <2>5
       DEF CommandInv, SightsInv, PollsInv, RestInv, GateHonest, HeardInv, Sights
  <2>6. ASSUME due' = "none", Turn(Sight(r), polls')
        PROVE  CommandInv'
    <3>1. /\ prev' = Sight(r)
          /\ \/ at' = "sleep" /\ line.kind \in Watches /\ (line.polls > 0 => polls' < line.polls) /\ code' = code
             \/ at' = "exit" /\ code' = GateCode(line, Sight(r))
      BY <1>1, <1>3, <2>1, <2>6, TurnFacts
    <3>2. SightsInv' /\ PollsInv'
      BY <1>1, <1>2, <1>3, <2>1, <2>3, <3>1 DEF CommandInv, SightsInv, PollsInv, Sights
    <3>3. RestInv' /\ GateHonest'
      BY <1>2, <2>1, <2>6, <3>1, ExitFacts DEF CommandInv, RestInv, GateHonest
    <3>4. HeardInv'
      <4>1. HookDue(line, r) = "none"
        BY <2>1, <2>6
      <4>2. /\ (/\ line.kind = "watch" /\ ~line.once
                /\ OnHook(line, "drift") = "set" /\ OnHook(line, "recover") = "set")
               => told = Sight(r) \/ (told = "none" /\ Sight(r) = "clear")
            /\ (line.kind = "reportWatch" /\ OnApplied(line) = "set")
               => told = Sight(r) \/ (told = "none" /\ Sight(r) = IF first = "none" THEN Sight(r) ELSE first)
        BY <1>1, <4>1, SilenceFacts DEF CommandInv
      <4>3. (OnHook(line, "drift"))' = OnHook(line, "drift")
            /\ (OnHook(line, "recover"))' = OnHook(line, "recover") /\ (OnApplied(line))' = OnApplied(line)
        BY <1>2 DEF OnHook, OnApplied, TemplateUrl
      <4> QED BY <1>2, <2>1, <4>2, <4>3 DEF HeardInv
    <3> QED BY <3>2, <3>3, <3>4 DEF CommandInv
  <2> QED BY <2>2, <2>4, <2>5, <2>6
<1> QED BY <1>1, <1>4, <1>5

\* Only diff writes a file, and it has no loop.
LEMMA WriteKeeps ==
    ASSUME CommandInv, Write
    PROVE  CommandInv'
<1>1. /\ at = "write" /\ line \in CommandLines /\ line.polls \in Nat /\ polls \in Nat
      /\ UNCHANGED <<line, polls, stopped, fired, due, first, seen, told>>
      /\ seen \in {"hit", "clear"}
  BY CommandAssumption DEF Write, CommandInv, SightsInv, PollsInv, Sights
<1>2. \/ at' = "exit" /\ code' \in {1, 2} /\ prev' = prev
      \/ at' = "exit" /\ code' = GateCode(line, seen) /\ prev' = seen
      \/ at' = "hook" /\ due # "none" /\ code' = code /\ prev' = prev
  <2>1. polls' = polls /\ (Announce(seen, due) \/ (at' = "exit" /\ code' = 1 /\ prev' = prev))
    BY DEF Write, Exit
  <2>2. line.kind = "diff"
    BY <1>1 DEF CommandInv, PollsInv
  <2> QED BY <1>1, <2>1, <2>2 DEF Announce, Turn, Exit, Watches
<1>3. line.kind = "diff"
  BY <1>1 DEF CommandInv, PollsInv
<1>4. SightsInv' /\ PollsInv'
  BY <1>1, <1>2, <1>3 DEF CommandInv, SightsInv, PollsInv, Sights, Watches
<1>5. RestInv' /\ GateHonest' /\ HeardInv'
  <2>1. code' \in 0 .. 3
    BY <1>1, <1>2, ExitFacts DEF CommandInv, RestInv
  <2>2. GateHonest'
    BY <1>1, <1>2, ExitFacts DEF GateHonest
  <2> QED BY <1>1, <1>2, <1>3, <2>1, <2>2 DEF CommandInv, RestInv, HeardInv
<1> QED BY <1>4, <1>5 DEF CommandInv

\* A hook tells what was seen last.
LEMMA HookKeeps ==
    ASSUME CommandInv, Hook
    PROVE  CommandInv'
<1>1. /\ at = "hook" /\ line \in CommandLines /\ line.polls \in Nat /\ polls \in Nat
      /\ UNCHANGED <<line, polls, stopped, due, first, seen>>
      /\ seen \in {"hit", "clear"} /\ told' = seen
      /\ fired' = (fired \/ due = "drift")
  BY CommandAssumption DEF Hook, CommandInv, SightsInv, PollsInv, Sights
<1>2. /\ prev' = seen
      /\ \/ at' = "sleep" /\ line.kind \in Watches /\ (line.polls > 0 => polls < line.polls) /\ code' = code
         \/ at' = "exit" /\ code' = GateCode(line, seen)
  BY <1>1, TurnFacts DEF Hook
<1>3. SightsInv' /\ PollsInv' /\ HeardInv'
  BY <1>1, <1>2 DEF CommandInv, SightsInv, PollsInv, HeardInv, Sights
<1>4. code' \in 0 .. 3
  BY <1>1, <1>2, ExitFacts DEF CommandInv, RestInv
<1>5. fired' \in BOOLEAN
  BY <1>1 DEF CommandInv, RestInv
<1>6. RestInv' /\ GateHonest'
  BY <1>1, <1>2, <1>4, <1>5, ExitFacts DEF CommandInv, RestInv, GateHonest
<1> QED BY <1>3, <1>6 DEF CommandInv

\* A loop that wakes up looks again, or ends with what it saw last.
LEMMA WakeKeeps ==
    ASSUME CommandInv, Wake
    PROVE  CommandInv'
<1>1. /\ at = "sleep" /\ line \in CommandLines /\ line.kind \in Watches
      /\ UNCHANGED <<line, polls, stopped, prev, fired, due, first, seen, told>>
      /\ seen \in {"hit", "clear"}
  BY DEF Wake, CommandInv, SightsInv, PollsInv, Sights
<1>2. \/ at' = "exit" /\ code' = GateCode(line, seen)
      \/ at' = "read" /\ code' = code
  BY DEF Wake, Exit
<1>3. SightsInv' /\ PollsInv'
  BY <1>1, <1>2 DEF CommandInv, SightsInv, PollsInv, Sights
<1>4. code' \in 0 .. 3
  BY <1>1, <1>2, ExitFacts DEF CommandInv, RestInv
<1>5. RestInv' /\ GateHonest'
  BY <1>1, <1>2, <1>4, ExitFacts DEF CommandInv, RestInv, GateHonest
<1>6. HeardInv'
  <2>1. HeardInv /\ (OnHook(line, "drift"))' = OnHook(line, "drift")
        /\ (OnHook(line, "recover"))' = OnHook(line, "recover") /\ (OnApplied(line))' = OnApplied(line)
    BY <1>1 DEF CommandInv, OnHook, OnApplied, TemplateUrl
  <2> QED BY <1>1, <2>1 DEF HeardInv
<1> QED BY <1>3, <1>5, <1>6 DEF CommandInv

\* A SIGINT stops a loop at its next turn, and ends everything else without a code.
LEMMA InterruptKeeps ==
    ASSUME CommandInv, Interrupt
    PROVE  CommandInv'
<1>1. /\ UNCHANGED <<line, code, polls, prev, fired, due, first, seen, told>>
      /\ at \in {"read", "write", "hook", "sleep"}
      /\ \/ at' = "killed" /\ stopped' = stopped
         \/ at' = at /\ stopped' = TRUE
  BY DEF Interrupt
<1>2. SightsInv' /\ PollsInv' /\ RestInv'
  BY <1>1 DEF CommandInv, SightsInv, PollsInv, RestInv
<1>3. GateHonest'
  BY <1>1 DEF GateHonest
<1>4. HeardInv'
  <2>1. HeardInv /\ (OnHook(line, "drift"))' = OnHook(line, "drift")
        /\ (OnHook(line, "recover"))' = OnHook(line, "recover") /\ (OnApplied(line))' = OnApplied(line)
    BY <1>1 DEF CommandInv, OnHook, OnApplied, TemplateUrl
  <2> QED BY <1>1, <2>1 DEF HeardInv
<1> QED BY <1>2, <1>3, <1>4 DEF CommandInv

\* What leaves the command alone keeps its invariant.
LEMMA CommandStutters ==
    ASSUME CommandInv, UNCHANGED commandVars
    PROVE  CommandInv'
<1> USE DEF commandVars
<1>1. SightsInv' /\ PollsInv' /\ RestInv' /\ GateHonest'
  BY DEF CommandInv, SightsInv, PollsInv, RestInv, GateHonest
<1>2. HeardInv'
  <2>1. HeardInv /\ (OnHook(line, "drift"))' = OnHook(line, "drift")
        /\ (OnHook(line, "recover"))' = OnHook(line, "recover") /\ (OnApplied(line))' = OnApplied(line)
    BY DEF CommandInv, OnHook, OnApplied, TemplateUrl
  <2> QED BY <2>1 DEF HeardInv
<1> QED BY <1>1, <1>2 DEF CommandInv

-----------------------------------------------------------------------------
\* Everything above holds of every command, at all times.
THEOREM CommandsKeepTrack == CommandSpec => []CommandInv
<1>1. ASSUME CommandInv, CommandNext PROVE CommandInv'
  BY <1>1, LaunchKeeps, ReadKeeps, WriteKeeps, HookKeeps, WakeKeeps, InterruptKeeps DEF CommandNext
<1>2. CommandInv /\ [CommandNext]_commandVars => CommandInv'
  BY <1>1, CommandStutters
<1> QED BY <1>2, CommandStarts, PTL DEF CommandSpec

\* Type correctness; a loop that is given a number of polls stops after as many.
THEOREM CommandsTyped == CommandSpec => []CommandTypes
<1>1. CommandInv => CommandTypes
  BY CommandAssumption DEF CommandInv, SightsInv, PollsInv, RestInv, CommandTypes
<1> QED BY <1>1, CommandsKeepTrack, PTL

\* The exit code and the hooks of a command say what it read: the gate in front of a merge
\* and whoever is told by the hooks can rely on them.
THEOREM CommandsTellTruth == CommandSpec => []TellsTruth
<1>1. CommandInv => TellsTruth
  BY DEF CommandInv, HeardInv, TellsTruth, HooksTellAll
<1> QED BY <1>1, CommandsKeepTrack, PTL

-----------------------------------------------------------------------------
(* What the presets of a row come to.                                      *)

\* What a merged preset says of a field.
LEMMA MergedSays ==
    ASSUME NEW a, NEW b, NEW p
    PROVE  Word(MergePresets(a, b), p) = IF Word(b, p) # {} THEN Word(b, p) ELSE Word(a, p)
<1> DEFINE m == MergePresets(a, b)
<1>1. /\ DOMAIN m = DOMAIN a \cup DOMAIN b
      /\ \A k \in DOMAIN m : m[k] = IF k \in DOMAIN b THEN b[k] ELSE a[k]
  BY DEF MergePresets
<1> HIDE DEF m
<1>2. \A preset : Word(preset, p) = IF p \in DOMAIN preset THEN {preset[p]} ELSE {}
  <2> SUFFICES ASSUME NEW preset PROVE Word(preset, p) = IF p \in DOMAIN preset THEN {preset[p]} ELSE {}
    OBVIOUS
  <2>1. {p} \cap DOMAIN preset = IF p \in DOMAIN preset THEN {p} ELSE {}
    OBVIOUS
  <2> QED BY <2>1 DEF Word
<1>3. Word(m, p) = IF Word(b, p) # {} THEN Word(b, p) ELSE Word(a, p)
  <2>1. CASE p \in DOMAIN b
    BY <1>1, <1>2, <2>1
  <2>2. CASE p \notin DOMAIN b /\ p \in DOMAIN a
    BY <1>1, <1>2, <2>2
  <2>3. CASE p \notin DOMAIN b /\ p \notin DOMAIN a
    BY <1>1, <1>2, <2>3
  <2> QED BY <2>1, <2>2, <2>3
<1> QED BY <1>3 DEF m

\* A list has as many places as its length.
LEMMA ChainFacts ==
    ASSUME NEW s, IsChain(s)
    PROVE  /\ Len(s) \in Nat /\ DOMAIN s = 1 .. Len(s)
           /\ \A i \in DOMAIN s : s[i] \in ToSet(s)
           /\ \A x \in ToSet(s) : \E i \in DOMAIN s : x = s[i]
<1>1. s \in Seq(ToSet(s))
  BY DEF IsChain
<1> QED BY <1>1, LenProperties DEF ToSet

\* What a row of words comes to, word by word.
LEMMA LastOfMore ==
    ASSUME NEW n \in Nat, NEW ws, DOMAIN ws = 1 .. n, NEW i \in 1 .. n
    PROVE  LastSaid([k \in 1 .. i |-> ws[k]])
             = IF ws[i] # {} THEN ws[i] ELSE LastSaid([k \in 1 .. i - 1 |-> ws[k]])
<1> DEFINE now == {k \in 1 .. i : ws[k] # {}}
           was == {k \in 1 .. i - 1 : ws[k] # {}}
           vs == [k \in 1 .. i |-> ws[k]]
           us == [k \in 1 .. i - 1 |-> ws[k]]
<1>1. LastSaid(vs) = IF now = {} THEN {} ELSE vs[Max(now)]
  <2>1. {k \in DOMAIN vs : vs[k] # {}} = now
    OBVIOUS
  <2> HIDE DEF vs, now
  <2> QED BY <2>1 DEF LastSaid
<1>2. LastSaid(us) = IF was = {} THEN {} ELSE us[Max(was)]
  <2>1. {k \in DOMAIN us : us[k] # {}} = was
    OBVIOUS
  <2> HIDE DEF us, was
  <2> QED BY <2>1 DEF LastSaid
<1>3. CASE ws[i] # {}
  <2>1. now \in SUBSET (0 .. n) /\ now # {} /\ i \in now
    BY <1>3
  <2>2. Max(now) \in now /\ \A u \in now : u <= Max(now)
    BY <2>1, MinMax
  <2> DEFINE m == Max(now)
  <2> HIDE DEF m
  <2>3. m = i
    <3>1. m \in 1 .. i /\ i <= m
      BY <2>1, <2>2 DEF m
    <3> QED BY <3>1
  <2>4. vs[i] = ws[i]
    OBVIOUS
  <2> QED BY <1>1, <1>3, <2>1, <2>3, <2>4 DEF m
<1>4. CASE ws[i] = {}
  <2>1. now = was
    <3>1. \A k \in 1 .. i : k \in 1 .. i - 1 \/ k = i
      OBVIOUS
    <3>2. \A k \in 1 .. i - 1 : k \in 1 .. i
      OBVIOUS
    <3> QED BY <1>4, <3>1, <3>2
  <2>2. CASE was = {}
    BY <1>1, <1>2, <1>4, <2>1, <2>2
  <2>3. CASE was # {}
    <3>1. was \in SUBSET (0 .. n)
      OBVIOUS
    <3>2. Max(was) \in was
      BY <2>3, <3>1, MinMax
    <3> DEFINE m == Max(was)
    <3> HIDE DEF m
    <3>3. m \in 1 .. i - 1 /\ m \in 1 .. i
      <4>1. m \in was
        BY <3>2 DEF m
      <4>2. m \in 1 .. i - 1
        BY <4>1
      <4>3. 1 .. i - 1 \subseteq 1 .. i
        OBVIOUS
      <4> QED BY <4>2, <4>3
    <3>4. vs[m] = us[m]
      BY <3>3
    <3> QED BY <1>1, <1>2, <1>4, <2>1, <2>3, <3>4 DEF m
  <2> QED BY <2>2, <2>3
<1> QED BY <1>3, <1>4

\* What comes of the first presets of a row, from none of them to all.
AreMerged(g, results, merged) ==
    /\ g[0] = <<>> /\ g[Len(results)] = merged
    /\ \A i \in 1 .. Len(results) : g[i] = MergePresets(g[i - 1], results[i].body)

Merged(results) == FoldLeft(LAMBDA all, r : MergePresets(all, r.body), <<>>, results)

\* They are merged one after the other.
LEMMA MergedSteps ==
    ASSUME NEW results, IsChain(results)
    PROVE  \E g : AreMerged(g, results, Merged(results))
<1> DEFINE E == ToSet(results)
           F == UNION {DOMAIN r.body : r \in E}
           V == UNION {{r.body[p] : p \in DOMAIN r.body} : r \in E}
           A == UNION {[S -> V] : S \in SUBSET F}
           Add(all, r) == MergePresets(all, r.body)
           O == [p \in A \X E |-> Add(p[1], p[2])]
           Runs(it) == it = [s \in SUBSET DOMAIN results |->
                                IF s = {} THEN <<>> ELSE Add(it[s \ {Max(s)}], results[Max(s)])]
           it == CHOOSE i : Runs(i)
<1>1. ASSUME NEW all \in A, NEW r \in E PROVE Add(all, r) \in A
  <2>1. PICK S \in SUBSET F : all \in [S -> V]
    OBVIOUS
  <2>2. DOMAIN r.body \in SUBSET F /\ \A p \in DOMAIN r.body : r.body[p] \in V
    OBVIOUS
  <2> HIDE DEF F, V
  <2>3. Add(all, r) \in [S \cup DOMAIN r.body -> V]
    BY <2>1, <2>2 DEF MergePresets
  <2>4. S \cup DOMAIN r.body \in SUBSET F
    BY <2>1, <2>2
  <2> QED BY <2>3, <2>4
<1>2. Merged(results) = it[DOMAIN results]
  BY DEF Merged, FoldLeft, MapThenFoldSet
<1>3. <<>> \in A
  <2>1. <<>> \in [{} -> V]
    OBVIOUS
  <2> QED BY <2>1
<1>4. results \in Seq(E)
  BY DEF IsChain
<1> HIDE DEF A, E, Add
<1>5. O \in [A \X E -> A] /\ \A all \in A, r \in E : O[<<all, r>>] = Add(all, r)
  BY <1>1
<1> HIDE DEF O
<1>6. ASSUME NEW s \in SUBSET DOMAIN results, s # {}
      PROVE  results[Max(s)] \in E /\ s \ {Max(s)} \in SUBSET DOMAIN results
  BY <1>4, <1>6, LastIsThere
<1>7. Runs(it)
  <2>1. PICK i : IsFold(i, A, O, <<>>, results)
    BY <1>3, <1>4, <1>5, FoldExists
  <2>2. ASSUME NEW s \in SUBSET DOMAIN results
        PROVE  i[s] = IF s = {} THEN <<>> ELSE Add(i[s \ {Max(s)}], results[Max(s)])
    <3>1. CASE s = {}
      BY <2>1, <3>1 DEF IsFold
    <3>2. CASE s # {}
      <4>1. i[s \ {Max(s)}] \in A /\ results[Max(s)] \in E
        BY <1>6, <2>1, <3>2 DEF IsFold
      <4> QED BY <1>5, <2>1, <3>2, <4>1 DEF IsFold
    <3> QED BY <3>1, <3>2
  <2>3. Runs(i)
    BY <2>1, <2>2 DEF IsFold
  <2> HIDE DEF Runs
  <2> QED BY <2>3
<1> HIDE DEF it
<1>8. Folds(it, A, O, <<>>, results)
  <2>1. it[{}] = <<>>
    BY <1>7
  <2>2. ASSUME NEW s \in SUBSET DOMAIN results, s # {}, it[s \ {Max(s)}] \in A
        PROVE  it[s] = O[<<it[s \ {Max(s)}], results[Max(s)]>>]
    <3>1. it[s] = Add(it[s \ {Max(s)}], results[Max(s)])
      BY <1>7, <2>2
    <3> QED BY <1>5, <1>6, <2>2, <3>1
  <2> QED BY <2>1, <2>2 DEF Folds
<1>9. PICK g : AreSteps(g, A, O, <<>>, results, it[DOMAIN results])
  BY <1>3, <1>4, <1>5, <1>8, FoldSteps
<1>10. Len(results) \in Nat /\ \A i \in 1 .. Len(results) : results[i] \in E
  BY <1>4, LenProperties
<1>11. ASSUME NEW i \in 1 .. Len(results) PROVE g[i] = MergePresets(g[i - 1], results[i].body)
  <2>1. i - 1 \in 0 .. Len(results) /\ results[i] \in E /\ g \in [0 .. Len(results) -> A]
    BY <1>9, <1>10 DEF AreSteps
  <2>2. g[i - 1] \in A
    BY <2>1
  <2>3. g[i] = O[<<g[i - 1], results[i]>>]
    BY <1>9 DEF AreSteps
  <2> QED BY <1>5, <2>1, <2>2, <2>3 DEF Add
<1>12. AreMerged(g, results, Merged(results))
  BY <1>2, <1>9, <1>11 DEF AreSteps, AreMerged
<1> QED BY <1>12

\* The merge of a row says of a field what the last says that says something.
LEMMA MergeAllSays ==
    ASSUME NEW results, IsChain(results), NEW p
    PROVE  /\ MergeAll(results).ok <=> \A i \in DOMAIN results : results[i].ok
           /\ MergeAll(results).ok =>
                 Word(MergeAll(results).body, p) = LastSaid([i \in DOMAIN results |-> Word(results[i].body, p)])
<1>1. /\ MergeAll(results) = IF \A i \in DOMAIN results : results[i].ok
                             THEN [ok |-> TRUE, body |-> Merged(results)] ELSE [ok |-> FALSE, body |-> <<>>]
  BY DEF MergeAll, Merged, Got, Threw
<1>2. PICK g : AreMerged(g, results, Merged(results))
  BY MergedSteps
<1> DEFINE n == Len(results)
           ws == [i \in 1 .. n |-> Word(results[i].body, p)]
           So(i) == LastSaid([k \in 1 .. i |-> ws[k]])
           I == {i \in 0 .. n : Word(g[i], p) = So(i)}
<1>3. n \in Nat /\ DOMAIN results = 1 .. n
  BY ChainFacts
<1>4. 0 \in I
  <2>1. Word(<<>>, p) = {}
    BY DEF Word
  <2>2. So(0) = {}
    BY DEF LastSaid
  <2>3. g[0] = <<>> /\ 0 \in 0 .. n
    BY <1>2, <1>3 DEF AreMerged
  <2> HIDE DEF So
  <2> QED BY <2>1, <2>2, <2>3
<1>5. ASSUME NEW i \in 0 .. n - 1, i \in I PROVE i + 1 \in I
  <2>1. i + 1 \in 1 .. n /\ i + 1 \in 0 .. n /\ (i + 1) - 1 = i
    BY <1>3
  <2>2. g[i + 1] = MergePresets(g[i], results[i + 1].body)
    BY <1>2, <2>1 DEF AreMerged
  <2>3. So(i + 1) = IF ws[i + 1] # {} THEN ws[i + 1] ELSE So(i)
    <3> DEFINE j == i + 1
    <3>1. j \in 1 .. n /\ j - 1 = i /\ DOMAIN ws = 1 .. n
      BY <2>1
    <3> HIDE DEF j, ws
    <3>2. So(j) = IF ws[j] # {} THEN ws[j] ELSE So(j - 1)
      BY <1>3, <3>1, LastOfMore
    <3> QED BY <3>1, <3>2 DEF j
  <2>4. ws[i + 1] = Word(results[i + 1].body, p)
    BY <2>1
  <2>5. Word(g[i], p) = So(i)
    BY <1>5
  <2> HIDE DEF ws, So
  <2>6. Word(g[i + 1], p) = So(i + 1)
    BY <2>2, <2>3, <2>4, <2>5, MergedSays
  <2> QED BY <2>1, <2>6
<1>6. n \in I
  <2> HIDE DEF I
  <2>1. \A i \in 0 .. n : i \in I
    BY <1>3, <1>4, <1>5, UpTo
  <2> QED BY <1>3, <2>1
<1>7. So(n) = LastSaid(ws)
  <2>1. [k \in 1 .. n |-> ws[k]] = ws
    OBVIOUS
  <2> QED BY <2>1
<1>8. Word(Merged(results), p) = LastSaid([i \in DOMAIN results |-> Word(results[i].body, p)])
  BY <1>2, <1>3, <1>6, <1>7 DEF AreMerged
<1> QED BY <1>1, <1>8

-----------------------------------------------------------------------------
(* The presets of a directory.                                             *)

\* What v, a local preset and those above it, extends, as far as f has resolved.
Extended(f, files, v) ==
    [i \in DOMAIN files[v[1]].extends |->
        LET n == files[v[1]].extends[i]
        IN  IF n \in DOMAIN files THEN f[<<n, v[2] \cup {v[1]}>>]
            ELSE IF n \in DOMAIN Builtin THEN Got(Builtin[n]) ELSE Threw]

\* What v comes to.
Resolution(f, files, v) ==
    LET base == MergeAll(Extended(f, files, v))
    IN  IF v[1] \in v[2] THEN Threw
        ELSE IF base.ok THEN Got(MergePresets(base.body, files[v[1]].own)) ELSE Threw

Places(files) == (DOMAIN files) \X SUBSET DOMAIN files

\* f resolves all of them.
Resolves(f, files) == f = [v \in Places(files) |-> Resolution(f, files, v)]

\* resolveOne() resolves each local preset with none above it.
LEMMA ResolvedAlone ==
    ASSUME NEW files
    PROVE  ResolveOne(files) = [n \in DOMAIN files |-> (CHOOSE f : Resolves(f, files))[<<n, {}>>]]
  BY DEF ResolveOne, Resolves, Resolution, Extended, Places

\* It resolves what v extends, with v above it, and nothing else.
LEMMA ResolvedBelow ==
    ASSUME NEW files, NEW v \in Places(files), NEW f, NEW g,
           v[1] \in v[2] \/ \A n \in DOMAIN files : f[<<n, v[2] \cup {v[1]}>>] = g[<<n, v[2] \cup {v[1]}>>]
    PROVE  Resolution(f, files, v) = Resolution(g, files, v)
<1>1. CASE v[1] \in v[2]
  BY <1>1 DEF Resolution
<1>2. CASE v[1] \notin v[2]
  <2>1. Extended(f, files, v) = Extended(g, files, v)
    BY <1>2 DEF Extended
  <2> QED BY <2>1 DEF Resolution
<1> QED BY <1>1, <1>2

\* So there is such an f: the presets above grow in number, up to those there are.
LEMMA ResolutionExists ==
    ASSUME NEW files, IsFiniteSet(DOMAIN files)
    PROVE  \E f : Resolves(f, files)
<1> DEFINE D == DOMAIN files
           P == Places(files)
           room == [v \in P |-> Cardinality(D \ v[2])]
           n == Cardinality(D)
           Upto(f, k) == \A v \in P : room[v] <= k => f[v] = Resolution(f, files, v)
           I == {k \in 0 .. n : \E f : Upto(f, k)}
<1>1. n \in Nat
  BY FS_CardinalityType
<1>2. ASSUME NEW v \in P
      PROVE  room[v] \in 0 .. n
  <2>1. v[2] \in SUBSET D
    BY DEF Places
  <2>2. IsFiniteSet(D \ v[2]) /\ D \ v[2] \in SUBSET D
    BY FS_Subset
  <2>3. Cardinality(D \ v[2]) \in Nat /\ Cardinality(D \ v[2]) <= n
    BY <2>2, FS_Subset, FS_CardinalityType
  <2> QED BY <1>1, <2>3
<1>3. ASSUME NEW v \in P, v[1] \notin v[2], NEW m \in D
      PROVE  <<m, v[2] \cup {v[1]}>> \in P /\ room[<<m, v[2] \cup {v[1]}>>] < room[v]
  <2> DEFINE A == v[2] \cup {v[1]}
             w == <<m, A>>
  <2>1. v[1] \in D /\ v[2] \in SUBSET D
    BY DEF Places
  <2>2. w \in P /\ w[2] = A
    BY <2>1 DEF Places
  <2>3. /\ IsFiniteSet(D \ v[2]) /\ v[1] \in D \ v[2] /\ D \ A = (D \ v[2]) \ {v[1]}
    <3>1. IsFiniteSet(D \ v[2])
      BY FS_Subset
    <3> QED BY <1>3, <2>1, <3>1
  <2>4. Cardinality(D \ A) = Cardinality(D \ v[2]) - 1
    <3> DEFINE S == D \ v[2]
               x == v[1]
    <3>1. IsFiniteSet(S) /\ x \in S /\ D \ A = S \ {x}
      BY <2>3
    <3> HIDE DEF S, x, D, A
    <3>2. Cardinality(S \ {x}) = Cardinality(S) - 1
      BY <3>1, FS_RemoveElement
    <3>3. Cardinality(D \ A) = Cardinality(S) - 1
      BY <3>1, <3>2
    <3> QED BY <3>3 DEF S
  <2>5. room[w] = Cardinality(D \ A) /\ room[v] = Cardinality(D \ v[2])
    BY <2>2
  <2>6. room[v] \in 0 .. n
    BY <1>2
  <2> HIDE DEF room
  <2> QED BY <1>1, <2>2, <2>4, <2>5, <2>6
<1> HIDE DEF P, D, room, n
<1>4. ASSUME NEW f, NEW k \in 0 .. n, NEW g,
             \A v \in P : room[v] < k => g[v] = f[v],
             \A v \in P : room[v] <= k => g[v] = Resolution(f, files, v)
      PROVE  Upto(g, k)
  <2> SUFFICES ASSUME NEW v \in P, room[v] <= k PROVE g[v] = Resolution(g, files, v)
    OBVIOUS
  <2>1. v[1] \in v[2] \/ \A m \in DOMAIN files : f[<<m, v[2] \cup {v[1]}>>] = g[<<m, v[2] \cup {v[1]}>>]
    <3> SUFFICES ASSUME v[1] \notin v[2], NEW m \in DOMAIN files
                 PROVE  f[<<m, v[2] \cup {v[1]}>>] = g[<<m, v[2] \cup {v[1]}>>]
      OBVIOUS
    <3> DEFINE w == <<m, v[2] \cup {v[1]}>>
    <3>1. w \in P /\ room[w] < room[v] /\ room[w] \in 0 .. n /\ room[v] \in 0 .. n
      BY <1>2, <1>3 DEF D
    <3> HIDE DEF w
    <3>2. room[w] < k
      BY <1>1, <3>1
    <3>3. f[w] = g[w]
      BY <1>4, <3>1, <3>2
    <3> QED BY <3>3 DEF w
  <2>2. Resolution(f, files, v) = Resolution(g, files, v)
    BY <2>1, ResolvedBelow DEF P
  <2> QED BY <1>4, <2>2
<1>5. 0 \in I
  <2> DEFINE f == [v \in P |-> Threw]
             g == [v \in P |-> Resolution(f, files, v)]
  <2>1. 0 \in 0 .. n /\ \A v \in P : room[v] >= 0
    BY <1>1, <1>2
  <2>2. \A v \in P : ~(room[v] < 0)
    BY <1>1, <1>2
  <2>3. \A v \in P : g[v] = Resolution(f, files, v)
    OBVIOUS
  <2> HIDE DEF f, g, Upto
  <2>4. Upto(g, 0)
    BY <1>4, <2>1, <2>2, <2>3
  <2> QED BY <2>1, <2>4
<1>6. ASSUME NEW k \in 0 .. n - 1, k \in I PROVE k + 1 \in I
  <2>1. PICK f : Upto(f, k)
    BY <1>6
  <2> DEFINE g == [v \in P |-> Resolution(f, files, v)]
  <2>2. k + 1 \in 0 .. n
    BY <1>1
  <2>3. \A v \in P : g[v] = Resolution(f, files, v)
    OBVIOUS
  <2> HIDE DEF g
  <2>4. ASSUME NEW v \in P, room[v] < k + 1 PROVE g[v] = f[v]
    <3>1. room[v] <= k
      BY <1>1, <1>2, <2>4
    <3> QED BY <2>1, <2>3, <3>1
  <2> HIDE DEF Upto
  <2>5. Upto(g, k + 1)
    BY <1>4, <2>2, <2>3, <2>4
  <2> QED BY <2>2, <2>5
<1>7. n \in I
  <2> HIDE DEF I
  <2>1. \A k \in 0 .. n : k \in I
    BY <1>1, <1>5, <1>6, UpTo
  <2> QED BY <1>1, <2>1
<1>8. PICK f : Upto(f, n)
  BY <1>7
<1> DEFINE g == [v \in P |-> Resolution(f, files, v)]
<1>9. \A v \in P : g[v] = Resolution(f, files, v) /\ f[v] = Resolution(f, files, v)
  <2>1. \A v \in P : room[v] <= n
    BY <1>1, <1>2
  <2> QED BY <1>8, <2>1
<1>10. Upto(g, n)
  <2> HIDE DEF g, Upto
  <2>1. n \in 0 .. n /\ \A v \in P : g[v] = f[v]
    BY <1>1, <1>9
  <2> QED BY <1>4, <1>9, <2>1
<1>11. ASSUME NEW v \in P PROVE g[v] = Resolution(g, files, v)
  <2>1. room[v] <= n
    BY <1>1, <1>2
  <2> HIDE DEF g
  <2> QED BY <1>10, <2>1
<1>12. g = [v \in P |-> Resolution(g, files, v)]
  <2>1. g = [v \in P |-> g[v]]
    OBVIOUS
  <2> HIDE DEF g
  <2>2. [v \in P |-> g[v]] = [v \in P |-> Resolution(g, files, v)]
    BY <1>11
  <2> QED BY <2>1, <2>2
<1>13. Resolves(g, files)
  BY <1>12 DEF Resolves, P
<1> QED BY <1>13

\* A function on the places of a list is a list.
LEMMA ListOfPlaces ==
    ASSUME NEW s, IsChain(s), NEW t, t = [i \in DOMAIN s |-> t[i]]
    PROVE  IsChain(t) /\ DOMAIN t = DOMAIN s
<1> DEFINE n == Len(s)
           T == ToSet(t)
<1>1. n \in Nat /\ DOMAIN s = 1 .. n
  BY ChainFacts
<1> HIDE DEF n
<1>2. DOMAIN t = 1 .. n /\ \A i \in 1 .. n : t[i] \in T
  BY <1>1 DEF ToSet
<1> HIDE DEF T
<1>3. [i \in 1 .. n |-> t[i]] \in Seq(T)
  BY <1>1, <1>2, IsASeq
<1>4. t = [i \in 1 .. n |-> t[i]]
  BY <1>1
<1>5. t \in Seq(T)
  BY <1>3, <1>4
<1> QED BY <1>1, <1>2, <1>5 DEF IsChain, T

\* The resolution of local presets.
Resolving(files) == CHOOSE f : Resolves(f, files)

\* A finite number of files, each with a list of what it extends.
Loadable(files) == IsFiniteSet(DOMAIN files) /\ \A n \in DOMAIN files : IsChain(files[n].extends)

\* What n extends is known, and resolved below n and what is above it.
IsKnown(files, A, n) ==
    \A i \in DOMAIN files[n].extends :
        LET m == files[n].extends[i]
        IN  \/ m \in DOMAIN files /\ Resolving(files)[<<m, A \cup {n}>>].ok
            \/ m \notin DOMAIN files /\ m \in DOMAIN Builtin

\* A preset that is resolved does not stand above itself; what it extends is known; and
\* it says of a field what its own fields say, else what it extends.
LEMMA ResolvedTells ==
    ASSUME NEW files, Loadable(files), NEW n \in DOMAIN files, NEW A \in SUBSET DOMAIN files,
           Resolving(files)[<<n, A>>].ok, NEW p
    PROVE  /\ n \notin A /\ IsKnown(files, A, n)
           /\ Word(Resolving(files)[<<n, A>>].body, p)
                = IF Word(files[n].own, p) # {} THEN Word(files[n].own, p)
                  ELSE LastSaid([i \in DOMAIN files[n].extends |->
                                    Word(Extended(Resolving(files), files, <<n, A>>)[i].body, p)])
<1> DEFINE one == Resolving(files)
           v == <<n, A>>
           ext == files[n].extends
           results == Extended(one, files, v)
           base == MergeAll(results)
<1>1. Resolves(one, files)
  <2>1. \E f : Resolves(f, files)
    BY ResolutionExists DEF Loadable
  <2> QED BY <2>1 DEF Resolving
<1>2. one[v] = Resolution(one, files, v)
  <2>1. v \in Places(files)
    BY DEF Places
  <2> HIDE DEF v
  <2> QED BY <1>1, <2>1 DEF Resolves
<1>3. v[1] = n /\ v[2] = A
  OBVIOUS
<1>4. Threw.ok = FALSE /\ \A body : Got(body).ok = TRUE /\ Got(body).body = body
  BY DEF Threw, Got
<1>5. /\ n \notin A /\ base.ok
      /\ one[v].body = MergePresets(base.body, files[n].own)
  <2> HIDE DEF one, v
  <2>1. one[v].ok
    BY DEF one, v
  <2>2. one[v] = IF n \in A THEN Threw
                 ELSE IF base.ok THEN Got(MergePresets(base.body, files[n].own)) ELSE Threw
    BY <1>2, <1>3 DEF Resolution
  <2> HIDE DEF base
  <2> QED BY <1>4, <2>1, <2>2
<1>6. IsChain(ext) /\ results = [i \in DOMAIN ext |-> results[i]] /\ DOMAIN results = DOMAIN ext
      /\ \A i \in DOMAIN ext :
            results[i] = IF ext[i] \in DOMAIN files THEN one[<<ext[i], A \cup {n}>>]
                         ELSE IF ext[i] \in DOMAIN Builtin THEN Got(Builtin[ext[i]]) ELSE Threw
  BY <1>3 DEF Extended, Loadable
<1> HIDE DEF results
<1>7. IsChain(results)
  BY <1>6, ListOfPlaces
<1>8. /\ \A i \in DOMAIN results : results[i].ok
      /\ Word(base.body, p) = LastSaid([i \in DOMAIN results |-> Word(results[i].body, p)])
  BY <1>5, <1>7, MergeAllSays
<1>9. IsKnown(files, A, n)
  <2> SUFFICES ASSUME NEW i \in DOMAIN ext
               PROVE  \/ ext[i] \in DOMAIN files /\ one[<<ext[i], A \cup {n}>>].ok
                      \/ ext[i] \notin DOMAIN files /\ ext[i] \in DOMAIN Builtin
    BY DEF IsKnown
  <2>1. results[i].ok
    BY <1>6, <1>8
  <2> HIDE DEF one, ext
  <2> QED BY <1>4, <1>6, <2>1
<1>10. Word(one[v].body, p) = IF Word(files[n].own, p) # {} THEN Word(files[n].own, p) ELSE Word(base.body, p)
  BY <1>5, MergedSays
<1>11. [i \in DOMAIN results |-> Word(results[i].body, p)] = [i \in DOMAIN ext |-> Word(results[i].body, p)]
  BY <1>6
<1>12. Word(one[v].body, p) = IF Word(files[n].own, p) # {} THEN Word(files[n].own, p)
                              ELSE LastSaid([i \in DOMAIN ext |-> Word(results[i].body, p)])
  BY <1>8, <1>10, <1>11
<1> QED BY <1>5, <1>9, <1>12 DEF results

\* The local presets are loaded: none of them threw.
LEMMA LoadedTells ==
    ASSUME NEW dir, Loadable(dir.files), LoadLocal(dir).ok
    PROVE  /\ ~dir.broken /\ DOMAIN LoadLocal(dir).body = DOMAIN dir.files
           /\ \A n \in DOMAIN dir.files : /\ Resolving(dir.files)[<<n, {}>>].ok
                                          /\ LoadLocal(dir).body[n] = Resolving(dir.files)[<<n, {}>>].body
<1> DEFINE files == dir.files
           one == Resolving(files)
           resolved == ResolveOne(files)
<1>1. resolved = [n \in DOMAIN files |-> one[<<n, {}>>]]
  BY ResolvedAlone DEF Resolving
<1>2. LoadLocal(dir) = IF dir.broken \/ \E n \in DOMAIN resolved : ~resolved[n].ok THEN Threw
                       ELSE Got([n \in DOMAIN resolved |-> resolved[n].body])
  BY DEF LoadLocal
<1> HIDE DEF resolved, one
<1>3. ~(dir.broken \/ \E n \in DOMAIN resolved : ~resolved[n].ok)
  BY <1>2 DEF Threw
<1>4. LoadLocal(dir).body = [n \in DOMAIN resolved |-> resolved[n].body]
  BY <1>2, <1>3 DEF Got
<1> QED BY <1>1, <1>3, <1>4 DEF one

\* Presets that are loaded do not extend each other in a circle: what is above a
\* preset is found again below it in any circle, and that throws.
LEMMA LoadedIsSound ==
    ASSUME NEW dir, Loadable(dir.files), LoadLocal(dir).ok
    PROVE  Sound(dir)
<1> DEFINE files == dir.files
           D == DOMAIN files
           one == Resolving(files)
           Ext(n) == ToSet(files[n].extends)
           Downward(S) == \A k \in S : Ext(k) \cap D \subseteq S
           Reach(n) == {m \in D : \A S \in SUBSET D : n \in S /\ Downward(S) => m \in S}
           c == Cardinality(D)
           rank == [n \in D |-> Cardinality(Reach(n))]
<1>1. ~dir.broken /\ \A n \in D : one[<<n, {}>>].ok
  BY LoadedTells
<1>2. ASSUME NEW n \in D, NEW A \in SUBSET D, one[<<n, A>>].ok
      PROVE  n \notin A /\ Ext(n) \subseteq D \cup DOMAIN Builtin
             /\ \A m \in Ext(n) \cap D : one[<<m, A \cup {n}>>].ok
  <2>1. n \notin A /\ IsKnown(files, A, n)
    BY <1>2, ResolvedTells
  <2>2. \A m \in Ext(n) : \E i \in DOMAIN files[n].extends : m = files[n].extends[i]
    BY ChainFacts DEF Loadable
  <2>3. ASSUME NEW m \in Ext(n)
        PROVE  \/ m \in D /\ one[<<m, A \cup {n}>>].ok
               \/ m \notin D /\ m \in DOMAIN Builtin
    <3>1. PICK i \in DOMAIN files[n].extends : m = files[n].extends[i]
      BY <2>2
    <3> QED BY <2>1, <3>1 DEF IsKnown
  <2> HIDE DEF Ext, D, one
  <2> QED BY <2>1, <2>3
<1>3. ASSUME NEW n \in D PROVE Ext(n) \subseteq D \cup DOMAIN Builtin
  <2>1. {} \in SUBSET D
    OBVIOUS
  <2> QED BY <1>1, <1>2, <2>1
<1>4. IsFiniteSet(D) /\ c \in Nat
  BY FS_CardinalityType DEF Loadable
<1>5. ASSUME NEW n \in D PROVE n \in Reach(n) /\ rank[n] \in 1 .. c
  <2>1. n \in Reach(n) /\ Reach(n) \in SUBSET D
    OBVIOUS
  <2> DEFINE R == Reach(n)
  <2> HIDE DEF R, D
  <2>2. IsFiniteSet(R) /\ Cardinality(R) \in Nat /\ Cardinality(R) <= c
    BY <1>4, <2>1, FS_Subset, FS_CardinalityType DEF R
  <2>3. Cardinality(R) # 0
    BY <2>1, <2>2, FS_EmptySet DEF R
  <2> QED BY <1>4, <2>1, <2>2, <2>3 DEF R
<1>6. ASSUME NEW n \in D, NEW m \in Ext(n) \cap D PROVE rank[m] < rank[n]
  <2>1. Reach(m) \subseteq Reach(n)
    <3> SUFFICES ASSUME NEW k \in Reach(m), NEW S \in SUBSET D, n \in S, Downward(S) PROVE k \in S
      OBVIOUS
    <3>1. m \in S
      BY <1>6
    <3> QED BY <3>1
  <2> DEFINE S == {k \in D : \E A \in SUBSET D : n \in A /\ one[<<k, A>>].ok}
  <2>2. Downward(S)
    <3> SUFFICES ASSUME NEW k \in S, NEW j \in Ext(k) \cap D PROVE j \in S
      OBVIOUS
    <3>1. PICK A \in SUBSET D : n \in A /\ one[<<k, A>>].ok
      OBVIOUS
    <3>2. one[<<j, A \cup {k}>>].ok
      BY <1>2, <3>1
    <3>3. A \cup {k} \in SUBSET D /\ n \in A \cup {k}
      BY <3>1
    <3> HIDE DEF one, Ext
    <3> QED BY <3>2, <3>3
  <2>3. m \in S
    <3>1. {} \in SUBSET D
      OBVIOUS
    <3>2. one[<<m, {} \cup {n}>>].ok
      BY <1>1, <1>2, <1>6, <3>1
    <3>3. {n} \in SUBSET D /\ n \in {n} /\ {} \cup {n} = {n}
      OBVIOUS
    <3>4. one[<<m, {n}>>].ok
      BY <3>2, <3>3
    <3> HIDE DEF one, Ext
    <3> QED BY <1>6, <3>3, <3>4
  <2>4. n \notin S
    <3> SUFFICES ASSUME NEW A \in SUBSET D, n \in A, one[<<n, A>>].ok PROVE FALSE
      OBVIOUS
    <3> QED BY <1>2
  <2>5. n \notin Reach(m)
    BY <2>2, <2>3, <2>4
  <2>6. n \in Reach(n) /\ Reach(n) \in SUBSET D /\ Reach(m) \subseteq Reach(n) \ {n}
    BY <1>5, <2>1, <2>5
  <2> DEFINE R == Reach(n)
             Q == Reach(m)
  <2>7. rank[n] = Cardinality(R) /\ rank[m] = Cardinality(Q)
    OBVIOUS
  <2> HIDE DEF R, Q, D, rank
  <2>8. IsFiniteSet(R) /\ n \in R /\ Q \in SUBSET (R \ {n})
    BY <1>4, <2>6, FS_Subset DEF R, Q
  <2>9. IsFiniteSet(R \ {n}) /\ Cardinality(R \ {n}) = Cardinality(R) - 1
    BY <2>8, FS_RemoveElement
  <2>10. Cardinality(Q) <= Cardinality(R \ {n}) /\ Cardinality(R) \in Nat /\ Cardinality(Q) \in Nat
    BY <2>8, <2>9, FS_Subset, FS_CardinalityType
  <2> QED BY <2>7, <2>9, <2>10
<1>7. rank \in [D -> 1 .. c]
  <2> HIDE DEF Reach, c
  <2> QED BY <1>5
<1> HIDE DEF rank, one
<1> QED BY <1>1, <1>3, <1>6, <1>7 DEF Sound

-----------------------------------------------------------------------------
(* What a chain says, field by field.                                      *)

\* What the name n says of p, if the local presets say what s has of them.
NameSays(s, files, n, p) == IF n \in DOMAIN files THEN s[n] ELSE Word(Builtin[n], p)

ListSays(s, files, names, p) == LastSaid([i \in DOMAIN names |-> NameSays(s, files, names[i], p)])

\* What the local preset n says.
PresetSays(s, files, n, p) ==
    IF p \in DOMAIN files[n].own THEN Word(files[n].own, p) ELSE ListSays(s, files, files[n].extends, p)

Speaks(s, files, p) == s = [n \in DOMAIN files |-> PresetSays(s, files, n, p)]

Voice(files, p) == CHOOSE s : Speaks(s, files, p)

\* A chain says what its names say, in turn.
LEMMA SaysByName ==
    ASSUME NEW files, NEW chain, NEW p
    PROVE  Says(files, chain, p) = ListSays(Voice(files, p), files, chain, p)
  BY DEF Says, ListSays, NameSays, Voice, Speaks, PresetSays

\* The local presets in an order in which each comes after those it extends.
IsRanked(rank, files) ==
    /\ rank \in [DOMAIN files -> 1 .. Cardinality(DOMAIN files)]
    /\ \A n \in DOMAIN files : \A m \in ToSet(files[n].extends) \cap DOMAIN files : rank[m] < rank[n]

\* A preset says what those it extends say, and nothing else.
LEMMA SaysBelow ==
    ASSUME NEW files, Loadable(files), NEW n \in DOMAIN files, NEW p, NEW s, NEW t,
           \A m \in ToSet(files[n].extends) \cap DOMAIN files : s[m] = t[m]
    PROVE  PresetSays(s, files, n, p) = PresetSays(t, files, n, p)
<1> DEFINE ext == files[n].extends
<1>1. \A i \in DOMAIN ext : ext[i] \in ToSet(ext)
  BY ChainFacts DEF Loadable
<1>2. ASSUME NEW i \in DOMAIN ext PROVE NameSays(s, files, ext[i], p) = NameSays(t, files, ext[i], p)
  BY <1>1 DEF NameSays
<1>3. [i \in DOMAIN ext |-> NameSays(s, files, ext[i], p)] = [i \in DOMAIN ext |-> NameSays(t, files, ext[i], p)]
  BY <1>2
<1>4. ListSays(s, files, ext, p) = ListSays(t, files, ext, p)
  BY <1>3 DEF ListSays
<1> QED BY <1>4 DEF PresetSays

\* So in such an order it is settled what each says.
LEMMA VoiceExists ==
    ASSUME NEW files, Loadable(files), NEW rank, IsRanked(rank, files), NEW p
    PROVE  \E s : Speaks(s, files, p)
<1> DEFINE D == DOMAIN files
           c == Cardinality(D)
           Upto(s, k) == \A n \in D : rank[n] <= k => s[n] = PresetSays(s, files, n, p)
           I == {k \in 0 .. c : \E s : Upto(s, k)}
<1>1. c \in Nat /\ \A n \in D : rank[n] \in 1 .. c
  <2>1. c \in Nat
    BY FS_CardinalityType DEF Loadable
  <2> QED BY <2>1 DEF IsRanked
<1>2. \A n \in D : \A m \in ToSet(files[n].extends) \cap D : rank[m] < rank[n]
  BY DEF IsRanked
<1>3. \A s, t : \A n \in D : (\A m \in ToSet(files[n].extends) \cap D : s[m] = t[m])
                               => PresetSays(s, files, n, p) = PresetSays(t, files, n, p)
  BY SaysBelow
<1> HIDE DEF D, c
<1>4. ASSUME NEW s, NEW k \in 0 .. c, NEW t,
             \A n \in D : rank[n] < k => t[n] = s[n],
             \A n \in D : rank[n] <= k => t[n] = PresetSays(s, files, n, p)
      PROVE  Upto(t, k)
  <2> SUFFICES ASSUME NEW n \in D, rank[n] <= k PROVE t[n] = PresetSays(t, files, n, p)
    OBVIOUS
  <2>1. ASSUME NEW m \in ToSet(files[n].extends) \cap D PROVE s[m] = t[m]
    <3>1. rank[m] < rank[n] /\ rank[m] \in 1 .. c /\ rank[n] \in 1 .. c
      BY <1>1, <1>2
    <3>2. rank[m] < k
      BY <1>1, <3>1
    <3> QED BY <1>4, <3>2
  <2>2. PresetSays(s, files, n, p) = PresetSays(t, files, n, p)
    BY <1>3, <2>1
  <2> QED BY <1>4, <2>2
<1>5. 0 \in I
  <2> DEFINE t == [n \in D |-> {}]
  <2>1. Upto(t, 0)
    BY <1>1
  <2> HIDE DEF t, Upto
  <2> QED BY <1>1, <2>1
<1>6. ASSUME NEW k \in 0 .. c - 1, k \in I PROVE k + 1 \in I
  <2>1. PICK s : Upto(s, k)
    BY <1>6
  <2> DEFINE t == [n \in D |-> PresetSays(s, files, n, p)]
  <2>2. k + 1 \in 0 .. c
    BY <1>1
  <2>3. \A n \in D : t[n] = PresetSays(s, files, n, p)
    OBVIOUS
  <2> HIDE DEF t
  <2>4. ASSUME NEW n \in D, rank[n] < k + 1 PROVE t[n] = s[n]
    <3>1. rank[n] <= k
      BY <1>1, <2>4
    <3> QED BY <2>1, <2>3, <3>1
  <2> HIDE DEF Upto
  <2>5. Upto(t, k + 1)
    BY <1>4, <2>2, <2>3, <2>4
  <2> QED BY <2>2, <2>5
<1>7. c \in I
  <2> HIDE DEF I
  <2>1. \A k \in 0 .. c : k \in I
    BY <1>1, <1>5, <1>6, UpTo
  <2> QED BY <1>1, <2>1
<1>8. PICK s : Upto(s, c)
  BY <1>7
<1> DEFINE t == [n \in D |-> PresetSays(s, files, n, p)]
<1>9. \A n \in D : t[n] = PresetSays(s, files, n, p) /\ s[n] = PresetSays(s, files, n, p)
  <2>1. \A n \in D : rank[n] <= c
    BY <1>1
  <2> QED BY <1>8, <2>1
<1>10. Upto(t, c)
  <2> HIDE DEF t, Upto
  <2>1. c \in 0 .. c /\ \A n \in D : t[n] = s[n]
    BY <1>1, <1>9
  <2> QED BY <1>4, <1>9, <2>1
<1>11. ASSUME NEW n \in D PROVE t[n] = PresetSays(t, files, n, p)
  <2>1. rank[n] <= c
    BY <1>1
  <2> HIDE DEF t
  <2> QED BY <1>10, <2>1
<1>12. t = [n \in D |-> PresetSays(t, files, n, p)]
  <2>1. t = [n \in D |-> t[n]]
    OBVIOUS
  <2> HIDE DEF t
  <2>2. [n \in D |-> t[n]] = [n \in D |-> PresetSays(t, files, n, p)]
    BY <1>11
  <2> QED BY <2>1, <2>2
<1>13. Speaks(t, files, p)
  BY <1>12 DEF Speaks, D
<1> QED BY <1>13

\* What a preset is resolved to says of a field what the preset says.
LEMMA ResolvedSays ==
    ASSUME NEW files, Loadable(files), NEW rank, IsRanked(rank, files), NEW p,
           NEW n \in DOMAIN files, NEW A \in SUBSET DOMAIN files, Resolving(files)[<<n, A>>].ok
    PROVE  Word(Resolving(files)[<<n, A>>].body, p) = Voice(files, p)[n]
<1> DEFINE D == DOMAIN files
           c == Cardinality(D)
           one == Resolving(files)
           s == Voice(files, p)
           I == {k \in 0 .. c : \A m \in D : \A B \in SUBSET D :
                     rank[m] <= k /\ one[<<m, B>>].ok => Word(one[<<m, B>>].body, p) = s[m]}
<1>1. c \in Nat /\ \A m \in D : rank[m] \in 1 .. c
  <2>1. c \in Nat
    BY FS_CardinalityType DEF Loadable
  <2> QED BY <2>1 DEF IsRanked
<1>2. \A m \in D : \A j \in ToSet(files[m].extends) \cap D : rank[j] < rank[m]
  BY DEF IsRanked
<1>3. Speaks(s, files, p)
  <2>1. \E t : Speaks(t, files, p)
    BY VoiceExists
  <2> QED BY <2>1 DEF Voice
<1> HIDE DEF s, one
<1>4. ASSUME NEW k \in 0 .. c, NEW m \in D, NEW B \in SUBSET D, rank[m] <= k, one[<<m, B>>].ok,
             \A j \in D : \A C \in SUBSET D :
                rank[j] < k /\ one[<<j, C>>].ok => Word(one[<<j, C>>].body, p) = s[j]
      PROVE  Word(one[<<m, B>>].body, p) = s[m]
  <2> DEFINE ext == files[m].extends
             results == Extended(one, files, <<m, B>>)
  <2>1. /\ IsKnown(files, B, m)
        /\ Word(one[<<m, B>>].body, p)
             = IF Word(files[m].own, p) # {} THEN Word(files[m].own, p)
               ELSE LastSaid([i \in DOMAIN ext |-> Word(results[i].body, p)])
    <3>1. m \in DOMAIN files /\ B \in SUBSET DOMAIN files /\ Resolving(files)[<<m, B>>].ok
      BY <1>4 DEF one
    <3>2. /\ IsKnown(files, B, m)
          /\ Word(Resolving(files)[<<m, B>>].body, p)
               = IF Word(files[m].own, p) # {} THEN Word(files[m].own, p)
                 ELSE LastSaid([i \in DOMAIN files[m].extends |->
                                   Word(Extended(Resolving(files), files, <<m, B>>)[i].body, p)])
      <4> HIDE DEF I, D, c, ext, results
      <4>1. \A q : /\ m \notin B /\ IsKnown(files, B, m)
                   /\ Word(Resolving(files)[<<m, B>>].body, q)
                        = IF Word(files[m].own, q) # {} THEN Word(files[m].own, q)
                          ELSE LastSaid([i \in DOMAIN files[m].extends |->
                                            Word(Extended(Resolving(files), files, <<m, B>>)[i].body, q)])
        BY <3>1, ResolvedTells
      <4> QED BY <4>1
    <3> QED BY <3>2 DEF one
  <2>2. ASSUME NEW i \in DOMAIN ext
        PROVE  Word(results[i].body, p) = NameSays(s, files, ext[i], p)
    <3>1. results[i] = IF ext[i] \in D THEN one[<<ext[i], B \cup {m}>>]
                       ELSE IF ext[i] \in DOMAIN Builtin THEN Got(Builtin[ext[i]]) ELSE Threw
      BY DEF Extended
    <3>2. \/ ext[i] \in D /\ one[<<ext[i], B \cup {m}>>].ok
          \/ ext[i] \notin D /\ ext[i] \in DOMAIN Builtin
      BY <2>1 DEF IsKnown, one
    <3>3. ext[i] \in ToSet(ext)
      BY ChainFacts DEF Loadable
    <3>4. CASE ext[i] \in D
      <4> DEFINE j == ext[i]
                 C == B \cup {m}
      <4>1. rank[j] < rank[m] /\ rank[j] \in 1 .. c /\ rank[m] \in 1 .. c
        BY <1>1, <1>2, <3>3, <3>4
      <4>2. rank[j] < k
        BY <1>1, <1>4, <4>1
      <4>3. j \in D /\ C \in SUBSET D /\ one[<<j, C>>].ok
        BY <3>2, <3>4
      <4> HIDE DEF j, C
      <4>4. Word(one[<<j, C>>].body, p) = s[j]
        BY <1>4, <4>2, <4>3
      <4> QED BY <3>1, <3>4, <4>4 DEF NameSays, j, C
    <3>5. CASE ext[i] \notin D
      <4>1. results[i] = Got(Builtin[ext[i]])
        BY <3>1, <3>2, <3>5
      <4> HIDE DEF results, ext
      <4> QED BY <3>5, <4>1 DEF NameSays, Got
    <3> QED BY <3>4, <3>5
  <2>3. LastSaid([i \in DOMAIN ext |-> Word(results[i].body, p)]) = ListSays(s, files, ext, p)
    <3>1. [i \in DOMAIN ext |-> Word(results[i].body, p)]
            = [i \in DOMAIN ext |-> NameSays(s, files, ext[i], p)]
      BY <2>2
    <3> QED BY <3>1 DEF ListSays
  <2>4. Word(files[m].own, p) # {} <=> p \in DOMAIN files[m].own
    BY DEF Word
  <2>5. s[m] = PresetSays(s, files, m, p)
    BY <1>3 DEF Speaks
  <2> HIDE DEF ext, results
  <2> QED BY <2>1, <2>3, <2>4, <2>5 DEF PresetSays, ext
<1>5. 0 \in I
  BY <1>1
<1>6. ASSUME NEW k \in 0 .. c - 1, k \in I PROVE k + 1 \in I
  <2>1. k + 1 \in 0 .. c
    BY <1>1
  <2>2. ASSUME NEW j \in D, NEW C \in SUBSET D, rank[j] < k + 1, one[<<j, C>>].ok
        PROVE  Word(one[<<j, C>>].body, p) = s[j]
    <3>1. rank[j] <= k
      BY <1>1, <2>2
    <3> QED BY <1>6, <2>2, <3>1
  <2>3. ASSUME NEW m \in D, NEW B \in SUBSET D, rank[m] <= k + 1, one[<<m, B>>].ok
        PROVE  Word(one[<<m, B>>].body, p) = s[m]
    <3> DEFINE l == k + 1
    <3>1. l \in 0 .. c /\ rank[m] <= l
      BY <2>1, <2>3
    <3>2. \A j \in D : \A C \in SUBSET D :
             rank[j] < l /\ one[<<j, C>>].ok => Word(one[<<j, C>>].body, p) = s[j]
      BY <2>2
    <3> HIDE DEF l, D
    <3> QED BY <1>4, <2>3, <3>1, <3>2
  <2> QED BY <2>1, <2>3
<1>7. c \in I
  <2> HIDE DEF I
  <2>1. \A k \in 0 .. c : k \in I
    BY <1>1, <1>5, <1>6, UpTo
  <2> QED BY <1>1, <2>1
<1>8. rank[n] <= c
  BY <1>1
<1>9. one[<<n, A>>].ok
  BY DEF one
<1> QED BY <1>7, <1>8, <1>9 DEF one, s

\* A chain that is resolved with loaded presets names known presets, and says of a
\* field what its names say.
LEMMA ChainSays ==
    ASSUME NEW dir, Loadable(dir.files), LoadLocal(dir).ok, NEW chain, IsChain(chain),
           ResolveChain(chain, LoadLocal(dir).body).ok
    PROVE  /\ ToSet(chain) \subseteq DOMAIN dir.files \cup DOMAIN Builtin
           /\ \A p : Word(ResolveChain(chain, LoadLocal(dir).body).body, p) = Says(dir.files, chain, p)
<1> DEFINE files == dir.files
           local == LoadLocal(dir).body
           results == [i \in DOMAIN chain |->
                         IF chain[i] \in DOMAIN local THEN Got(local[chain[i]])
                         ELSE IF chain[i] \in DOMAIN Builtin THEN Got(Builtin[chain[i]]) ELSE Threw]
<1>1. ResolveChain(chain, local) = IF IsInjective(chain) THEN MergeAll(results) ELSE Threw
  BY DEF ResolveChain
<1>2. DOMAIN local = DOMAIN files
      /\ \A n \in DOMAIN files : Resolving(files)[<<n, {}>>].ok /\ local[n] = Resolving(files)[<<n, {}>>].body
  BY LoadedTells
<1>3. PICK rank : IsRanked(rank, files)
  BY LoadedIsSound DEF Sound, IsRanked
<1>4. IsChain(results) /\ DOMAIN results = DOMAIN chain
  <2>1. results = [i \in DOMAIN chain |-> results[i]]
    OBVIOUS
  <2> HIDE DEF results
  <2> QED BY <2>1, ListOfPlaces
<1>5. \A i \in DOMAIN chain :
         results[i] = IF chain[i] \in DOMAIN local THEN Got(local[chain[i]])
                      ELSE IF chain[i] \in DOMAIN Builtin THEN Got(Builtin[chain[i]]) ELSE Threw
  OBVIOUS
<1> HIDE DEF results, local
<1>6. ResolveChain(chain, local) = MergeAll(results) /\ MergeAll(results).ok
  BY <1>1 DEF Threw, local
<1>7. \A i \in DOMAIN results : results[i].ok
  BY <1>4, <1>6, MergeAllSays
<1>8. ASSUME NEW i \in DOMAIN chain PROVE chain[i] \in DOMAIN files \cup DOMAIN Builtin
  BY <1>2, <1>4, <1>5, <1>7 DEF Threw
<1>9. ToSet(chain) \subseteq DOMAIN files \cup DOMAIN Builtin
  BY <1>8, ChainFacts
<1>10. ASSUME NEW p PROVE Word(ResolveChain(chain, local).body, p) = Says(files, chain, p)
  <2> DEFINE s == Voice(files, p)
  <2>1. ASSUME NEW i \in DOMAIN chain PROVE Word(results[i].body, p) = NameSays(s, files, chain[i], p)
    <3>1. CASE chain[i] \in DOMAIN files
      <4> DEFINE n == chain[i]
      <4>1. n \in DOMAIN files /\ {} \in SUBSET DOMAIN files /\ Resolving(files)[<<n, {}>>].ok
        BY <1>2, <3>1
      <4> HIDE DEF n
      <4>2. Word(local[n], p) = s[n]
        BY <1>2, <1>3, <4>1, ResolvedSays
      <4>3. results[i].body = local[n]
        <5>1. results[i] = Got(local[chain[i]])
          BY <1>2, <1>5, <3>1
        <5> QED BY <5>1 DEF Got, n
      <4> QED BY <3>1, <4>2, <4>3 DEF NameSays, n
    <3>2. CASE chain[i] \notin DOMAIN files
      <4>1. results[i].body = Builtin[chain[i]]
        <5>1. results[i] = Got(Builtin[chain[i]])
          BY <1>2, <1>5, <1>8, <3>2
        <5> QED BY <5>1 DEF Got
      <4> QED BY <3>2, <4>1 DEF NameSays
    <3> QED BY <3>1, <3>2
  <2>2. Word(MergeAll(results).body, p) = LastSaid([i \in DOMAIN results |-> Word(results[i].body, p)])
    BY <1>4, <1>6, MergeAllSays
  <2>3. [i \in DOMAIN results |-> Word(results[i].body, p)]
          = [i \in DOMAIN chain |-> NameSays(s, files, chain[i], p)]
    BY <1>4, <2>1
  <2>4. Word(MergeAll(results).body, p) = ListSays(s, files, chain, p)
    BY <2>2, <2>3 DEF ListSays
  <2> QED BY <1>6, <2>4, SaysByName
<1> QED BY <1>9, <1>10 DEF local

\* A local preset that is loaded says what it says by name.
LEMMA LocalSays ==
    ASSUME NEW dir, Loadable(dir.files), LoadLocal(dir).ok, NEW n \in DOMAIN dir.files, NEW p
    PROVE  /\ Word(LoadLocal(dir).body[n], p) = Voice(dir.files, p)[n]
           /\ Voice(dir.files, p)[n] = PresetSays(Voice(dir.files, p), dir.files, n, p)
<1> DEFINE files == dir.files
           s == Voice(files, p)
<1>1. Resolving(files)[<<n, {}>>].ok /\ LoadLocal(dir).body[n] = Resolving(files)[<<n, {}>>].body
  BY LoadedTells
<1>2. PICK rank : IsRanked(rank, files)
  BY LoadedIsSound DEF Sound, IsRanked
<1>3. {} \in SUBSET DOMAIN files
  OBVIOUS
<1>4. Word(Resolving(files)[<<n, {}>>].body, p) = s[n]
  BY <1>1, <1>2, <1>3, ResolvedSays
<1>5. Speaks(s, files, p)
  <2>1. \E t : Speaks(t, files, p)
    BY <1>2, VoiceExists
  <2> QED BY <2>1 DEF Voice
<1> HIDE DEF s
<1>6. s[n] = PresetSays(s, files, n, p)
  BY <1>5 DEF Speaks
<1> QED BY <1>1, <1>4, <1>6 DEF s

\* Two presets differ in a field if they do not say the same of it.
LEMMA DeltaSays ==
    ASSUME NEW a, NEW b, NEW fields
    PROVE  PresetDelta(a, b, fields) # {} <=> \E p \in fields : Word(a, p) # Word(b, p)
<1>1. \A preset, p : Word(preset, p) = IF p \in DOMAIN preset THEN {preset[p]} ELSE {}
  <2> SUFFICES ASSUME NEW preset, NEW p PROVE Word(preset, p) = IF p \in DOMAIN preset THEN {preset[p]} ELSE {}
    OBVIOUS
  <2>1. {p} \cap DOMAIN preset = IF p \in DOMAIN preset THEN {p} ELSE {}
    OBVIOUS
  <2> QED BY <2>1 DEF Word
<1>2. ASSUME NEW p \in fields PROVE p \in PresetDelta(a, b, fields) <=> Word(a, p) # Word(b, p)
  <2>1. p \in PresetDelta(a, b, fields) <=>
          /\ p \in DOMAIN a \cup DOMAIN b
          /\ p \notin DOMAIN a \/ p \notin DOMAIN b \/ a[p] # b[p]
    BY DEF PresetDelta
  <2>2. CASE p \in DOMAIN a /\ p \in DOMAIN b
    BY <1>1, <2>1, <2>2
  <2>3. CASE p \in DOMAIN a /\ p \notin DOMAIN b
    BY <1>1, <2>1, <2>3
  <2>4. CASE p \notin DOMAIN a /\ p \in DOMAIN b
    BY <1>1, <2>1, <2>4
  <2>5. CASE p \notin DOMAIN a /\ p \notin DOMAIN b
    BY <1>1, <2>1, <2>5
  <2> QED BY <2>2, <2>3, <2>4, <2>5
<1>3. PresetDelta(a, b, fields) \subseteq fields
  BY DEF PresetDelta
<1> QED BY <1>2, <1>3

-----------------------------------------------------------------------------
(* The commands on presets.                                                *)

\* What was read, was read well.
WellRead == FlagsExit(request) = 0 /\ ReadExit(request) = 0 /\ outcome = Resolved(request)

\* A gate and its hook.
GateTells ==
    /\ request.kind = "diff" =>
          /\ ended = 3 <=> outcome # {}
          /\ heard <=> ended = 3 /\ DeltaHook(request) = "set"
    /\ request.kind # "diff" => ended = 0

\* A command that goes on past its flags has read nothing yet, or has read well; one
\* that waits for its hook is to tell of a difference; and one that ended well has told.
PresetsInv ==
    /\ request \in Requests /\ dirs.head \in Directories /\ dirs.ref \in Directories
    /\ phase \in {"none", "read", "write", "hook", "exit", "killed"}
    /\ ended \in 0 .. 3 /\ heard \in BOOLEAN
    /\ phase \in {"none", "read"} => ended = 0 /\ ~heard
    /\ phase = "read" => FlagsExit(request) = 0
    /\ phase = "write" => WellRead /\ request.kind # "show" /\ ended = 0 /\ ~heard
    /\ phase = "hook" =>
          /\ WellRead /\ request.kind = "diff" /\ outcome # {} /\ DeltaHook(request) = "set"
          /\ ended = 3 /\ ~heard
    /\ phase = "exit" /\ ended \in {0, 3} => WellRead /\ GateTells

\* The flags end a command with 1 or 2, and so does what cannot be read.
LEMMA ExitCodes ==
    ASSUME NEW q \in Requests
    PROVE  FlagsExit(q) \in 0 .. 2 /\ ReadExit(q) \in 0 .. 2
<1>1. q.kind \in {"diff", "resolve", "show"}
  BY PresetAssumption
<1>2. DiffFlags(q) \in 0 .. 2 /\ ResolveFlags(q) \in 0 .. 2 /\ ShowFlags(q) \in 0 .. 2
  BY DEF DiffFlags, ResolveFlags, ShowFlags
<1>3. DiffExit(q) \in 0 .. 2 /\ ResolveExit(q) \in 0 .. 2 /\ ShowExit(q) \in 0 .. 2
  BY DEF DiffExit, ResolveExit, ShowExit
<1>4. FlagsExit(q) \in 0 .. 2
  BY <1>1, <1>2 DEF FlagsExit
<1>5. ReadExit(q) \in 0 .. 2
  BY <1>1, <1>3 DEF ReadExit
<1> QED BY <1>4, <1>5

\* As long as neither the request nor the presets change, reading them again gives
\* the same.
LEMMA SameReading ==
    ASSUME request' = request, dirs' = dirs, outcome' = outcome
    PROVE  /\ FlagsExit(request)' = FlagsExit(request) /\ ReadExit(request)' = ReadExit(request)
           /\ Resolved(request)' = Resolved(request) /\ DeltaHook(request)' = DeltaHook(request)
           /\ WellRead' = WellRead
<1>1. FlagsExit(request)' = FlagsExit(request)
  OBVIOUS
<1>2. ReadExit(request)' = ReadExit(request)
  BY DEF ReadExit, DiffExit, ResolveExit, ShowExit, LocalOf, Shown
<1>3. Resolved(request)' = Resolved(request)
  BY DEF Resolved, LocalOf, Shown
<1>4. DeltaHook(request)' = DeltaHook(request)
  OBVIOUS
<1> QED BY <1>1, <1>2, <1>3, <1>4 DEF WellRead

\* A command that concludes has read well.
LEMMA ConcludeTells ==
    ASSUME PresetsInv, FlagsExit(request) = 0, ReadExit(request) = 0, outcome' = Resolved(request),
           ~heard, Conclude(request, outcome'), UNCHANGED <<request, dirs, heard>>
    PROVE  PresetsInv'
<1> DEFINE q == request
           delta == q.kind = "diff" /\ outcome' # {}
<1>1. /\ FlagsExit(request)' = 0 /\ ReadExit(request)' = 0 /\ outcome' = Resolved(request)'
      /\ DeltaHook(request)' = DeltaHook(request) /\ request' = request
  BY DEF ReadExit, DiffExit, ResolveExit, ShowExit, LocalOf, Shown, Resolved
<1>2. WellRead'
  BY <1>1 DEF WellRead
<1>3. \/ phase' = "exit" /\ ended' = 2
      \/ delta /\ DeltaHook(q) = "set" /\ phase' = "hook" /\ ended' = 3
      \/ /\ ~(delta /\ DeltaHook(q) = "set") /\ phase' = "exit"
         /\ ended' = IF delta THEN 3 ELSE 0
  BY DEF Conclude
<1>4. /\ request' \in Requests /\ dirs'.head \in Directories /\ dirs'.ref \in Directories
      /\ heard' \in BOOLEAN /\ ~heard'
  BY DEF PresetsInv
<1>5. CASE phase' = "exit" /\ ended' = 2
  BY <1>4, <1>5 DEF PresetsInv
<1>6. CASE delta /\ DeltaHook(q) = "set" /\ phase' = "hook" /\ ended' = 3
  BY <1>1, <1>2, <1>4, <1>6 DEF PresetsInv
<1>7. CASE /\ ~(delta /\ DeltaHook(q) = "set") /\ phase' = "exit"
           /\ ended' = IF delta THEN 3 ELSE 0
  <2>1. GateTells'
    BY <1>1, <1>4, <1>7 DEF GateTells
  <2>2. ended' \in {0, 3}
    BY <1>7
  <2> QED BY <1>2, <1>4, <1>7, <2>1, <2>2 DEF PresetsInv
<1> QED BY <1>3, <1>5, <1>6, <1>7

\* Every step of a command keeps track.
LEMMA PresetsStep ==
    ASSUME PresetsInv, [PresetNext]_presetVars
    PROVE  PresetsInv'
<1>1. ASSUME NEW head \in Directories, NEW ref \in Directories, EditPresets(head, ref) PROVE PresetsInv'
  <2>1. request' = request /\ phase' = "none" /\ ended' = 0 /\ ~heard' /\ heard' \in BOOLEAN
    BY <1>1 DEF EditPresets
  <2>2. dirs'.head = head /\ dirs'.ref = ref
    BY <1>1 DEF EditPresets
  <2>3. /\ request' \in Requests /\ dirs'.head \in Directories /\ dirs'.ref \in Directories
        /\ ended' \in 0 .. 3 /\ heard' \in BOOLEAN /\ ~heard'
    BY <2>1, <2>2 DEF PresetsInv
  <2> QED BY <2>1, <2>3 DEF PresetsInv
<1>2. ASSUME NEW q \in Requests, StartPresets(q) PROVE PresetsInv'
  <2>1. FlagsExit(q) \in 0 .. 2
    BY ExitCodes
  <2>2. /\ request' = q /\ dirs' = dirs /\ ended' = FlagsExit(q) /\ ~heard' /\ heard' \in BOOLEAN
        /\ phase' = IF FlagsExit(q) = 0 THEN "read" ELSE "exit"
    BY <1>2 DEF StartPresets
  <2>3. FlagsExit(request)' = FlagsExit(q)
    BY <2>2
  <2>4. dirs'.head \in Directories /\ dirs'.ref \in Directories
    BY <2>2 DEF PresetsInv
  <2>5. CASE FlagsExit(q) = 0
    BY <2>2, <2>3, <2>4, <2>5 DEF PresetsInv
  <2>6. CASE FlagsExit(q) # 0
    <3>1. ended' \in 1 .. 2 /\ phase' = "exit"
      BY <2>1, <2>2, <2>6
    <3> QED BY <2>2, <2>4, <3>1 DEF PresetsInv
  <2> QED BY <2>5, <2>6
<1>3. ASSUME ReadPresets PROVE PresetsInv'
  <2>1. /\ phase = "read" /\ UNCHANGED <<request, dirs, heard>> /\ ended = 0 /\ ~heard
        /\ FlagsExit(request) = 0 /\ request \in Requests
    BY <1>3 DEF ReadPresets, PresetsInv
  <2>2. FlagsExit(request)' = 0
    BY <2>1
  <2>3. CASE ReadExit(request) # 0 \/ ArtifactRefused(request)
    <3>1. ReadExit(request) \in 0 .. 2
      BY <2>1, ExitCodes
    <3>2. phase' = "exit" /\ ended' \in 1 .. 2
      BY <1>3, <2>3, <3>1 DEF ReadPresets
    <3> QED BY <2>1, <3>2 DEF PresetsInv
  <2>4. CASE ~(ReadExit(request) # 0 \/ ArtifactRefused(request))
    <3>1. /\ ReadExit(request) = 0 /\ outcome' = Resolved(request)
          /\ \/ request.kind # "show" /\ phase' = "write" /\ UNCHANGED ended
             \/ Conclude(request, outcome')
      BY <1>3, <2>4 DEF ReadPresets
    <3>2. CASE request.kind # "show" /\ phase' = "write" /\ UNCHANGED ended
      <4>1. ReadExit(request)' = 0 /\ outcome' = Resolved(request)'
        BY <2>1, <3>1 DEF ReadExit, DiffExit, ResolveExit, ShowExit, LocalOf, Shown, Resolved
      <4>2. WellRead'
        BY <2>2, <4>1 DEF WellRead
      <4> QED BY <2>1, <3>2, <4>2 DEF PresetsInv
    <3>3. CASE Conclude(request, outcome')
      BY <2>1, <3>1, <3>3, ConcludeTells
    <3> QED BY <3>1, <3>2, <3>3
  <2> QED BY <2>3, <2>4
<1>4. ASSUME WritePresets PROVE PresetsInv'
  <2>1. /\ phase = "write" /\ UNCHANGED <<request, dirs, outcome, heard>> /\ ~heard /\ WellRead
        /\ Conclude(request, outcome) \/ (phase' = "exit" /\ ended' = 1)
    BY <1>4 DEF WritePresets, PresetsInv
  <2>2. CASE Conclude(request, outcome)
    <3>1. outcome' = Resolved(request) /\ FlagsExit(request) = 0 /\ ReadExit(request) = 0
      BY <2>1 DEF WellRead
    <3>2. Conclude(request, outcome')
      BY <2>1, <2>2
    <3> QED BY <2>1, <3>1, <3>2, ConcludeTells
  <2>3. CASE phase' = "exit" /\ ended' = 1
    BY <2>1, <2>3 DEF PresetsInv
  <2> QED BY <2>1, <2>2, <2>3
<1>5. ASSUME RunHook PROVE PresetsInv'
  <2>1. /\ phase = "hook" /\ phase' = "exit" /\ heard' = TRUE /\ UNCHANGED <<request, ended, dirs, outcome>>
        /\ WellRead /\ request.kind = "diff" /\ outcome # {} /\ DeltaHook(request) = "set" /\ ended = 3
    BY <1>5 DEF RunHook, PresetsInv
  <2>2. WellRead' /\ DeltaHook(request)' = DeltaHook(request)
    BY <2>1, SameReading
  <2>3. GateTells'
    BY <2>1, <2>2 DEF GateTells
  <2> QED BY <2>1, <2>2, <2>3 DEF PresetsInv
<1>6. ASSUME KillPresets PROVE PresetsInv'
  BY <1>6 DEF KillPresets, PresetsInv
<1>7. ASSUME UNCHANGED presetVars PROVE PresetsInv'
  <2>1. /\ request' = request /\ dirs' = dirs /\ outcome' = outcome /\ phase' = phase /\ ended' = ended
        /\ heard' = heard
    BY <1>7 DEF presetVars
  <2>2. /\ WellRead' = WellRead /\ DeltaHook(request)' = DeltaHook(request)
        /\ FlagsExit(request)' = FlagsExit(request)
    BY <2>1, SameReading
  <2>3. GateTells' = GateTells
    BY <2>1, <2>2 DEF GateTells
  <2> QED BY <2>1, <2>2, <2>3 DEF PresetsInv
<1>8. ASSUME NEW d \in Directories, EditPresets(d, dirs.ref) \/ EditPresets(dirs.head, d) PROVE PresetsInv'
  BY <1>1, <1>8 DEF PresetsInv
<1> QED BY <1>2, <1>3, <1>4, <1>5, <1>6, <1>7, <1>8 DEF PresetNext

\* A chain of one name says what the name says.
LEMMA OneName ==
    ASSUME NEW files, NEW chain, IsChain(chain), Len(chain) = 1, NEW p
    PROVE  Says(files, chain, p) = NameSays(Voice(files, p), files, chain[1], p)
<1> DEFINE s == Voice(files, p)
           w == NameSays(s, files, chain[1], p)
           words == [i \in DOMAIN chain |-> NameSays(s, files, chain[i], p)]
           saying == {i \in DOMAIN words : words[i] # {}}
<1>1. DOMAIN chain = 1 .. 1
  BY ChainFacts
<1>2. Says(files, chain, p) = LastSaid(words)
  BY SaysByName DEF ListSays
<1>3. DOMAIN words = 1 .. 1 /\ words[1] = w
  BY <1>1
<1> HIDE DEF words, w
<1>4. LastSaid(words) = w
  <2>1. CASE w = {}
    <3>1. saying = {}
      BY <1>3, <2>1
    <3> QED BY <2>1, <3>1 DEF LastSaid
  <2>2. CASE w # {}
    <3>1. saying = 1 .. 1 /\ 1 .. 1 # {} /\ 1 \in Nat /\ 1 .. 1 \in SUBSET (0 .. 1)
      BY <1>3, <2>2
    <3>2. Max(1 .. 1) \in 1 .. 1
      <4> DEFINE n == 1
                 T == 1 .. 1
      <4>1. n \in Nat /\ T \in SUBSET (0 .. n) /\ T # {}
        OBVIOUS
      <4> HIDE DEF n, T
      <4>2. Max(T) \in T
        BY <4>1, MinMax
      <4> QED BY <4>2 DEF T
    <3>3. Max(1 .. 1) = 1
      BY <3>2
    <3> HIDE DEF saying
    <3>4. LastSaid(words) = words[Max(saying)]
      BY <3>1 DEF LastSaid, saying
    <3> QED BY <1>3, <3>1, <3>3, <3>4
  <2> QED BY <2>1, <2>2
<1> QED BY <1>2, <1>4 DEF w

\* What `show' composes says what the name says: the preset is flat, so composing it
\* with what it extends adds nothing.
LEMMA ShownSays ==
    ASSUME NEW q \in Requests, q.kind = "show", FlagsExit(q) = 0, ShowExit(q) = 0,
           dirs.head \in Directories
    PROVE  /\ LoadLocal(dirs.head).ok /\ q.atRef = {}
           /\ ToSet(q.a) \subseteq DOMAIN dirs.head.files \cup DOMAIN Builtin
           /\ \A p : Word(Shown(q).body, p) = Says(dirs.head.files, q.a, p)
<1> DEFINE dir == dirs.head
           files == dir.files
           local == LoadLocal(dir).body
           name == q.a[1]
           base == IF name \in DOMAIN local THEN ResolveChain(files[name].extends, local) ELSE Got(<<>>)
           own == IF name \in DOMAIN local THEN local[name] ELSE Builtin[name]
<1>1. /\ q.atRef = {} /\ IsChain(q.a) /\ Len(q.a) <= 1 /\ Loadable(files)
      /\ IsFiniteSet(DOMAIN files) /\ \A n \in DOMAIN files : IsChain(files[n].extends)
  BY PresetAssumption DEF Loadable
<1>2. LocalOf(q, "a") = LoadLocal(dir)
  BY <1>1 DEF LocalOf
<1>3. q.a # <<>>
  BY DEF FlagsExit, ShowFlags
<1>4. Len(q.a) = 1 /\ DOMAIN q.a = 1 .. 1
  <2>1. Len(q.a) \in Nat /\ DOMAIN q.a = 1 .. Len(q.a)
    BY <1>1, ChainFacts
  <2>2. Len(q.a) # 0
    <3>1. q.a \in Seq(ToSet(q.a))
      BY <1>1 DEF IsChain
    <3> QED BY <1>3, <3>1, EmptySeq
  <2>3. Len(q.a) = 1
    <3> DEFINE l == Len(q.a)
    <3>1. l \in Nat /\ l # 0 /\ l <= 1
      BY <1>1, <2>1, <2>2
    <3> HIDE DEF l
    <3>2. l = 1
      BY <3>1
    <3> QED BY <3>2 DEF l
  <2> QED BY <2>1, <2>3
<1>5. LoadLocal(dir).ok
  BY <1>2 DEF ShowExit
<1>6. name \in DOMAIN local \cup DOMAIN Builtin /\ Shown(q).ok
  BY <1>2 DEF ShowExit
<1>7. Shown(q) = IF base.ok THEN Got(MergePresets(base.body, own)) ELSE Threw
  BY <1>2 DEF Shown
<1>8. DOMAIN local = DOMAIN files
  BY <1>1, <1>5, LoadedTells
<1> HIDE DEF base, own, local
<1>9. base.ok /\ Shown(q).body = MergePresets(base.body, own)
  BY <1>6, <1>7 DEF Got, Threw
<1>10. ToSet(q.a) \subseteq DOMAIN files \cup DOMAIN Builtin
  <2>1. \A x \in ToSet(q.a) : x = name
    BY <1>1, <1>4, ChainFacts
  <2> QED BY <1>6, <1>8, <2>1
<1>11. ASSUME NEW p PROVE Word(Shown(q).body, p) = Says(files, q.a, p)
  <2> DEFINE s == Voice(files, p)
  <2>1. Says(files, q.a, p) = NameSays(s, files, name, p)
    BY <1>1, <1>4, OneName
  <2>2. Word(Shown(q).body, p) = IF Word(own, p) # {} THEN Word(own, p) ELSE Word(base.body, p)
    BY <1>9, MergedSays
  <2>3. CASE name \in DOMAIN files
    <3> DEFINE ext == files[name].extends
    <3>1. own = local[name] /\ base = ResolveChain(ext, local)
      BY <1>8, <2>3 DEF own, base
    <3>2. Word(local[name], p) = s[name] /\ s[name] = PresetSays(s, files, name, p)
      <4> DEFINE n == name
      <4>1. n \in DOMAIN dir.files /\ Loadable(dir.files) /\ LoadLocal(dir).ok
        BY <1>1, <1>5, <2>3
      <4> HIDE DEF n, dir
      <4>2. /\ Word(LoadLocal(dir).body[n], p) = Voice(dir.files, p)[n]
            /\ Voice(dir.files, p)[n] = PresetSays(Voice(dir.files, p), dir.files, n, p)
        BY <4>1, LocalSays
      <4> QED BY <4>2 DEF local, n
    <3>3. Word(base.body, p) = Says(files, ext, p)
      <4>1. IsChain(ext) /\ ResolveChain(ext, local).ok
        BY <1>1, <1>9, <2>3, <3>1
      <4> HIDE DEF ext
      <4> QED BY <1>1, <1>5, <3>1, <4>1, ChainSays DEF local
    <3>4. Says(files, ext, p) = ListSays(s, files, ext, p)
      BY SaysByName
    <3>5. s[name] = {} => s[name] = ListSays(s, files, ext, p)
      <4>1. p \in DOMAIN files[name].own => Word(files[name].own, p) # {}
        BY DEF Word
      <4> QED BY <3>2, <4>1 DEF PresetSays
    <3>6. NameSays(s, files, name, p) = s[name]
      BY <2>3 DEF NameSays
    <3> QED BY <2>1, <2>2, <3>1, <3>2, <3>3, <3>4, <3>5, <3>6
  <2>4. CASE name \notin DOMAIN files
    <3>1. own = Builtin[name] /\ base.body = <<>>
      BY <1>8, <2>4 DEF own, base, Got
    <3>2. Word(<<>>, p) = {}
      BY DEF Word
    <3>3. NameSays(s, files, name, p) = Word(Builtin[name], p)
      BY <2>4 DEF NameSays
    <3> QED BY <2>1, <2>2, <3>1, <3>2, <3>3
  <2> QED BY <2>3, <2>4
<1> QED BY <1>1, <1>5, <1>10, <1>11

\* A chain of a command that read well.
LEMMA SideSays ==
    ASSUME request \in Requests, dirs.head \in Directories, dirs.ref \in Directories,
           NEW side, NEW chain, IsChain(chain),
           LocalOf(request, side).ok, ResolveChain(chain, LocalOf(request, side).body).ok
    PROVE  /\ Sound(DirOf(side))
           /\ ToSet(chain) \subseteq DOMAIN DirOf(side).files \cup DOMAIN Builtin
           /\ \A p : Word(ResolveChain(chain, LocalOf(request, side).body).body, p)
                       = Says(DirOf(side).files, chain, p)
<1> DEFINE dir == DirOf(side)
<1>1. LocalOf(request, side) = LoadLocal(dir) /\ dir \in Directories
  BY DEF LocalOf, DirOf
<1> HIDE DEF dir
<1>2. Loadable(dir.files)
  BY <1>1, PresetAssumption DEF Loadable
<1>3. Sound(dir)
  BY <1>1, <1>2, LoadedIsSound
<1>4. /\ ToSet(chain) \subseteq DOMAIN dir.files \cup DOMAIN Builtin
      /\ \A p : Word(ResolveChain(chain, LoadLocal(dir).body).body, p) = Says(dir.files, chain, p)
  BY <1>1, <1>2, ChainSays
<1> QED BY <1>1, <1>3, <1>4 DEF dir

\* A command that keeps track has told what the chains say.
LEMMA TrackTells ==
    ASSUME PresetsInv
    PROVE  ChainsResolve
<1> SUFFICES ASSUME phase = "exit", ended \in {0, 3} PROVE ChainsResolve
  BY DEF ChainsResolve
<1> DEFINE q == request
           Said(side, p) == Says(DirOf(side).files, ChainOf(side), p)
<1>1. /\ WellRead /\ GateTells /\ q \in Requests
      /\ dirs.head \in Directories /\ dirs.ref \in Directories
  BY DEF PresetsInv
<1>2. q.kind \in {"diff", "resolve", "show"} /\ IsChain(q.a) /\ IsChain(q.b)
  BY <1>1, PresetAssumption
<1>3. FlagsExit(q) = 0 /\ ReadExit(q) = 0 /\ outcome = Resolved(q)
  BY <1>1 DEF WellRead
<1>4. ChainOf("a") = q.a /\ ChainOf("b") = q.b
  BY DEF ChainOf
<1>5. CASE q.kind = "diff"
  <2> DEFINE A == ResolveChain(q.a, LocalOf(q, "a").body)
             B == ResolveChain(q.b, LocalOf(q, "b").body)
  <2>1. LocalOf(q, "a").ok /\ A.ok /\ LocalOf(q, "b").ok /\ B.ok
    BY <1>3, <1>5 DEF ReadExit, DiffExit
  <2>2. outcome = PresetDelta(A.body, B.body, q.fields)
    BY <1>3, <1>5 DEF Resolved
  <2>3. /\ Sound(DirOf("a")) /\ ToSet(q.a) \subseteq DOMAIN DirOf("a").files \cup DOMAIN Builtin
        /\ \A p : Word(A.body, p) = Said("a", p)
    <3>1. \A p : Said("a", p) = Says(DirOf("a").files, q.a, p)
      BY <1>4
    <3> HIDE DEF Said
    <3> QED BY <1>1, <1>2, <2>1, <3>1, SideSays
  <2>4. /\ Sound(DirOf("b")) /\ ToSet(q.b) \subseteq DOMAIN DirOf("b").files \cup DOMAIN Builtin
        /\ \A p : Word(B.body, p) = Said("b", p)
    <3>1. \A p : Said("b", p) = Says(DirOf("b").files, q.b, p)
      BY <1>4
    <3> HIDE DEF Said
    <3> QED BY <1>1, <1>2, <2>1, <3>1, SideSays
  <2> HIDE DEF A, B, Said
  <2>5. outcome # {} <=> \E p \in q.fields : Said("a", p) # Said("b", p)
    BY <2>2, <2>3, <2>4, DeltaSays
  <2>6. (ended = 3 <=> outcome # {}) /\ (heard <=> ended = 3 /\ DeltaHook(q) = "set")
    BY <1>1, <1>5 DEF GateTells
  <2> QED BY <1>4, <1>5, <2>3, <2>4, <2>5, <2>6 DEF ChainsResolve, Said
<1>6. CASE q.kind = "resolve"
  <2> DEFINE A == ResolveChain(q.a, LocalOf(q, "a").body)
  <2>1. LocalOf(q, "a").ok /\ A.ok
    BY <1>3, <1>6 DEF ReadExit, ResolveExit
  <2>2. outcome = A.body
    BY <1>3, <1>6 DEF Resolved
  <2>3. /\ Sound(DirOf("a")) /\ ToSet(q.a) \subseteq DOMAIN DirOf("a").files \cup DOMAIN Builtin
        /\ \A p : Word(A.body, p) = Said("a", p)
    <3>1. \A p : Said("a", p) = Says(DirOf("a").files, q.a, p)
      BY <1>4
    <3> HIDE DEF Said
    <3> QED BY <1>1, <1>2, <2>1, <3>1, SideSays
  <2>4. ended = 0
    BY <1>1, <1>6 DEF GateTells
  <2> HIDE DEF A
  <2> QED BY <1>4, <1>6, <2>2, <2>3, <2>4 DEF ChainsResolve
<1>7. CASE q.kind = "show"
  <2>1. ShowExit(q) = 0
    BY <1>3, <1>7 DEF ReadExit
  <2>2. /\ LoadLocal(dirs.head).ok /\ q.atRef = {}
        /\ ToSet(q.a) \subseteq DOMAIN dirs.head.files \cup DOMAIN Builtin
        /\ \A p : Word(Shown(q).body, p) = Says(dirs.head.files, q.a, p)
    BY <1>1, <1>3, <1>7, <2>1, ShownSays
  <2>3. DirOf("a") = dirs.head
    BY <2>2 DEF DirOf
  <2>4. Sound(DirOf("a"))
    <3>1. Loadable(dirs.head.files)
      BY <1>1, PresetAssumption DEF Loadable
    <3> QED BY <2>2, <2>3, <3>1, LoadedIsSound
  <2>5. outcome = Shown(q).body
    BY <1>3, <1>7 DEF Resolved
  <2>6. ended = 0
    BY <1>1, <1>7 DEF GateTells
  <2> QED BY <1>4, <1>7, <2>2, <2>3, <2>4, <2>5, <2>6 DEF ChainsResolve
<1> QED BY <1>2, <1>5, <1>6, <1>7

\* Every command on presets keeps track of what it read.
THEOREM PresetsKeepTrack == PresetSpec => []PresetsInv
<1>1. PresetInit => PresetsInv
  <2> SUFFICES ASSUME PresetInit PROVE PresetsInv
    OBVIOUS
  <2>1. request \in Requests
    <3>1. Requests # {}
      BY PresetAssumption
    <3> QED BY <3>1 DEF PresetInit
  <2>2. dirs.head \in Directories /\ dirs.ref \in Directories
    <3>1. (CHOOSE d \in Directories : TRUE) \in Directories
      BY PresetAssumption
    <3> QED BY <3>1 DEF PresetInit
  <2>3. phase = "none" /\ ended = 0 /\ ~heard /\ heard \in BOOLEAN
    BY DEF PresetInit
  <2> QED BY <2>1, <2>2, <2>3 DEF PresetsInv
<1> QED BY <1>1, PresetsStep, PTL DEF PresetSpec

\* In every reachable state the commands on presets, what they wait for and what they
\* hold are of the declared types.
THEOREM PresetsTyped == PresetSpec => []PresetTypes
<1>1. PresetsInv => PresetTypes
  <2> SUFFICES ASSUME PresetsInv PROVE PresetTypes
    OBVIOUS
  <2>1. request.kind \in {"diff", "resolve", "show"}
    BY PresetAssumption DEF PresetsInv
  <2> QED BY <2>1 DEF PresetsInv, PresetTypes
<1> QED BY <1>1, PresetsKeepTrack, PTL

\* What `clawreview presets' tells of chains is what their names say, preset by preset,
\* for any directories and built-in presets (resolveOne, resolveExtendsChain, mergePresets
\* and the commands): chains that resolve are without circles, a diff closes its gate
\* exactly when a field has another last word, and its hook is called exactly then.
THEOREM ChainsAlwaysResolve == PresetSpec => []ChainsResolve
  BY PresetsKeepTrack, TrackTells, PTL

-----------------------------------------------------------------------------
(* The reads of one review: sums.                                          *)

\* The sum of the counts of a breakdown is what grows by each count.
LEMMA SumOfIs ==
    ASSUME NEW counts, NEW S, S = DOMAIN counts, IsFiniteSet(S), NEW h, AddsEach(h, counts, S)
    PROVE  SumOf(counts) = h[S]
<1> DEFINE Runs(i) == i = [s \in SUBSET S |->
                IF s = {} THEN 0 ELSE counts[CHOOSE x \in s : TRUE] + i[s \ {CHOOSE x \in s : TRUE}]]
           it == CHOOSE i : Runs(i)
<1>1. SumOf(counts) = it[S]
  BY DEF SumOf, FoldFunction, FoldFunctionOnSet, MapThenFoldSet
<1>2. Runs(h)
  <2>1. ASSUME NEW s \in SUBSET S
        PROVE  h[s] = IF s = {} THEN 0 ELSE counts[CHOOSE x \in s : TRUE] + h[s \ {CHOOSE x \in s : TRUE}]
    BY DEF AddsEach
  <2>2. h = [s \in SUBSET S |-> h[s]]
    BY DEF AddsEach
  <2> QED
    BY <2>1, <2>2
<1>3. Runs(it)
  <2> HIDE DEF Runs
  <2> QED
    BY <1>2
<1> HIDE DEF it
<1>4. SumsOver(it, counts, S)
  <2> SUFFICES ASSUME NEW s \in SUBSET S
               PROVE  it[s] = IF s = {} THEN 0 ELSE counts[CHOOSE x \in s : TRUE] + it[s \ {CHOOSE x \in s : TRUE}]
    BY DEF SumsOver
  <2> QED
    BY <1>3
<1>5. it[S] = h[S]
  BY <1>4, SumEquals
<1> QED
  BY <1>1, <1>5

\* How many findings have each value of a field, which is in S.
CountsOf(fs, k, S) == [v \in S |-> Cardinality({i \in DOMAIN fs : fs[i][k] = v})]

\* That adds up to all of them.
LEMMA ClassesSum ==
    ASSUME NEW fs, IsSequence(fs), NEW k, NEW S, IsFiniteSet(S), \A i \in DOMAIN fs : fs[i][k] \in S
    PROVE  SumOf(CountsOf(fs, k, S)) = Len(fs)
<1> DEFINE counts == CountsOf(fs, k, S)
           D == DOMAIN fs
           In(s) == {i \in D : fs[i][k] \in s}
           h == [s \in SUBSET S |-> Cardinality(In(s))]
<1>1. IsFiniteSet(D) /\ Cardinality(D) = Len(fs)
  BY SequenceFacts, UpToCount
<1>2. \A s : IsFiniteSet(In(s)) /\ Cardinality(In(s)) \in Nat
  <2>1. \A s : In(s) \in SUBSET D
    OBVIOUS
  <2> HIDE DEF In
  <2> QED
    BY <1>1, <2>1, FS_Subset, FS_CardinalityType
<1>3. h[{}] = 0
  <2>1. In({}) = {}
    OBVIOUS
  <2> HIDE DEF In
  <2> QED
    BY <2>1, FS_EmptySet
<1>4. h[S] = Len(fs)
  <2>1. In(S) = D
    OBVIOUS
  <2> HIDE DEF In
  <2> QED
    BY <1>1, <2>1
<1>5. ASSUME NEW s \in SUBSET S, NEW x \in s
      PROVE  h[s] = counts[x] + h[s \ {x}]
  <2> DEFINE here == In({x})
             rest == In(s \ {x})
  <2>1. In(s) = here \cup rest /\ here \cap rest = {}
    OBVIOUS
  <2>2. counts[x] = Cardinality(here)
    <3>1. here = {i \in DOMAIN fs : fs[i][k] = x}
      OBVIOUS
    <3> QED
      BY <3>1 DEF CountsOf
  <2>3. IsFiniteSet(here) /\ IsFiniteSet(rest) /\ Cardinality(here) \in Nat /\ Cardinality(rest) \in Nat
    BY <1>2
  <2>4. h[s] = Cardinality(In(s)) /\ h[s \ {x}] = Cardinality(rest)
    OBVIOUS
  <2> HIDE DEF here, rest, In, h
  <2>5. Cardinality(here \cup rest) = Cardinality(here) + Cardinality(rest) - Cardinality(here \cap rest)
    BY <2>3, FS_Union
  <2>6. Cardinality(here \cap rest) = 0
    BY <2>1, FS_EmptySet
  <2> QED
    BY <2>1, <2>2, <2>3, <2>4, <2>5, <2>6
<1>6. DOMAIN counts = S /\ h = [s \in SUBSET S |-> h[s]]
  BY DEF CountsOf
<1> HIDE DEF h, In, counts
<1>7. AddsEach(h, counts, S)
  BY <1>3, <1>5, <1>6 DEF AddsEach
<1>8. SumOf(counts) = h[S]
  BY <1>6, <1>7, SumOfIs
<1> QED
  BY <1>4, <1>8 DEF counts

\* The sum over some severities, written out.
Five(counts, s) ==
    (IF 0 \in s THEN counts[0] ELSE 0) + (IF 1 \in s THEN counts[1] ELSE 0)
    + (IF 2 \in s THEN counts[2] ELSE 0) + (IF 3 \in s THEN counts[3] ELSE 0)
    + (IF 4 \in s THEN counts[4] ELSE 0)

\* The scale.
LEMMA FiveSeverities == Severities = {0, 1, 2, 3, 4} /\ IsFiniteSet(Severities)
<1> DEFINE m == 4
<1>1. Severities = {0, 1, 2, 3, 4}
  BY DEF Severities, Critical, Nit
<1>2. m \in Nat /\ Severities = {0} \cup (1 .. m)
  BY <1>1
<1> HIDE DEF m
<1>3. IsFiniteSet(1 .. m)
  BY <1>2, UpToCount
<1>4. IsFiniteSet({0} \cup (1 .. m))
  BY <1>3, FS_Singleton, FS_Union
<1> QED
  BY <1>1, <1>2, <1>4

\* It is what the fold over a breakdown by severity gives.
LEMMA SeveritySum ==
    ASSUME NEW S \in SUBSET Severities, NEW counts, DOMAIN counts = S, \A s \in S : counts[s] \in Int
    PROVE  SumOf(counts) = Five(counts, S)
<1> DEFINE h == [s \in SUBSET S |-> Five(counts, s)]
<1>1. Severities = {0, 1, 2, 3, 4}
  BY FiveSeverities
<1>2. IsFiniteSet(S)
  BY FiveSeverities, FS_Subset
<1>3. h[{}] = 0
  BY DEF Five
<1>4. ASSUME NEW s \in SUBSET S, NEW x \in s
      PROVE  h[s] = counts[x] + h[s \ {x}]
  <2>1. h[s] = Five(counts, s) /\ h[s \ {x}] = Five(counts, s \ {x})
    OBVIOUS
  <2>2. x \in {0, 1, 2, 3, 4}
    BY <1>1
  <2>3. /\ 0 \in s => counts[0] \in Int
        /\ 1 \in s => counts[1] \in Int
        /\ 2 \in s => counts[2] \in Int
        /\ 3 \in s => counts[3] \in Int
        /\ 4 \in s => counts[4] \in Int
    OBVIOUS
  <2> DEFINE part(s0, k) == IF k \in s0 THEN counts[k] ELSE 0
  <2>4. \A k \in {0, 1, 2, 3, 4} : /\ part(s, k) \in Int
                                   /\ part(s \ {x}, k) = IF k = x THEN 0 ELSE part(s, k)
    BY <2>3
  <2>5. part(s, x) = counts[x]
    OBVIOUS
  <2>6. \A s0 : Five(counts, s0) = part(s0, 0) + part(s0, 1) + part(s0, 2) + part(s0, 3) + part(s0, 4)
    BY DEF Five
  <2> HIDE DEF part, h
  <2>7. /\ part(s, 0) \in Int /\ part(s, 1) \in Int /\ part(s, 2) \in Int /\ part(s, 3) \in Int /\ part(s, 4) \in Int
    BY <2>4
  <2>8. CASE x = 0
    BY <2>1, <2>4, <2>5, <2>6, <2>7, <2>8
  <2>9. CASE x = 1
    BY <2>1, <2>4, <2>5, <2>6, <2>7, <2>9
  <2>10. CASE x = 2
    BY <2>1, <2>4, <2>5, <2>6, <2>7, <2>10
  <2>11. CASE x = 3
    BY <2>1, <2>4, <2>5, <2>6, <2>7, <2>11
  <2>12. CASE x = 4
    BY <2>1, <2>4, <2>5, <2>6, <2>7, <2>12
  <2> QED
    BY <2>2, <2>8, <2>9, <2>10, <2>11, <2>12
<1>5. h = [s \in SUBSET S |-> h[s]] /\ S = DOMAIN counts /\ h[S] = Five(counts, S)
  OBVIOUS
<1> HIDE DEF h
<1>6. AddsEach(h, counts, S)
  BY <1>3, <1>4, <1>5 DEF AddsEach
<1>7. SumOf(counts) = h[S]
  BY <1>2, <1>5, <1>6, SumOfIs
<1> QED
  BY <1>5, <1>7
-----------------------------------------------------------------------------
(* The reads of one review: what it holds.                                 *)

\* Findings whose files have a place in the alphabet.
KnownFindings(fs) == IsFindings(fs) /\ \A i \in DOMAIN fs : fs[i].file \in ToSet(NameOrder.file)

\* A summary of the findings fs, of which its filters dropped none.
SumsUp(s, fs) == s.digest = DigestOf(fs) /\ s.report.inputTotal = Len(fs) /\ s.report.droppedTotal = 0

\* The row holds what its last run left, whatever was dismissed or reopened since, and
\* the summary in S is of that run.
Holds(row, S, fs) ==
    /\ IsRow(row) /\ \A i \in DOMAIN row.findings : IsStored(row.findings[i])
    /\ KnownFindings(fs) /\ Retold(row.findings, fs)
    /\ (S = {} /\ fs = <<>>) \/ \E s : S = {s} /\ SumsUp(s, fs)

\* What the reads look into.
Legible(g) == Rankable(g) /\ g.file \in ToSet(NameOrder.file)

\* A stored finding can be read.
LEMMA RowLegible ==
    ASSUME NEW row, NEW S, NEW fs, Holds(row, S, fs)
    PROVE  /\ IsSequence(row.findings) /\ Len(row.findings) = Len(fs) /\ Len(fs) \in Nat
           /\ DOMAIN row.findings = 1 .. Len(fs)
           /\ \A i \in DOMAIN row.findings : /\ Legible(row.findings[i])
                                             /\ row.findings[i].state \in {"open", "dismissed"}
<1> DEFINE gs == row.findings
<1>1. /\ Retold(gs, fs) /\ IsSequence(gs) /\ Len(gs) = Len(fs)
      /\ \A i \in DOMAIN gs : \A k \in FindingFields : gs[i][k] = fs[i][k]
  BY DEF Holds, Retold
<1>2. DOMAIN gs = 1 .. Len(gs) /\ DOMAIN fs = DOMAIN gs /\ Len(gs) \in Nat
  BY <1>1, RetoldFields
<1>3. \A i \in DOMAIN gs : gs[i].state \in {"open", "dismissed"}
  BY DEF Holds, IsStored
<1>4. ASSUME NEW i \in DOMAIN gs
      PROVE  Legible(gs[i])
  <2>1. IsFinding(fs[i]) /\ fs[i].file \in ToSet(NameOrder.file)
    <3>1. IsFindings(fs) /\ fs[i].file \in ToSet(NameOrder.file)
      BY <1>2 DEF Holds, KnownFindings
    <3>2. fs[i] \in ToSet(fs)
      BY <1>2, <3>1, SequenceFacts DEF IsFindings
    <3> QED
      BY <3>1, <3>2 DEF IsFindings
  <2>2. Rankable(fs[i])
    BY <2>1, FindingRankable
  <2>3. \A k \in FindingFields : gs[i][k] = fs[i][k]
    BY <1>1
  <2>4. /\ gs[i].severity = fs[i].severity /\ gs[i].confidence = fs[i].confidence
        /\ gs[i].file = fs[i].file /\ gs[i].line = fs[i].line
    BY <2>3 DEF FindingFields
  <2> QED
    BY <2>1, <2>2, <2>4 DEF Rankable, Legible
<1> QED
  BY <1>1, <1>2, <1>3, <1>4

\* A selection of findings that can be read: none of them is new, and it is all of them
\* if it is as many.
LEMMA SelectionLegible ==
    ASSUME NEW gs, IsSequence(gs), \A i \in DOMAIN gs : Legible(gs[i]), NEW P \in SUBSET DOMAIN gs,
           NEW cs, cs = Selected(gs, P)
    PROVE  /\ IsSequence(cs) /\ \A i \in DOMAIN cs : Legible(cs[i])
           /\ Len(cs) \in Nat /\ Len(cs) <= Len(gs)
           /\ Len(cs) = Len(gs) => cs = gs
<1>1. /\ Len(gs) \in Nat /\ DOMAIN gs = 1 .. Len(gs) /\ \A i \in DOMAIN gs : gs[i] \in ToSet(gs)
  BY SequenceFacts
<1>2. IsSequence(cs) /\ ToSet(cs) = {gs[i] : i \in P}
  BY SelectedIsSequence
<1>3. gs \in Seq(ToSet(gs))
  BY DEF IsSequence
<1>4. Len(cs) = Cardinality(P) /\ Cardinality(P) \in Nat
  BY <1>3, SelectedTells
<1>5. IsFiniteSet(DOMAIN gs) /\ Cardinality(DOMAIN gs) = Len(gs)
  BY <1>1, UpToCount
<1>6. Cardinality(P) <= Len(gs) /\ (Cardinality(P) = Len(gs) => P = DOMAIN gs)
  BY <1>5, FS_Subset
<1>7. P = DOMAIN gs => cs = gs
  BY SelectedAll
<1>8. \A i \in DOMAIN cs : cs[i] \in ToSet(cs)
  BY <1>2, SequenceFacts
<1>9. \A i \in DOMAIN cs : Legible(cs[i])
  BY <1>2, <1>8
<1> QED
  BY <1>2, <1>4, <1>6, <1>7, <1>9

\* The counts of a digest, by severity and by file, are of all that it counts.
LEMMA DigestSums ==
    ASSUME NEW cs, IsSequence(cs), \A i \in DOMAIN cs : Legible(cs[i])
    PROVE  /\ DigestOf(cs).total = Len(cs) /\ Len(cs) \in Nat
           /\ DigestOf(cs).totalsBySeverity = Totals(cs) /\ SumOf(Totals(cs)) = Len(cs)
           /\ DigestOf(cs).byFile = CountBy(cs, "file") /\ SumOf(CountBy(cs, "file")) = Len(cs)
<1>1. \A i \in DOMAIN cs : cs[i]["severity"] \in Severities
  BY DEF Legible, Rankable
<1>2. SumOf(Totals(cs)) = Len(cs)
  <2> DEFINE k == "severity"
             V == Severities
  <2>1. Totals(cs) = CountsOf(cs, k, V)
    BY DEF Totals, CountsOf
  <2>2. IsFiniteSet(V) /\ \A i \in DOMAIN cs : cs[i][k] \in V
    BY <1>1, FiveSeverities
  <2> HIDE DEF k, V
  <2> QED
    BY <2>1, <2>2, ClassesSum
<1>3. SumOf(CountBy(cs, "file")) = Len(cs)
  <2> DEFINE k == "file"
             V == {f[k] : f \in ToSet(cs)}
  <2>1. CountBy(cs, k) = CountsOf(cs, k, V)
    BY DEF CountBy, CountsOf
  <2>2. \A i \in DOMAIN cs : cs[i][k] \in V
    BY SequenceFacts
  <2>3. DOMAIN CountBy(cs, k) = V
    BY DEF CountBy
  <2> HIDE DEF k, V
  <2>4. IsFiniteSet(V)
    BY <2>3, FewValues
  <2>5. SumOf(CountBy(cs, k)) = Len(cs)
    BY <2>1, <2>2, <2>4, ClassesSum
  <2> QED
    BY <2>5 DEF k
<1> QED
  BY <1>2, <1>3, SequenceFacts DEF DigestOf

-----------------------------------------------------------------------------
(* The reads of one review: the digest.                                    *)

\* A drift by severity adds up to how many more there are, though it leaves out what
\* did not change.
LEMMA DeltaSum ==
    ASSUME NEW a, NEW b, DOMAIN a = Severities, DOMAIN b = Severities,
           \A s \in Severities : a[s] \in Int /\ b[s] \in Int
    PROVE  SumOf(SparseDelta(a, b)) = SumOf(b) - SumOf(a)
<1> DEFINE delta == SparseDelta(a, b)
           S == DOMAIN delta
<1>1. Severities = {0, 1, 2, 3, 4}
  BY FiveSeverities
<1>2. /\ S = {s \in Severities : b[s] # a[s]}
      /\ \A s \in S : delta[s] = b[s] - a[s]
  BY DEF SparseDelta
<1> HIDE DEF delta, S
<1>3. S \in SUBSET Severities /\ DOMAIN delta = S /\ \A s \in S : delta[s] \in Int
  BY <1>2 DEF S
<1>4. SumOf(delta) = Five(delta, S)
  BY <1>3, SeveritySum
<1> DEFINE V == Severities
<1>5. V \in SUBSET Severities /\ DOMAIN a = V /\ DOMAIN b = V /\ \A s \in V : a[s] \in Int /\ b[s] \in Int
  OBVIOUS
<1>6. SumOf(a) = Five(a, V) /\ SumOf(b) = Five(b, V)
  <2> HIDE DEF V
  <2> QED
    BY <1>5, SeveritySum
<1> DEFINE part(k) == IF k \in S THEN delta[k] ELSE 0
<1>7. \A k \in {0, 1, 2, 3, 4} : part(k) = b[k] - a[k] /\ a[k] \in Int /\ b[k] \in Int
  BY <1>1, <1>2, <1>5
<1>8. Five(delta, S) = part(0) + part(1) + part(2) + part(3) + part(4)
  BY DEF Five
<1>9. Five(a, V) = a[0] + a[1] + a[2] + a[3] + a[4] /\ Five(b, V) = b[0] + b[1] + b[2] + b[3] + b[4]
  BY <1>1 DEF Five
<1> HIDE DEF part, V
<1>10. /\ part(0) = b[0] - a[0] /\ a[0] \in Int /\ b[0] \in Int
       /\ part(1) = b[1] - a[1] /\ a[1] \in Int /\ b[1] \in Int
       /\ part(2) = b[2] - a[2] /\ a[2] \in Int /\ b[2] \in Int
       /\ part(3) = b[3] - a[3] /\ a[3] \in Int /\ b[3] \in Int
       /\ part(4) = b[4] - a[4] /\ a[4] \in Int /\ b[4] \in Int
  BY <1>7
<1>11. Five(delta, S) = Five(b, V) - Five(a, V)
  BY <1>8, <1>9, <1>10
<1> QED
  BY <1>4, <1>6, <1>11 DEF delta

\* A drift from n findings to m of them.
IsDrift(drift, n, m) ==
    /\ HasDrift(drift) <=> m # n
    /\ drift.total = m - n /\ SumOf(drift.bySeverity) = drift.total

\* The digest of the stored findings drifts from the one that was kept exactly when it
\* counts fewer.
LEMMA DriftTells ==
    ASSUME NEW gs, NEW fs, Retold(gs, fs), \A i \in DOMAIN gs : Legible(gs[i]),
           NEW cs, IsSequence(cs), \A i \in DOMAIN cs : Legible(cs[i]), Len(cs) = Len(gs) => cs = gs
    PROVE  IsDrift(DigestDrift(DigestOf(fs), DigestOf(cs)), Len(gs), Len(cs))
<1> DEFINE drift == DigestDrift(DigestOf(fs), DigestOf(cs))
<1>1. /\ DigestOf(gs).total = DigestOf(fs).total
      /\ DigestOf(gs).totalsBySeverity = DigestOf(fs).totalsBySeverity
      /\ DigestOf(gs).byCategory = DigestOf(fs).byCategory
      /\ DigestOf(gs).byAgent = DigestOf(fs).byAgent
      /\ DigestOf(gs).byFile = DigestOf(fs).byFile
      /\ DigestOf(gs).byTag = DigestOf(fs).byTag
  BY RetoldDigest
<1>2. IsSequence(gs)
  BY DEF Retold
<1>3. /\ DigestOf(gs).total = Len(gs) /\ Len(gs) \in Nat /\ DigestOf(gs).totalsBySeverity = Totals(gs)
      /\ SumOf(Totals(gs)) = Len(gs)
  BY <1>2, DigestSums
<1>4. /\ DigestOf(cs).total = Len(cs) /\ Len(cs) \in Nat /\ DigestOf(cs).totalsBySeverity = Totals(cs)
      /\ SumOf(Totals(cs)) = Len(cs)
  BY DigestSums
<1>5. drift.total = Len(cs) - Len(gs) /\ drift.bySeverity = SparseDelta(Totals(gs), Totals(cs))
  BY <1>1, <1>3, <1>4 DEF DigestDrift
<1>6. SumOf(drift.bySeverity) = Len(cs) - Len(gs)
  <2> DEFINE a == Totals(gs)
             b == Totals(cs)
  <2>1. DOMAIN a = Severities /\ DOMAIN b = Severities /\ \A s \in Severities : a[s] \in Int /\ b[s] \in Int
    BY <1>2, TotalsTell
  <2>2. SumOf(a) = Len(gs) /\ SumOf(b) = Len(cs) /\ drift.bySeverity = SparseDelta(a, b)
    BY <1>3, <1>4, <1>5
  <2> HIDE DEF a, b
  <2>3. SumOf(SparseDelta(a, b)) = SumOf(b) - SumOf(a)
    BY <2>1, DeltaSum
  <2> QED
    BY <2>2, <2>3
<1>7. Len(cs) # Len(gs) => HasDrift(drift)
  BY <1>3, <1>4, <1>5 DEF HasDrift
<1>8. ASSUME Len(cs) = Len(gs)
      PROVE  ~HasDrift(drift)
  <2> DEFINE d == DigestOf(fs)
             e == DigestOf(cs)
  <2>1. cs = gs
    BY <1>8
  <2>2. /\ d.total \in Int /\ d.total = e.total /\ d.totalsBySeverity = e.totalsBySeverity
        /\ d.byCategory = e.byCategory /\ d.byAgent = e.byAgent /\ d.byFile = e.byFile /\ d.byTag = e.byTag
    BY <1>1, <1>3, <2>1
  <2>3. drift = DigestDrift(d, e)
    OBVIOUS
  <2> HIDE DEF d, e
  <2> QED
    BY <2>2, <2>3, NoDrift
<1> HIDE DEF drift
<1>9. IsDrift(drift, Len(gs), Len(cs))
  BY <1>5, <1>6, <1>7, <1>8 DEF IsDrift
<1> QED
  BY <1>9 DEF drift

\* A top list goes down.
LEMMA TopTells ==
    ASSUME NEW counts, IsFiniteSet(DOMAIN counts), \A k \in DOMAIN counts : counts[k] \in Int,
           NEW order, IsSequence(order), DOMAIN counts \subseteq ToSet(order),
           NEW top, top = TopList(counts, order)
    PROVE  /\ DOMAIN top \subseteq Nat
           /\ \A i \in DOMAIN top : top[i].count = counts[top[i].name]
           /\ \A i, j \in DOMAIN top : i < j => top[i].count >= top[j].count
<1> DEFINE D == DOMAIN counts
           Place(k) == CHOOSE i \in DOMAIN order : order[i] = k
           Precedes(j, k) == counts[j] > counts[k] \/ (counts[j] = counts[k] /\ Place(j) < Place(k))
           before == [k \in D |-> {j \in D : Precedes(j, k)}]
           R == {p \in D \X D : Precedes(p[1], p[2])}
           names == Sorted(before)
           n == Cardinality(D)
<1>1. \A k \in D : Place(k) \in Nat /\ order[Place(k)] = k
  <2> SUFFICES ASSUME NEW k \in D
               PROVE  Place(k) \in Nat /\ order[Place(k)] = k
    OBVIOUS
  <2>1. k \in ToSet(order)
    OBVIOUS
  <2>2. \E i \in DOMAIN order : order[i] = k
    BY <2>1 DEF ToSet
  <2>3. Place(k) \in DOMAIN order /\ order[Place(k)] = k
    BY <2>2
  <2> QED
    BY <2>3, SequenceFacts
<1>2. top = [i \in 1 .. Min({TopCut, Len(names)}) |-> [name |-> names[i], count |-> counts[names[i]]]]
  BY DEF TopList
<1> HIDE DEF Place
<1>3. \A j, k \in D : <<j, k>> \in R <=> Precedes(j, k)
  OBVIOUS
<1>4. Orders(R, D)
  <2>1. \A s, t, u \in D : <<s, t>> \in R /\ <<t, u>> \in R => <<s, u>> \in R
    <3> HIDE DEF R
    <3> QED
      BY <1>1, <1>3
  <2>2. \A s \in D : <<s, s>> \notin R
    <3> HIDE DEF R
    <3> QED
      BY <1>1, <1>3
  <2>3. \A s, t \in D : s # t => <<s, t>> \in R \/ <<t, s>> \in R
    <3> HIDE DEF R
    <3> QED
      BY <1>1, <1>3
  <2> HIDE DEF R, D
  <2> QED
    BY <2>1, <2>2, <2>3 DEF Orders
<1>5. before = [s \in D |-> Preceding(D, R, s)]
  BY DEF Preceding
<1> HIDE DEF before, R, D
<1>6. /\ n \in Nat /\ names \in Seq(D) /\ Len(names) = n
      /\ \A j, k \in 1 .. n : j < k <=> <<names[j], names[k]>> \in R
  BY <1>4, <1>5, SortedTells DEF D
<1>7. \A k \in 1 .. n : names[k] \in D
  BY <1>6
<1> DEFINE m == Min({TopCut, Len(names)})
<1>8. m \in Nat /\ m <= n
  <2> HIDE DEF names, n
  <2>1. TopCut \in Nat
    BY ReviewReadsAssumption
  <2> DEFINE b == IF TopCut < n THEN n ELSE TopCut
             T == {TopCut, Len(names)}
  <2>2. b \in Nat /\ T \in SUBSET (0 .. b) /\ T # {} /\ Len(names) \in T /\ Len(names) = n
    BY <1>6, <2>1
  <2> HIDE DEF b, T
  <2>3. Min(T) \in T /\ Min(T) <= n
    BY <2>2, MinMax
  <2>4. T \subseteq Nat
    BY <2>2
  <2> QED
    BY <2>3, <2>4 DEF T
<1>9. /\ DOMAIN top = 1 .. m
      /\ \A i \in 1 .. m : top[i].name = names[i] /\ top[i].count = counts[names[i]]
  BY <1>2
<1> HIDE DEF names, n, m
<1>10. ASSUME NEW i \in 1 .. m, NEW j \in 1 .. m, i < j
       PROVE  counts[names[i]] >= counts[names[j]]
  <2>1. i \in 1 .. n /\ j \in 1 .. n
    BY <1>6, <1>8
  <2>2. <<names[i], names[j]>> \in R /\ names[i] \in D /\ names[j] \in D
    BY <1>6, <1>7, <1>10, <2>1
  <2>3. counts[names[i]] \in Int /\ counts[names[j]] \in Int
    BY <2>2 DEF D
  <2> QED
    BY <1>3, <2>2, <2>3
<1> QED
  BY <1>8, <1>9, <1>10

\* What slimming may take away.
LEMMA StripsNoMore ==
    ASSUME NEW list, SlimOk(list)
    PROVE  Stripped(list) \subseteq SlimFields
<1> DEFINE names == {list[i].name : i \in DOMAIN list}
<1>1. CASE list \in {<<>>, Alias("none"), Alias("all")}
  BY <1>1 DEF Stripped, Chosen, Alias
<1>2. CASE list \notin {<<>>, Alias("none"), Alias("all")}
  <2>1. \A i \in DOMAIN list : list[i].name \in SlimFields
    BY <1>2 DEF SlimOk, WellFormed
  <2>2. Stripped(list) = IF list[1].minus THEN SlimFields \ names ELSE names
    BY <1>2 DEF Stripped, Chosen
  <2> QED
    BY <2>1, <2>2
<1> QED
  BY <1>1, <1>2

\* The fields of a digest that is answered.
BodyFields ==
    {"total", "totalsBySeverity", "byCategory", "byAgent", "byFile", "byTag", "hotspots",
     "topFiles", "topAgents", "topCategories", "topTags"}

\* What is left of the digest of cs is as it was.
IsSlim(d, cs, list) ==
    /\ DOMAIN d = BodyFields \ Stripped(list)
    /\ d.total = Len(cs) /\ d.totalsBySeverity = Totals(cs)
    /\ "byFile" \in DOMAIN d => d.byFile = CountBy(cs, "file")
    /\ d.topFiles = TopList(CountBy(cs, "file"), NameOrder.file)

\* Every digest has the same fields.
LEMMA BodyHasFields ==
    ASSUME NEW cs
    PROVE  DOMAIN DigestBody(DigestOf(cs)) = BodyFields
  BY DEF DigestBody, Beside, DigestOf, BodyFields

\* Slimming leaves the rest alone.
LEMMA SlimTells ==
    ASSUME NEW cs, NEW list, SlimOk(list)
    PROVE  IsSlim(SlimDigest(DigestOf(cs), list), cs, list)
<1> DEFINE body == DigestBody(DigestOf(cs))
           d == SlimDigest(DigestOf(cs), list)
<1>2. /\ body["total"] = Len(cs) /\ body["totalsBySeverity"] = Totals(cs)
      /\ body["byFile"] = CountBy(cs, "file")
      /\ body["topFiles"] = TopList(CountBy(cs, "file"), NameOrder.file)
  BY DEF DigestBody, Beside, DigestOf
<1>3. DOMAIN d = DOMAIN body \ Stripped(list) /\ \A k \in DOMAIN d : d[k] = body[k]
  BY DEF SlimDigest, Without
<1>4. DOMAIN body = BodyFields
  BY BodyHasFields
<1> HIDE DEF body, d
<1>5. "total" \in DOMAIN d /\ "totalsBySeverity" \in DOMAIN d /\ "topFiles" \in DOMAIN d
  BY <1>3, <1>4, StripsNoMore DEF SlimFields, BodyFields
<1>6. IsSlim(d, cs, list)
  BY <1>2, <1>3, <1>4, <1>5 DEF IsSlim
<1> QED
  BY <1>6 DEF d

\* The threshold of a query is the one that the answer names.
LEMMA ThresholdNamed ==
    ASSUME NEW raw
    PROVE  LET named == NormalSeverity(raw)
           IN  Threshold(raw) = Threshold([given |-> named # {}, number |-> TRUE,
                                           value |-> IF named = {} THEN 0 ELSE Max(named)])
<1> DEFINE named == NormalSeverity(raw)
           repeat == [given |-> named # {}, number |-> TRUE,
                     value |-> IF named = {} THEN 0 ELSE Max(named)]
<1>1. named = {} \/ (named = {raw.value} /\ raw.value \in Severities)
  BY DEF NormalSeverity
<1>2. \A v \in Severities : Max({v}) = v
  <2> SUFFICES ASSUME NEW v \in Severities PROVE Max({v}) = v
    OBVIOUS
  <2>1. v \in 0 .. 4
    BY FiveSeverities
  <2> QED
    BY <2>1 DEF Max
<1>3. /\ repeat.given = (named # {}) /\ repeat.value = IF named = {} THEN 0 ELSE Max(named)
  OBVIOUS
<1>4. NormalSeverity(repeat) = IF repeat.given THEN {repeat.value} \cap Severities ELSE {}
  BY DEF NormalSeverity
<1> HIDE DEF named, repeat
<1>5. NormalSeverity(repeat) = named
  BY <1>1, <1>2, <1>3, <1>4
<1>6. Threshold(repeat) = IF named = {} THEN Nit ELSE Max(named)
  BY <1>5 DEF Threshold
<1>7. Threshold(raw) = IF named = {} THEN Nit ELSE Max(named)
  BY DEF Threshold, named
<1> QED
  BY <1>6, <1>7 DEF repeat, named

\* A digest with its report that counts those findings cs of gs that passed.
IsFiltered(made, cs, gs) ==
    /\ made.digest = DigestOf(cs)
    /\ IsSequence(cs) /\ \A i \in DOMAIN cs : Legible(cs[i])
    /\ Len(cs) \in Nat /\ Len(cs) <= Len(gs) /\ (Len(cs) = Len(gs) => cs = gs)
    /\ made.report.inputTotal = Len(gs) /\ made.report.droppedTotal = Len(gs) - Len(cs)

\* A digest through the filters of a query is one of some of the findings.
LEMMA DigestFilterTells ==
    ASSUME NEW gs, IsSequence(gs), \A i \in DOMAIN gs : Legible(gs[i]), NEW confidence, NEW severity
    PROVE  \E cs : IsFiltered(FilteredDigest(gs, confidence, severity), cs, gs)
<1> DEFINE floor == NormalConfidence(confidence)
           bound == Threshold(severity)
           P == {i \in DOMAIN gs : Passes(gs[i], floor, bound)}
           cs == Selected(gs, P)
           made == FilteredDigest(gs, confidence, severity)
<1>1. /\ made.digest = FindingDigest(gs, floor, bound) /\ made.report.inputTotal = Len(gs)
      /\ made.report.droppedTotal = Len(gs) - FindingDigest(gs, floor, bound).total
  BY DEF FilteredDigest
<1>2. FindingDigest(gs, floor, bound) = DigestOf(cs)
  BY DigestCounts
<1>3. P \in SUBSET DOMAIN gs
  OBVIOUS
<1> HIDE DEF P
<1>4. /\ IsSequence(cs) /\ \A i \in DOMAIN cs : Legible(cs[i])
      /\ Len(cs) \in Nat /\ Len(cs) <= Len(gs)
      /\ Len(cs) = Len(gs) => cs = gs
  BY <1>3, SelectionLegible
<1>5. DigestOf(cs).total = Len(cs)
  BY DEF DigestOf
<1> HIDE DEF cs, made
<1>6. IsFiltered(made, cs, gs)
  BY <1>1, <1>2, <1>4, <1>5 DEF IsFiltered
<1> QED
  BY <1>6 DEF made

\* A digest that is answered is of n findings, whether it was kept or is made anew.
IsOf(d, n, list) ==
    /\ d.total = n /\ SumOf(d.totalsBySeverity) = d.total
    /\ DOMAIN d = BodyFields \ Stripped(list)
    /\ "byFile" \in DOMAIN d => SumOf(d.byFile) = d.total

\* The digest that was kept is of the findings as the last run left them.
LEMMA KeptTells ==
    ASSUME NEW row, NEW S, NEW fs, Holds(row, S, fs), NEW list, SlimOk(list), NEW s \in S
    PROVE  IsOf(SlimDigest(s.digest, list), Len(row.findings), list)
<1> DEFINE gs == row.findings
           d == SlimDigest(s.digest, list)
<1>1. s.digest = DigestOf(fs)
  BY DEF Holds, SumsUp
<1>2. IsSlim(SlimDigest(DigestOf(fs), list), fs, list)
  BY SlimTells
<1>3. IsSequence(gs) /\ Len(gs) = Len(fs) /\ \A i \in DOMAIN gs : Legible(gs[i])
  BY RowLegible
<1>4. Retold(gs, fs)
  BY DEF Holds
<1>5. DigestOf(gs).byFile = DigestOf(fs).byFile /\ Totals(gs) = Totals(fs)
  BY <1>4, RetoldDigest
<1>6. SumOf(Totals(gs)) = Len(gs) /\ SumOf(CountBy(gs, "file")) = Len(gs)
  BY <1>3, DigestSums
<1>7. CountBy(gs, "file") = CountBy(fs, "file")
  BY <1>5 DEF DigestOf
<1>8. IsSlim(d, fs, list)
  BY <1>1, <1>2
<1> HIDE DEF d
<1>9. IsOf(d, Len(gs), list)
  BY <1>3, <1>5, <1>6, <1>7, <1>8 DEF IsSlim, IsOf
<1> QED
  BY <1>9 DEF d

\* The answer about the kept digest.
LEMMA CachedAgrees ==
    ASSUME NEW row, NEW S, NEW fs, Holds(row, S, fs), NEW q, SlimOk(q.slim), NEW tally, tally = {},
           NEW a, a.query = q,
           a.body = [persisted |-> {SlimDigest(s.digest, q.slim) : s \in S}, fresh |-> {}, drift |-> {},
                     slimFields |-> Stripped(q.slim),
                     confidence |-> NormalConfidence(q.confidence), severity |-> NormalSeverity(q.severity),
                     filterDropped |-> IF S = {} THEN 0 ELSE (CHOOSE s \in S : TRUE).report.droppedTotal,
                     filterInputTotal |-> IF S = {} THEN Len(row.findings)
                                          ELSE (CHOOSE s \in S : TRUE).report.inputTotal]
    PROVE  DigestAgrees(a, row, tally)
<1> DEFINE gs == row.findings
           whole == FilteredDigest(gs, q.confidence, q.severity).digest
           held == {SlimDigest(s.digest, q.slim) : s \in S}
           body == a.body
<1>1. IsSequence(gs) /\ Len(gs) = Len(fs) /\ \A i \in DOMAIN gs : Legible(gs[i])
  BY RowLegible
<1>a. \E cs : IsFiltered(FilteredDigest(gs, q.confidence, q.severity), cs, gs)
  BY <1>1, DigestFilterTells
<1>2. PICK cs : whole = DigestOf(cs)
  BY <1>a DEF IsFiltered
<1>3. \A d \in held : IsOf(d, Len(gs), q.slim)
  <2> DEFINE list == q.slim
  <2>1. SlimOk(list)
    OBVIOUS
  <2> HIDE DEF list
  <2>2. \A s \in S : IsOf(SlimDigest(s.digest, list), Len(gs), list)
    BY <2>1, KeptTells
  <2> QED
    BY <2>2 DEF list
<1>4. /\ S = {} \/ ((CHOOSE s \in S : TRUE).report.droppedTotal = 0
                    /\ (CHOOSE s \in S : TRUE).report.inputTotal = Len(gs))
  BY <1>1 DEF Holds, SumsUp
<1>5. /\ body.persisted = held /\ body.fresh = {} /\ body.drift = {} /\ body.slimFields = Stripped(q.slim)
      /\ body.filterDropped = 0 /\ body.filterInputTotal = Len(gs)
  BY <1>4
<1>6. ListEntry(row).totalFindings = Len(gs)
  BY DEF ListEntry
<1>7. DOMAIN DigestBody(whole) = BodyFields
  BY <1>2, BodyHasFields
<1> HIDE DEF held, body, whole
<1> QED
  BY <1>3, <1>5, <1>6, <1>7 DEF DigestAgrees, IsOf, body, whole

\* What the worker kept as the digest, or what it starts from.
LEMMA PersistedTells ==
    ASSUME NEW row, NEW S, NEW fs, Holds(row, S, fs)
    PROVE  DigestOf(fs) = IF S = {} THEN FindingDigest(<<>>, 0, Nit) ELSE (CHOOSE s \in S : TRUE).digest
<1>1. ASSUME S = {}
      PROVE  DigestOf(fs) = FindingDigest(<<>>, 0, Nit)
  <2>1. fs = <<>> /\ IsSequence(fs)
    BY <1>1 DEF Holds, KnownFindings, IsFindings
  <2> QED
    BY <2>1, DigestOfAll
<1>2. ASSUME S # {}
      PROVE  DigestOf(fs) = (CHOOSE s \in S : TRUE).digest
  BY <1>2 DEF Holds, SumsUp
<1> QED
  BY <1>1, <1>2

\* A read that recomputes moves two counters, and one of them says whether it drifted.
DriftIsCounted(tally, drift) ==
    Cardinality(tally) = 2 /\ (<<"digest drift", "stale">> \in tally <=> HasDrift(drift))

\* The counters of a read that recomputes.
LEMMA FreshCounted ==
    ASSUME NEW drift, NEW report
    PROVE  DriftIsCounted(DriftCount(drift) \cup FilterCount(report), drift)
<1> DEFINE tally == DriftCount(drift) \cup FilterCount(report)
           x == <<"digest drift", IF HasDrift(drift) THEN "stale" ELSE "fresh">>
           y == <<"digest filter", YesNo(report.floored), YesNo(report.limited)>>
<1>1. tally = {x, y}
  BY DEF DriftCount, FilterCount
<1>2. x[1] = "digest drift" /\ y[1] = "digest filter" /\ x[2] = IF HasDrift(drift) THEN "stale" ELSE "fresh"
  OBVIOUS
<1>3. x = <<"digest drift", "stale">> <=> HasDrift(drift)
  OBVIOUS
<1>4. y # <<"digest drift", "stale">>
  <2>1. y = <<"digest drift", "stale">> => y[1] = "digest drift"
    OBVIOUS
  <2> QED
    BY <1>2, <2>1
<1> HIDE DEF x, y, tally
<1>5. Cardinality({x, y}) = 2
  <2>1. x # y
    BY <1>2
  <2>2. IsFiniteSet({x}) /\ Cardinality({x}) = 1
    BY FS_Singleton
  <2>3. {x, y} = {x} \cup {y} /\ y \notin {x}
    BY <2>1
  <2> QED
    BY <2>2, <2>3, FS_AddElement
<1>6. Cardinality(tally) = 2 /\ (<<"digest drift", "stale">> \in tally <=> HasDrift(drift))
  BY <1>1, <1>3, <1>4, <1>5
<1> QED
  BY <1>6 DEF tally, DriftIsCounted

\* The answer about a digest made anew.
LEMMA FreshAgrees ==
    ASSUME NEW row, NEW S, NEW fs, Holds(row, S, fs), NEW q, SlimOk(q.slim), q.recompute = "fresh",
           NEW made, made = FilteredDigest(row.findings, q.confidence, q.severity),
           NEW drift, drift = DigestDrift(DigestOf(fs), made.digest),
           NEW tally, tally = DriftCount(drift) \cup FilterCount(made.report),
           NEW a, a.query = q,
           a.body = [persisted |-> {SlimDigest(s.digest, q.slim) : s \in S},
                     fresh |-> {SlimDigest(made.digest, q.slim)}, drift |-> {drift},
                     slimFields |-> Stripped(q.slim),
                     confidence |-> NormalConfidence(q.confidence), severity |-> NormalSeverity(q.severity),
                     filterDropped |-> made.report.droppedTotal,
                     filterInputTotal |-> made.report.inputTotal]
    PROVE  DigestAgrees(a, row, tally)
<1> DEFINE gs == row.findings
           list == q.slim
           held == {SlimDigest(s.digest, list) : s \in S}
           body == a.body
           anew == SlimDigest(made.digest, list)
           named == NormalSeverity(q.severity)
           repeat == [given |-> named # {}, number |-> TRUE,
                     value |-> IF named = {} THEN 0 ELSE Max(named)]
<1>1. /\ IsSequence(gs) /\ Len(gs) = Len(fs) /\ Len(gs) \in Nat
      /\ \A i \in DOMAIN gs : Legible(gs[i])
  BY RowLegible
<1>2. /\ \E cs : IsFiltered(made, cs, gs)
      /\ made.digest = FindingDigest(gs, NormalConfidence(q.confidence), Threshold(q.severity))
  <2>1. \E cs : IsFiltered(made, cs, gs)
    BY <1>1, DigestFilterTells
  <2> QED
    BY <2>1 DEF FilteredDigest
<1>a. PICK cs : IsFiltered(made, cs, gs)
  BY <1>2
<1>b. /\ made.digest = DigestOf(cs)
      /\ IsSequence(cs) /\ \A i \in DOMAIN cs : Legible(cs[i])
      /\ Len(cs) \in Nat /\ Len(cs) <= Len(gs) /\ (Len(cs) = Len(gs) => cs = gs)
      /\ made.report.inputTotal = Len(gs) /\ made.report.droppedTotal = Len(gs) - Len(cs)
  BY <1>a DEF IsFiltered
<1>3. SlimOk(list)
  OBVIOUS
<1>4. \A d \in held : IsOf(d, Len(gs), list)
  <2> HIDE DEF list
  <2>1. \A s \in S : IsOf(SlimDigest(s.digest, list), Len(gs), list)
    BY <1>3, KeptTells
  <2> QED
    BY <2>1
<1>5. IsSlim(anew, cs, list)
  <2> HIDE DEF list
  <2>1. IsSlim(SlimDigest(DigestOf(cs), list), cs, list)
    BY <1>3, SlimTells
  <2> QED
    BY <1>b, <2>1
<1>6. /\ SumOf(Totals(cs)) = Len(cs) /\ DigestOf(cs).byFile = CountBy(cs, "file")
      /\ SumOf(CountBy(cs, "file")) = Len(cs)
  BY <1>b, DigestSums
<1>7. IsDrift(drift, Len(gs), Len(cs))
  <2>1. Retold(gs, fs)
    BY DEF Holds
  <2>2. IsDrift(DigestDrift(DigestOf(fs), DigestOf(cs)), Len(gs), Len(cs))
    BY <1>1, <1>b, <2>1, DriftTells
  <2> QED
    BY <1>b, <2>2
<1>8. DriftIsCounted(tally, drift)
  BY FreshCounted
<1>9. LET top == anew.topFiles
      IN  /\ \A i \in DOMAIN top : top[i].count = DigestOf(cs).byFile[top[i].name]
          /\ \A i, j \in DOMAIN top : i < j => top[i].count >= top[j].count
  <2> DEFINE counts == CountBy(cs, "file")
             order == NameOrder.file
             top == anew.topFiles
  <2>1. top = TopList(counts, order)
    BY <1>5 DEF IsSlim
  <2>2. IsFiniteSet(DOMAIN counts)
    BY <1>b, FewValues
  <2>3. DOMAIN counts = {f.file : f \in ToSet(cs)}
    BY DEF CountBy
  <2>4. \A f \in ToSet(cs) : f.file \in ToSet(order)
    BY <1>b DEF ToSet, Legible
  <2>5. \A k \in DOMAIN counts : counts[k] \in Int
    <3> SUFFICES ASSUME NEW k \in DOMAIN counts
                 PROVE  counts[k] \in Int
      OBVIOUS
    <3>1. counts[k] = Cardinality({i \in DOMAIN cs : cs[i]["file"] = k})
      BY DEF CountBy
    <3>2. IsFiniteSet({i \in DOMAIN cs : cs[i]["file"] = k})
      <4>1. DOMAIN cs = 1 .. Len(cs)
        BY <1>b, SequenceFacts
      <4>2. IsFiniteSet(DOMAIN cs)
        BY <1>b, <4>1, UpToCount
      <4> QED
        BY <4>2, FS_Subset
    <3> QED
      BY <3>1, <3>2, FS_CardinalityType
  <2>6. IsSequence(order)
    <3>1. \A k \in {"file", "agent", "category", "tag"} : IsSequence(NameOrder[k])
      BY ReviewReadsAssumption
    <3> QED
      BY <3>1
  <2>7. DOMAIN counts \subseteq ToSet(order)
    BY <2>3, <2>4
  <2>8. counts = DigestOf(cs).byFile
    BY <1>6
  <2> HIDE DEF counts, order, top
  <2>9. /\ \A i \in DOMAIN top : top[i].count = counts[top[i].name]
        /\ \A i, j \in DOMAIN top : i < j => top[i].count >= top[j].count
    BY <2>1, <2>2, <2>5, <2>6, <2>7, TopTells
  <2> QED
    BY <2>8, <2>9 DEF top
<1>10. /\ body.persisted = held /\ body.fresh = {anew} /\ body.drift = {drift}
       /\ body.slimFields = Stripped(list)
       /\ body.confidence = NormalConfidence(q.confidence) /\ body.severity = named
       /\ body.filterDropped = Len(gs) - Len(cs) /\ body.filterInputTotal = Len(gs)
  BY <1>b
<1>11. ListEntry(row).totalFindings = Len(gs)
  BY DEF ListEntry
<1>12. DOMAIN DigestBody(DigestOf(cs)) = BodyFields
  BY BodyHasFields
<1>13. Threshold(q.severity) = Threshold(repeat)
  BY ThresholdNamed
<1>14. IsOf(anew, Len(cs), list)
  BY <1>5, <1>6 DEF IsSlim, IsOf
<1>15. anew.total = Len(cs)
  BY <1>14 DEF IsOf
<1> HIDE DEF held, body, anew, list, named, repeat
<1> DEFINE dropped == Len(gs) - Len(cs)
<1>16. dropped \in Nat /\ (dropped > 0 <=> Len(cs) # Len(gs)) /\ Len(cs) - Len(gs) = - dropped
  BY <1>1, <1>b
<1>17. FilteredDigest(gs, a.query.confidence, a.query.severity).digest = DigestOf(cs)
  BY <1>b
<1>18. a.query.recompute # "cached"
  OBVIOUS
<1>19. \A d \in body.persisted \cup body.fresh :
         /\ SumOf(d.totalsBySeverity) = d.total
         /\ DOMAIN d = DOMAIN DigestBody(DigestOf(cs)) \ body.slimFields
         /\ "byFile" \in DOMAIN d => SumOf(d.byFile) = d.total
  BY <1>4, <1>10, <1>12, <1>14 DEF IsOf
<1>20. \A d \in body.persisted : d.total = Len(gs)
  BY <1>4, <1>10 DEF IsOf
<1>21. \A d \in body.fresh :
         /\ d.total + body.filterDropped = Len(gs)
         /\ \A i \in DOMAIN d.topFiles : d.topFiles[i].count = DigestOf(cs).byFile[d.topFiles[i].name]
         /\ \A i, j \in DOMAIN d.topFiles : i < j => d.topFiles[i].count >= d.topFiles[j].count
  BY <1>1, <1>b, <1>9, <1>10, <1>15
<1>22. DigestOf(cs) = FindingDigest(gs, body.confidence,
                        Threshold([given |-> body.severity # {}, number |-> TRUE,
                                   value |-> IF body.severity = {} THEN 0 ELSE Max(body.severity)]))
  BY <1>2, <1>b, <1>10, <1>13 DEF repeat
<1>23. \A d \in body.drift : DriftAgrees(d, body.filterDropped, tally)
  BY <1>7, <1>8, <1>10, <1>16 DEF IsDrift, DriftAgrees, DriftIsCounted
<1>24. body.filterInputTotal = ListEntry(row).totalFindings
  BY <1>10, <1>11
<1> HIDE DEF gs
<1> DEFINE whole == FilteredDigest(gs, a.query.confidence, a.query.severity).digest
<1> HIDE DEF whole
<1>25. whole = DigestOf(cs)
  BY <1>17 DEF whole
<1>26. \A d \in body.persisted \cup body.fresh :
         /\ SumOf(d.totalsBySeverity) = d.total
         /\ DOMAIN d = DOMAIN DigestBody(whole) \ body.slimFields
         /\ "byFile" \in DOMAIN d => SumOf(d.byFile) = d.total
  BY <1>19, <1>25
<1>27. \A d \in body.fresh :
         /\ d.total + body.filterDropped = Len(gs)
         /\ \A i \in DOMAIN d.topFiles : d.topFiles[i].count = whole.byFile[d.topFiles[i].name]
         /\ \A i, j \in DOMAIN d.topFiles : i < j => d.topFiles[i].count >= d.topFiles[j].count
         /\ whole = FindingDigest(gs, body.confidence, Threshold([given |-> body.severity # {},
                         number |-> TRUE, value |-> IF body.severity = {} THEN 0 ELSE Max(body.severity)]))
  BY <1>21, <1>22, <1>25
<1>28. DigestAgrees(a, row, tally)
  BY <1>18, <1>20, <1>23, <1>24, <1>26, <1>27 DEF DigestAgrees, body, gs, whole
<1> QED
  BY <1>28

-----------------------------------------------------------------------------
(* The reads of one review: the filter report.                             *)

\* What the report says, which is all that a projection takes from.
LEMMA FullTells ==
    ASSUME NEW report
    PROVE  /\ DOMAIN FullReport(report) = ReportFields
           /\ FullReport(report)["inputTotal"] = report.inputTotal
           /\ FullReport(report)["droppedTotal"] = report.droppedTotal
  BY DEF FullReport, ReportFields

\* What of it a query gets.
IsBody(body, report, q) ==
    /\ DOMAIN body \subseteq ReportFields /\ \A k \in DOMAIN body : body[k] = FullReport(report)[k]
    /\ q.slim => DOMAIN body = ReportFields \ {"appliedFilters"}
    /\ ~q.slim /\ q.fields # <<>> => DOMAIN body = ReportFields \ (ReportFields \ Projected(q.fields))

\* A projection leaves out, and changes nothing.
LEMMA BodyTells ==
    ASSUME NEW report, NEW q, q.slim \in BOOLEAN
    PROVE  IsBody(ReportBody(report, q), report, q)
<1> DEFINE body == ReportBody(report, q)
<1>1. DOMAIN FullReport(report) = ReportFields
  BY FullTells
<1>2. ASSUME q.slim
      PROVE  IsBody(body, report, q)
  <2>1. body = Without(FullReport(report), {"appliedFilters"})
    BY <1>2 DEF ReportBody
  <2> HIDE DEF body
  <2> QED
    BY <1>1, <1>2, <2>1 DEF Without, IsBody
<1>3. ASSUME ~q.slim /\ q.fields = <<>>
      PROVE  IsBody(body, report, q)
  <2>1. body = FullReport(report)
    BY <1>3 DEF ReportBody
  <2> HIDE DEF body
  <2> QED
    BY <1>1, <1>3, <2>1 DEF IsBody
<1>4. ASSUME ~q.slim /\ q.fields # <<>>
      PROVE  IsBody(body, report, q)
  <2>1. body = Without(FullReport(report), ReportFields \ Projected(q.fields))
    BY <1>4 DEF ReportBody
  <2> HIDE DEF body
  <2> QED
    BY <1>1, <1>4, <2>1 DEF Without, IsBody
<1> QED
  BY <1>2, <1>3, <1>4

\* A list of the one field, allowed or denied.
LEMMA OneProjected ==
    ASSUME NEW name, name \in ReportFields
    PROVE  /\ Projected(<<[minus |-> FALSE, name |-> name]>>) = {name}
           /\ Projected(<<[minus |-> TRUE, name |-> name]>>) = ReportFields \ {name}
<1>1. name # "all" /\ name # "none"
  BY DEF ReportFields
<1>2. ASSUME NEW minus \in BOOLEAN
      PROVE  Projected(<<[minus |-> minus, name |-> name]>>)
                = IF minus THEN ReportFields \ {name} ELSE {name}
  <2> DEFINE e == [minus |-> minus, name |-> name]
             list == <<e>>
             names == {list[i].name : i \in DOMAIN list}
  <2>1. e.name = name /\ e.minus = minus
    OBVIOUS
  <2>2. /\ [minus |-> FALSE, name |-> "all"].name = "all"
        /\ [minus |-> FALSE, name |-> "none"].name = "none"
    OBVIOUS
  <2> HIDE DEF e
  <2>3. list \notin {<<>>, Alias("none"), Alias("all")}
    <3>1. list[1] = e /\ list # <<>>
      OBVIOUS
    <3>2. ASSUME NEW n, list = Alias(n) PROVE n = name
      <4>1. Alias(n)[1].name = n
        BY DEF Alias
      <4> QED
        BY <2>1, <3>1, <3>2, <4>1
    <3> QED
      BY <1>1, <3>1, <3>2
  <2>4. names = {name} /\ list[1].minus = minus
    BY <2>1
  <2> HIDE DEF names
  <2>5. Chosen(list, ReportFields) = IF list[1].minus THEN ReportFields \ names ELSE names
    BY <2>3 DEF Chosen, names
  <2> QED
    BY <2>4, <2>5 DEF Projected, e
<1> QED
  BY <1>2

\* The three counters of a read of the report.
LEMMA ReportCounted ==
    ASSUME NEW slim \in BOOLEAN, NEW fields \in BOOLEAN
    PROVE  CountsAgree(ReportCount(slim) \cup ProjectionCount(slim, fields), slim)
<1> DEFINE kind == CASE slim -> "slim" [] ~slim /\ fields -> "fields" [] ~slim /\ ~fields -> "full"
           x == <<"report read", Shape(slim)>>
           y == <<"report duration", Shape(slim)>>
           z == <<"report projection", kind>>
           tally == ReportCount(slim) \cup ProjectionCount(slim, fields)
<1>1. tally = {x, y, z}
  BY DEF ReportCount, ProjectionCount
<1>2. kind = "slim" <=> slim
  OBVIOUS
<1> HIDE DEF kind
<1>3. /\ x[1] = "report read" /\ y[1] = "report duration" /\ z[1] = "report projection"
      /\ x[2] = Shape(slim) /\ y[2] = Shape(slim) /\ z[2] = kind
  OBVIOUS
<1>4. /\ x # <<"report projection", "slim">> /\ y # <<"report projection", "slim">>
      /\ z = <<"report projection", "slim">> <=> slim
  BY <1>2
<1> HIDE DEF x, y, z, tally
<1>5. Cardinality({x, y, z}) = 3
  <2>1. x # y /\ x # z /\ y # z
    BY <1>3
  <2>2. IsFiniteSet({x}) /\ Cardinality({x}) = 1
    BY FS_Singleton
  <2>3. {x, y} = {x} \cup {y} /\ y \notin {x} /\ {x, y, z} = {x, y} \cup {z} /\ z \notin {x, y}
    BY <2>1
  <2>4. IsFiniteSet({x, y}) /\ Cardinality({x, y}) = 2
    BY <2>2, <2>3, FS_AddElement
  <2> QED
    BY <2>3, <2>4, FS_AddElement
<1>6. {c[2] : c \in {d \in tally : d[1] # "report projection"}} = {Shape(slim)}
  <2>1. {d \in tally : d[1] # "report projection"} = {x, y}
    BY <1>1, <1>3
  <2> QED
    BY <1>3, <2>1
<1>7. <<"report projection", "slim">> \in tally <=> slim
  BY <1>1, <1>4
<1> QED
  BY <1>1, <1>5, <1>6, <1>7 DEF tally, CountsAgree

\* A legal question for a report, and what answering it counts.
ReportAsked(q, tally) ==
    /\ q.slim \in BOOLEAN
    /\ ~(q.slim /\ q.fields # <<>>)
    /\ tally = ReportCount(q.slim) \cup ProjectionCount(q.slim, q.fields # <<>>)

\* The answer about the filter report.
\* What a legal question counts: one read and one duration of the body's shape,
\* and one projection, "slim" for the slim body alone.
LEMMA ReportCountedOnce ==
    ASSUME NEW q, NEW tally, ReportAsked(q, tally)
    PROVE  CountsAgree(tally, q.slim)
<1> DEFINE slim == q.slim
           asked == q.fields # <<>>
<1>1. slim \in BOOLEAN /\ asked \in BOOLEAN /\ tally = ReportCount(slim) \cup ProjectionCount(slim, asked)
  BY DEF ReportAsked
<1> HIDE DEF slim, asked
<1>2. CountsAgree(tally, slim)
  BY <1>1, ReportCounted
<1> QED
  BY <1>2 DEF slim

\* The body and the counts of a legal question for a report agree.
LEMMA ReportIsTold ==
    ASSUME NEW row, NEW S, NEW fs, Holds(row, S, fs), NEW s \in S,
           NEW q, NEW tally, ReportAsked(q, tally),
           NEW a, a.query = q, a.body = ReportBody(s.report, q)
    PROVE  ReportAgrees(a, s.report, row, tally)
<1> DEFINE body == a.body
           slim == a.query.slim
           report == s.report
           fields == a.query.fields
<1>0. slim \in BOOLEAN /\ ~(slim /\ fields # <<>>)
  BY DEF ReportAsked
<1>1. report.inputTotal = Len(row.findings) /\ report.droppedTotal = 0
  BY RowLegible DEF Holds, SumsUp
<1>2. /\ DOMAIN body \subseteq ReportFields /\ \A k \in DOMAIN body : body[k] = FullReport(report)[k]
      /\ slim => DOMAIN body = ReportFields \ {"appliedFilters"}
      /\ ~slim /\ fields # <<>> => DOMAIN body = ReportFields \ (ReportFields \ Projected(fields))
  <2>1. IsBody(ReportBody(report, q), report, q)
    BY <1>0, BodyTells
  <2>2. IsBody(body, report, q)
    BY <2>1
  <2> HIDE DEF body, report
  <2> QED
    BY <2>2 DEF IsBody
<1>3. CountsAgree(tally, slim)
  BY ReportCountedOnce
<1>4. /\ "appliedFilters" \in ReportFields
      /\ Projected(<<[minus |-> FALSE, name |-> "appliedFilters"]>>) = {"appliedFilters"}
      /\ Projected(<<[minus |-> TRUE, name |-> "appliedFilters"]>>) = ReportFields \ {"appliedFilters"}
  <2> DEFINE name == "appliedFilters"
  <2>1. name \in ReportFields
    BY DEF ReportFields
  <2> HIDE DEF name
  <2>2. /\ Projected(<<[minus |-> FALSE, name |-> name]>>) = {name}
        /\ Projected(<<[minus |-> TRUE, name |-> name]>>) = ReportFields \ {name}
    BY <2>1, OneProjected
  <2> QED
    BY <2>1, <2>2 DEF name
<1>5. fields = <<[minus |-> TRUE, name |-> "appliedFilters"]>>
        => ~slim /\ DOMAIN body = ReportFields \ {"appliedFilters"}
  <2>1. SUFFICES ASSUME fields = <<[minus |-> TRUE, name |-> "appliedFilters"]>>
                 PROVE  ~slim /\ DOMAIN body = ReportFields \ {"appliedFilters"}
    OBVIOUS
  <2>2. fields # <<>> /\ Projected(fields) = ReportFields \ {"appliedFilters"}
    BY <1>4, <2>1
  <2> HIDE DEF fields, body
  <2> QED
    BY <1>0, <1>2, <1>4, <2>2 DEF fields
<1>6. fields = <<[minus |-> FALSE, name |-> "appliedFilters"]>> => DOMAIN body = {"appliedFilters"}
  <2>1. SUFFICES ASSUME fields = <<[minus |-> FALSE, name |-> "appliedFilters"]>>
                 PROVE  DOMAIN body = {"appliedFilters"}
    OBVIOUS
  <2>2. fields # <<>> /\ Projected(fields) = {"appliedFilters"}
    BY <1>4, <2>1
  <2> HIDE DEF fields, body
  <2> QED
    BY <1>0, <1>2, <1>4, <2>2 DEF fields
<1>7. ListEntry(row).totalFindings = Len(row.findings)
  BY DEF ListEntry
<1>8. /\ "inputTotal" \in DOMAIN body => body.inputTotal = Len(row.findings)
      /\ "droppedTotal" \in DOMAIN body => body.droppedTotal = 0
  BY <1>1, <1>2, FullTells
<1> HIDE DEF body, slim, report, fields
<1> QED
  BY <1>2, <1>3, <1>5, <1>6, <1>7, <1>8 DEF ReportAgrees, body, report, slim, fields

-----------------------------------------------------------------------------
(* The reads of one review: the documents.                                 *)

\* What is in a sequence that lists a set.
LEMMA ListsAll ==
    ASSUME NEW S, NEW n \in Nat, NEW s \in Seq(S), Len(s) = n, s \in Bijection(1 .. n, S)
    PROVE  ToSet(s) = S
<1>1. DOMAIN s = 1 .. n /\ \A i \in 1 .. n : s[i] \in S
  BY LenProperties
<1>2. \A x \in S : \E i \in 1 .. n : s[i] = x
  BY DEF Bijection, Surjection
<1> QED
  BY <1>1, <1>2 DEF ToSet

\* The sections of the report in Markdown are the open findings.
LEMMA SectionsTell ==
    ASSUME NEW fs, IsSequence(fs), \A i \in DOMAIN fs : Legible(fs[i])
    PROVE  UNION {ToSet(ReportSections(fs)[p]) : p \in DOMAIN ReportSections(fs)}
             = {i \in DOMAIN fs : fs[i].state = "open"}
<1> DEFINE OpenAt(p) == {i \in DOMAIN fs : fs[i].state = "open" /\ fs[i].file = p}
           Precedes(i, j) == \/ fs[i].severity < fs[j].severity
                             \/ fs[i].severity = fs[j].severity /\ fs[i].line < fs[j].line
                             \/ fs[i].severity = fs[j].severity /\ fs[i].line = fs[j].line /\ i < j
           paths == {f.file : f \in ToSet(OpenOnes(fs))}
           Section(p) == Sorted([j \in OpenAt(p) |-> {i \in OpenAt(p) : Precedes(i, j)}])
<1>1. ReportSections(fs) = [p \in paths |-> Section(p)]
  BY DEF ReportSections
<1>2. Len(fs) \in Nat /\ DOMAIN fs = 1 .. Len(fs)
  BY SequenceFacts
<1>3. \A p \in paths : ToSet(Section(p)) = OpenAt(p)
  <2> SUFFICES ASSUME NEW p \in paths PROVE ToSet(Section(p)) = OpenAt(p)
    OBVIOUS
  <2> DEFINE S == OpenAt(p)
             R == {e \in S \X S : Precedes(e[1], e[2])}
             before == [j \in S |-> {i \in S : Precedes(i, j)}]
  <2>1. S \in SUBSET DOMAIN fs
    OBVIOUS
  <2>2. \A i \in S : fs[i].severity \in Int /\ fs[i].line \in Int /\ i \in Int
    <3>1. \A i \in S : Rankable(fs[i]) /\ i \in Int
      BY <1>2 DEF Legible
    <3>2. \A s \in Severities : s \in Int
      BY FiveSeverities
    <3> QED
      BY <3>1, <3>2 DEF Rankable
  <2>3. IsFiniteSet(S)
    <3>1. IsFiniteSet(DOMAIN fs)
      BY <1>2, UpToCount
    <3> HIDE DEF S
    <3> QED
      BY <2>1, <3>1, FS_Subset
  <2>4. \A i, j \in S : <<i, j>> \in R <=> Precedes(i, j)
    OBVIOUS
  <2> HIDE DEF S, R
  <2>5. Orders(R, S)
    <3>1. \A i, j, k \in S : <<i, j>> \in R /\ <<j, k>> \in R => <<i, k>> \in R
      BY <2>2, <2>4
    <3>2. \A i \in S : <<i, i>> \notin R
      BY <2>2, <2>4
    <3>3. \A i, j \in S : i # j => <<i, j>> \in R \/ <<j, i>> \in R
      BY <2>2, <2>4
    <3> QED
      BY <3>1, <3>2, <3>3 DEF Orders
  <2>6. before = [j \in S |-> Preceding(S, R, j)]
    BY <2>4 DEF Preceding
  <2> HIDE DEF before
  <2>7. /\ Cardinality(S) \in Nat /\ Sorted(before) \in Seq(S) /\ Len(Sorted(before)) = Cardinality(S)
        /\ Sorted(before) \in Bijection(1 .. Cardinality(S), S)
    BY <2>3, <2>5, <2>6, SortedTells
  <2>8. ToSet(Sorted(before)) = S
    BY <2>7, ListsAll
  <2> QED
    BY <2>8 DEF before, S
<1>4. ToSet(OpenOnes(fs)) = {fs[i] : i \in {j \in DOMAIN fs : fs[j].state = "open"}}
  <2> DEFINE P == {j \in DOMAIN fs : fs[j].state = "open"}
  <2>1. P \in SUBSET DOMAIN fs /\ OpenOnes(fs) = Selected(fs, P)
    BY DEF OpenOnes
  <2> HIDE DEF P
  <2>2. ToSet(OpenOnes(fs)) = {fs[i] : i \in P}
    BY <2>1, SelectedIsSequence
  <2> QED
    BY <2>2 DEF P
<1>5. \A i \in DOMAIN fs : fs[i].state = "open" => fs[i].file \in paths /\ i \in OpenAt(fs[i].file)
  BY <1>4
<1> HIDE DEF paths, Section
<1>6. DOMAIN ReportSections(fs) = paths /\ \A p \in paths : ToSet(ReportSections(fs)[p]) = OpenAt(p)
  BY <1>1, <1>3
<1> QED
  BY <1>5, <1>6

\* The report in Markdown.
LEMMA MarkdownIsTold ==
    ASSUME NEW row, NEW S, NEW fs, Holds(row, S, fs), NEW all \in BOOLEAN, NEW a, a.query = all,
           a.body = [totals |-> ReportTotals(row.findings), sections |-> ReportSections(row.findings),
                     dismissed |-> IF all THEN {i \in DOMAIN row.findings : row.findings[i].state = "dismissed"}
                                   ELSE {}]
    PROVE  MarkdownAgrees(a, row)
<1> DEFINE gs == row.findings
           sections == ReportSections(gs)
           gone == {i \in DOMAIN gs : gs[i].state = "dismissed"}
           live == {i \in DOMAIN gs : gs[i].state = "open"}
<1>1. /\ IsSequence(gs) /\ \A i \in DOMAIN gs : Legible(gs[i])
      /\ \A i \in DOMAIN gs : gs[i].state \in {"open", "dismissed"}
  BY RowLegible
<1>2. UNION {ToSet(sections[p]) : p \in DOMAIN sections} = live
  BY <1>1, SectionsTell
<1>3. a.body.totals.open = ListEntry(row).openFindings
  BY DEF ReportTotals, ListEntry
<1>4. a.body.sections = sections /\ a.body.dismissed = IF all THEN gone ELSE {}
  OBVIOUS
<1>5. live \cup gone = DOMAIN gs
  BY <1>1
<1> HIDE DEF sections
<1> QED
  BY <1>2, <1>3, <1>4, <1>5 DEF MarkdownAgrees

\* The JUnit document.
LEMMA JUnitIsTold ==
    ASSUME NEW row, NEW S, NEW fs, Holds(row, S, fs), NEW a, a.body = JUnitCounts(row.findings)
    PROVE  JUnitAgrees(a, row)
<1> DEFINE gs == row.findings
           os == OpenOnes(gs)
<1>1. IsSequence(os)
  BY RowLegible, OpenTyped
<1>2. /\ JUnit(os).failures = Totals(os)[Critical] + Totals(os)[High]
      /\ JUnit(os).tests = Len(os)
  BY <1>1, FailuresAddUp
<1>3. a.body = JUnit(os) /\ ReportTotals(gs).totals = Totals(os) /\ ListEntry(row).openFindings = Len(os)
  BY DEF JUnitCounts, ReportTotals, ListEntry
<1> HIDE DEF os
<1> QED
  BY <1>2, <1>3 DEF JUnitAgrees

\* The table.
LEMMA CsvIsTold ==
    ASSUME NEW row, NEW all \in BOOLEAN, NEW a, a.query = all, a.body = CsvRows(row.findings, all)
    PROVE  CsvAgrees(a, row)
  BY DEF CsvAgrees, CsvRows, ListEntry

\* The SARIF log has no finding that is not open.
LEMMA SarifIsTold ==
    ASSUME NEW row, NEW S, NEW fs, Holds(row, S, fs), NEW a, a.body = SarifResults(row.findings)
    PROVE  SarifAgrees(a, row)
<1> DEFINE gs == row.findings
           os == OpenOnes(gs)
           P == {i \in DOMAIN gs : gs[i].state = "open"}
           V == ToSet(os)
<1>1. IsSequence(gs) /\ \A i \in DOMAIN gs : Legible(gs[i])
  BY RowLegible
<1>2. IsSequence(os) /\ V = {gs[i] : i \in P}
  <2>1. P \in SUBSET DOMAIN gs /\ os = Selected(gs, P)
    BY DEF OpenOnes
  <2> HIDE DEF P, os
  <2> QED
    BY <1>1, <2>1, SelectedIsSequence
<1>3. os \in Seq(V) /\ \A v \in V : Rankable(v)
  BY <1>1, <1>2 DEF Legible, IsSequence
<1>4. ExportCap \in Nat
  BY ReportAssumption
<1>5. a.body = Aggregate(os, Nit, ExportCap, 0).findings
  BY DEF SarifResults
<1> HIDE DEF os, V
<1>6. Aggregate(os, Nit, ExportCap, 0).findings \in Seq(V)
  BY <1>3, <1>4, AggregateTyped
<1>7. \A r \in ToSet(a.body) : r \in V
  BY <1>5, <1>6 DEF ToSet
<1> QED
  BY <1>7 DEF SarifAgrees, V, os

\* The detail.
LEMMA DetailIsTold ==
    ASSUME NEW row, NEW S, NEW fs, Holds(row, S, fs), NEW a,
           a.body = Beside(ListEntry(row), [findings |-> row.findings, digest |-> {s.digest : s \in S},
                                            report |-> {s.report : s \in S}])
    PROVE  DetailAgrees(a)
<1> DEFINE entry == ListEntry(row)
           more == [findings |-> row.findings, digest |-> {s.digest : s \in S}, report |-> {s.report : s \in S}]
<1>1. entry.totalFindings = Len(row.findings)
      /\ DOMAIN entry = {"status", "totalFindings", "openFindings", "costUsd"}
  BY DEF ListEntry
<1>2. /\ more.digest = {s.digest : s \in S} /\ more.report = {s.report : s \in S}
      /\ DOMAIN more = {"findings", "digest", "report"}
  OBVIOUS
<1> HIDE DEF entry, more
<1>3. a.body = Beside(entry, more)
  BY DEF entry, more
<1>4. a.body.digest = {s.digest : s \in S} /\ a.body.report = {s.report : s \in S}
      /\ a.body.totalFindings = Len(row.findings)
  BY <1>1, <1>2, <1>3 DEF Beside
<1>5. \A s \in S : s.digest.total = Len(row.findings)
  <2>1. Len(row.findings) = Len(fs) /\ \A s \in S : s.digest = DigestOf(fs)
    BY RowLegible DEF Holds, SumsUp
  <2>2. DigestOf(fs).total = Len(fs)
    BY DEF DigestOf
  <2> QED
    BY <2>1, <2>2
<1> DEFINE digests == {s.digest : s \in S}
<1>6. \A d \in digests : d.total = Len(row.findings)
  BY <1>5
<1>7. digests = {} <=> {s.report : s \in S} = {}
  OBVIOUS
<1> HIDE DEF digests
<1>8. a.body.digest = digests
  BY <1>4 DEF digests
<1> QED
  BY <1>4, <1>6, <1>7, <1>8 DEF DetailAgrees

-----------------------------------------------------------------------------
(* The reads of one review: the invariant.                                 *)

\* What the worker has not answered for is a run that began.
RunsCounted ==
    /\ IsFiniteSet(posting) /\ working \in Nat /\ runs \in 0 .. MaxRuns
    /\ working + Cardinality(posting) <= runs /\ triage \in 0 .. MaxTriage

\* What is to be posted sums up the findings it is posted with.
PostingTold == \A p \in posting : KnownFindings(p.findings) /\ SumsUp(p, p.findings)

RowTold ==
    /\ record.status \in {"absent", "queued", "running", "completed", "failed"}
    /\ \E fs : Holds(record, summary, fs)

\* The inductive invariant.
ReadsInv ==
    /\ RowTold /\ PostingTold /\ RunsCounted
    /\ \E a : reply = {} \/ reply = {a}
    /\ ReadsAgree

\* Where nothing has been asked, nothing disagrees.
LEMMA NoneAsked == reply = {} => ReadsAgree
  BY DEF ReadsAgree, Answered

\* Where nobody asks, there is nothing to agree.
LEMMA NoneAskedNext == reply' = {} => ReadsAgree'
  BY DEF ReadsAgree, Answered

\* A review nobody asked for yet is in order.
LEMMA InitReads == ReadInit => ReadsInv
<1> SUFFICES ASSUME ReadInit
             PROVE  ReadsInv
  OBVIOUS
<1>1. RunsCounted
  <2>1. IsFiniteSet(posting) /\ Cardinality(posting) = 0
    BY FS_EmptySet DEF ReadInit
  <2> QED
    BY <2>1, ReviewReadsAssumption DEF RunsCounted, ReadInit
<1>2. RowTold
  <2>1. record.status = "absent" /\ record.findings = <<>> /\ IsRow(record)
    BY DEF ReadInit, NoRow, IsRow
  <2> DEFINE fs == <<>>
  <2>2. IsFindings(fs) /\ DOMAIN fs = {} /\ IsSequence(fs)
    BY NoFindings DEF IsFindings
  <2>3. KnownFindings(fs) /\ Retold(fs, fs)
    BY <2>2 DEF KnownFindings, Retold
  <2>4. \A i \in DOMAIN record.findings : IsStored(record.findings[i])
    BY <2>1
  <2>5. Holds(record, summary, fs)
    BY <2>1, <2>3, <2>4 DEF Holds, ReadInit
  <2> QED
    BY <2>1, <2>5 DEF RowTold
<1>3. PostingTold /\ reply = {}
  BY DEF PostingTold, ReadInit
<1> QED
  BY <1>1, <1>2, <1>3, NoneAsked DEF ReadsInv

-----------------------------------------------------------------------------
(* The reads of one review: what changes it.                               *)

\* What a run ends with are findings that its own filters let pass.
LEMMA OutcomeTells ==
    ASSUME NEW o \in Outcomes
    PROVE  /\ KnownFindings(o.findings) /\ o.floor \in 0 .. 100 /\ o.threshold \in Severities
           /\ \A i \in DOMAIN o.findings : Passes(o.findings[i], o.floor, o.threshold)
<1> DEFINE fs == o.findings
<1>1. /\ IsSequence(fs) /\ o.floor \in 0 .. 100 /\ o.threshold \in Severities
      /\ \A f \in ToSet(fs) : /\ IsFinding(f) /\ Passes(f, o.floor, o.threshold)
                              /\ f.file \in ToSet(NameOrder.file)
  BY ReviewReadsAssumption
<1>2. \A i \in DOMAIN fs : fs[i] \in ToSet(fs)
  BY <1>1, SequenceFacts
<1> QED
  BY <1>1, <1>2 DEF KnownFindings, IsFindings

\* The filters of a run, given to the digest, are those filters.
LEMMA GivenIsMeant ==
    ASSUME NEW floor \in 0 .. 100, NEW bound \in Severities
    PROVE  NormalConfidence(Given(floor)) = floor /\ Threshold(Given(bound)) = bound
<1>1. /\ Given(floor).given /\ Given(floor).number /\ Given(floor).value = floor
      /\ Given(bound).given /\ Given(bound).value = bound
  BY DEF Given
<1>2. NormalConfidence(Given(floor)) = floor
  <2>1. Min({100, floor}) = floor
    BY DEF Min
  <2>2. Max({0, floor}) = floor
    BY DEF Max
  <2> QED
    BY <1>1, <2>1, <2>2 DEF NormalConfidence
<1>3. NormalSeverity(Given(bound)) = {bound}
  BY <1>1 DEF NormalSeverity
<1>4. Max({bound}) = bound
  <2>1. bound \in 0 .. 4
    BY FiveSeverities
  <2> QED
    BY <2>1 DEF Max
<1> QED
  BY <1>2, <1>3, <1>4 DEF Threshold

\* So what the worker sums up is all of it.
LEMMA MadeSumsUp ==
    ASSUME NEW o \in Outcomes
    PROVE  LET made == FilteredDigest(o.findings, Given(o.floor), Given(o.threshold))
           IN  /\ made.digest = DigestOf(o.findings)
               /\ made.report.inputTotal = Len(o.findings) /\ made.report.droppedTotal = 0
<1> DEFINE fs == o.findings
           made == FilteredDigest(fs, Given(o.floor), Given(o.threshold))
<1>1. IsSequence(fs) /\ \A i \in DOMAIN fs : Passes(fs[i], o.floor, o.threshold)
  BY OutcomeTells DEF KnownFindings, IsFindings
<1>2. FindingDigest(fs, o.floor, o.threshold) = DigestOf(fs)
  BY <1>1, DigestOfAll
<1>3. NormalConfidence(Given(o.floor)) = o.floor /\ Threshold(Given(o.threshold)) = o.threshold
  BY OutcomeTells, GivenIsMeant
<1>4. /\ made.digest = DigestOf(fs) /\ made.report.inputTotal = Len(fs)
      /\ made.report.droppedTotal = Len(fs) - DigestOf(fs).total
  BY <1>2, <1>3 DEF FilteredDigest
<1>5. DigestOf(fs).total = Len(fs) /\ Len(fs) \in Nat
  BY <1>1, SequenceFacts DEF DigestOf
<1> HIDE DEF made, fs
<1>6. made.report.droppedTotal = 0
  BY <1>4, <1>5
<1> QED
  BY <1>4, <1>6 DEF made, fs

\* A row that only changes its status holds what it held.
LEMMA RowStatusKeeps ==
    ASSUME NEW row, NEW S, NEW fs, Holds(row, S, fs), NEW status0
    PROVE  /\ Holds([row EXCEPT !.status = status0], S, fs)
           /\ [row EXCEPT !.status = status0].status = status0
<1> DEFINE new == [row EXCEPT !.status = status0]
<1>1. IsRow(row)
  BY DEF Holds
<1>2. IsRow(new) /\ new.findings = row.findings /\ new.status = status0
  BY <1>1 DEF IsRow
<1> HIDE DEF new
<1>3. Holds(new, S, fs)
  BY <1>2 DEF Holds
<1> QED
  BY <1>2, <1>3 DEF new

\* A completed row holds what it was completed with.
LEMMA CompletedHolds ==
    ASSUME NEW row, NEW p, KnownFindings(p.findings), SumsUp(p, p.findings), NEW memory
    PROVE  /\ Holds(Completed(row, p.findings, p.digest, 0, 0, memory),
                    {[digest |-> p.digest, report |-> p.report]}, p.findings)
           /\ Completed(row, p.findings, p.digest, 0, 0, memory).status = "completed"
<1> DEFINE fs == p.findings
           gs == [i \in DOMAIN fs |-> Stored(fs[i], memory)]
           new == Completed(row, fs, p.digest, 0, 0, memory)
           s == [digest |-> p.digest, report |-> p.report]
<1>1. IsRow(new) /\ new.findings = gs /\ new.status = "completed"
  BY DEF Completed, IsRow
<1>2. IsSequence(fs)
  BY DEF KnownFindings, IsFindings
<1>3. Retold(gs, fs)
  BY <1>2, StoredRetold
<1>4. \A i \in DOMAIN gs : IsStored(gs[i])
  BY StoredFacts
<1>5. s.digest = p.digest /\ s.report = p.report
  OBVIOUS
<1> HIDE DEF s, new, gs
<1>6. SumsUp(s, fs)
  BY <1>5 DEF SumsUp
<1>7. Holds(new, {s}, fs)
  BY <1>1, <1>3, <1>4, <1>6 DEF Holds
<1> QED
  BY <1>1, <1>7 DEF new, s

\* A row that a reviewer acts on holds what it held.
LEMMA TriagedHolds ==
    ASSUME NEW row, NEW S, NEW fs, Holds(row, S, fs), NEW T, NEW state0 \in {"open", "dismissed"}
    PROVE  Holds(WithState(row, T, state0), S, fs) /\ WithState(row, T, state0).status = row.status
<1> DEFINE new == WithState(row, T, state0)
<1>1. IsRow(row) /\ (\A i \in DOMAIN row.findings : IsStored(row.findings[i])) /\ Retold(row.findings, fs)
  BY DEF Holds
<1>2. /\ IsRow(new) /\ DOMAIN new.findings = DOMAIN row.findings
      /\ \A i \in DOMAIN row.findings : IsStored(new.findings[i])
  BY <1>1, WithStateFacts
<1>3. Retold(new.findings, fs) /\ new.status = row.status
  BY <1>1, TriagedRetold
<1> HIDE DEF new
<1>4. Holds(new, S, fs)
  BY <1>2, <1>3 DEF Holds
<1> QED
  BY <1>3, <1>4 DEF new

\* One more set of findings to post, at most.
LEMMA OneMorePosted ==
    ASSUME RunsCounted, NEW e
    PROVE  /\ IsFiniteSet(posting \cup {e}) /\ Cardinality(posting \cup {e}) \in Nat
           /\ Cardinality(posting \cup {e}) <= Cardinality(posting) + 1 /\ Cardinality(posting) \in Nat
<1>1. IsFiniteSet(posting)
  BY DEF RunsCounted
<1>2. /\ IsFiniteSet(posting \cup {e})
      /\ Cardinality(posting \cup {e}) = IF e \in posting THEN Cardinality(posting) ELSE Cardinality(posting) + 1
  BY <1>1, FS_AddElement
<1>3. Cardinality(posting) \in Nat
  BY <1>1, FS_CardinalityType
<1> QED
  BY <1>2, <1>3

\* A run that ends, in whatever way, is one run less.
LEMMA OneRunLess ==
    ASSUME RunsCounted, NEW p \in posting
    PROVE  /\ IsFiniteSet(posting \ {p}) /\ Cardinality(posting \ {p}) = Cardinality(posting) - 1
           /\ Cardinality(posting) \in Nat \ {0}
<1>1. IsFiniteSet(posting)
  BY DEF RunsCounted
<1> QED
  BY <1>1, FS_RemoveElement, FS_CardinalityType, FS_EmptySet

\* A review that is asked for, or asked for again, starts from an empty row.
LEMMA StartKeepsRow ==
    ASSUME ReadsInv, StartReviewed
    PROVE  RowTold' /\ PostingTold' /\ RunsCounted'
<1>1. record' = [record EXCEPT !.status = "queued"] /\ UNCHANGED <<summary, posting, working, runs, triage>>
  BY DEF StartReviewed, Started
<1>2. PICK fs : Holds(record, summary, fs)
  BY DEF ReadsInv, RowTold
<1>3. Holds(record', summary', fs) /\ record'.status = "queued"
  BY <1>1, <1>2, RowStatusKeeps
<1>4. RowTold'
  BY <1>3 DEF RowTold
<1> QED
  BY <1>1, <1>4 DEF ReadsInv, PostingTold, RunsCounted

\* A run that begins leaves the findings as they are.
LEMMA BeginKeepsRow ==
    ASSUME ReadsInv, BeginRun
    PROVE  RowTold' /\ PostingTold' /\ RunsCounted'
<1>1. /\ record' = [record EXCEPT !.status = "running"] /\ UNCHANGED <<summary, posting, triage>>
      /\ runs < MaxRuns /\ runs' = runs + 1 /\ working' = working + 1
  BY DEF BeginRun
<1>2. PICK fs : Holds(record, summary, fs)
  BY DEF ReadsInv, RowTold
<1>3. Holds(record', summary', fs) /\ record'.status = "running"
  BY <1>1, <1>2, RowStatusKeeps
<1>4. RowTold'
  BY <1>3 DEF RowTold
<1>5. RunsCounted'
  BY <1>1, FS_CardinalityType, ReviewReadsAssumption DEF ReadsInv, RunsCounted
<1> QED
  BY <1>1, <1>4, <1>5 DEF ReadsInv, PostingTold

\* A run that ends its work hands over findings with the digest and the report of them.
LEMMA SummariseKeeps ==
    ASSUME ReadsInv, NEW o \in Outcomes, Summarise(o)
    PROVE  RowTold' /\ PostingTold' /\ RunsCounted'
<1> DEFINE made == FilteredDigest(o.findings, Given(o.floor), Given(o.threshold))
           p == [id |-> runs - working, findings |-> o.findings,
                 digest |-> made.digest, report |-> made.report]
<1>1. /\ working > 0 /\ working' = working - 1 /\ posting' = posting \cup {p}
      /\ UNCHANGED <<record, summary, runs, triage>>
  BY DEF Summarise
<1>2. /\ made.digest = DigestOf(o.findings)
      /\ made.report.inputTotal = Len(o.findings) /\ made.report.droppedTotal = 0
  BY MadeSumsUp
<1>3. KnownFindings(o.findings)
  BY OutcomeTells
<1>4. p.findings = o.findings /\ p.digest = made.digest /\ p.report = made.report
  OBVIOUS
<1> HIDE DEF made, p
<1>5. KnownFindings(p.findings) /\ SumsUp(p, p.findings)
  BY <1>2, <1>3, <1>4 DEF SumsUp
<1>6. PostingTold'
  BY <1>1, <1>5 DEF ReadsInv, PostingTold
<1>7. RunsCounted'
  <2>1. RunsCounted
    BY DEF ReadsInv
  <2>2. /\ IsFiniteSet(posting') /\ Cardinality(posting') \in Nat
        /\ Cardinality(posting') <= Cardinality(posting) + 1 /\ Cardinality(posting) \in Nat
    BY <1>1, <2>1, OneMorePosted
  <2>3. /\ working \in Nat /\ working + Cardinality(posting) <= runs
        /\ runs \in 0 .. MaxRuns /\ triage \in 0 .. MaxTriage
    BY <2>1 DEF RunsCounted
  <2>4. working' \in Nat /\ working' + Cardinality(posting') <= runs
    BY <1>1, <2>2, <2>3, ReviewReadsAssumption
  <2> QED
    BY <1>1, <2>2, <2>3, <2>4 DEF RunsCounted
<1>8. RowTold'
  BY <1>1 DEF ReadsInv, RowTold
<1> QED
  BY <1>6, <1>7, <1>8

\* A run that is told to the store replaces row and summary together.
LEMMA CompleteKeeps ==
    ASSUME ReadsInv, NEW p \in posting, CompleteRun(p)
    PROVE  RowTold' /\ PostingTold' /\ RunsCounted'
<1>1. /\ posting' = posting \ {p} /\ record' = Completed(record, p.findings, p.digest, 0, 0, prints)
      /\ summary' = {[digest |-> p.digest, report |-> p.report]} /\ UNCHANGED <<working, runs, triage>>
  BY DEF CompleteRun
<1>2. KnownFindings(p.findings) /\ SumsUp(p, p.findings)
  BY DEF ReadsInv, PostingTold
<1>3. Holds(record', summary', p.findings) /\ record'.status = "completed"
  BY <1>1, <1>2, CompletedHolds
<1>4. RowTold'
  BY <1>3 DEF RowTold
<1>5. RunsCounted'
  <2>1. RunsCounted
    BY DEF ReadsInv
  <2>2. /\ IsFiniteSet(posting') /\ Cardinality(posting') = Cardinality(posting) - 1
        /\ Cardinality(posting) \in Nat \ {0}
    BY <1>1, <2>1, OneRunLess
  <2> QED
    BY <1>1, <2>1, <2>2, ReviewReadsAssumption DEF RunsCounted
<1>6. PostingTold'
  BY <1>1 DEF ReadsInv, PostingTold
<1> QED
  BY <1>4, <1>5, <1>6

\* A run that fails is one run less and leaves the findings as they are.
LEMMA FailKeepsRow ==
    ASSUME ReadsInv, FailRun
    PROVE  RowTold' /\ PostingTold' /\ RunsCounted'
<1>1. record' = [record EXCEPT !.status = "failed"] /\ UNCHANGED <<summary, runs, triage>>
  BY DEF FailRun
<1>2. PICK fs : Holds(record, summary, fs)
  BY DEF ReadsInv, RowTold
<1>3. Holds(record', summary', fs) /\ record'.status = "failed"
  BY <1>1, <1>2, RowStatusKeeps
<1>4. RowTold'
  BY <1>3 DEF RowTold
<1>5. RunsCounted
  BY DEF ReadsInv
<1>6. RunsCounted' /\ posting' \subseteq posting
  <2>1. CASE working > 0 /\ working' = working - 1 /\ UNCHANGED posting
    BY <1>1, <1>5, <2>1, FS_CardinalityType DEF RunsCounted
  <2>2. ASSUME NEW p \in posting, posting' = posting \ {p}, UNCHANGED working
        PROVE  RunsCounted' /\ posting' \subseteq posting
    <3>1. /\ IsFiniteSet(posting') /\ Cardinality(posting') = Cardinality(posting) - 1
          /\ Cardinality(posting) \in Nat \ {0}
      BY <1>5, <2>2, OneRunLess
    <3> QED
      BY <1>1, <1>5, <2>2, <3>1, ReviewReadsAssumption DEF RunsCounted
  <2> QED
    BY <2>1, <2>2 DEF FailRun
<1>7. PostingTold'
  BY <1>6 DEF ReadsInv, PostingTold
<1> QED
  BY <1>4, <1>6, <1>7

\* Reviewers change the states of findings, and nothing the summary counts.
LEMMA ActKeepsRow ==
    ASSUME ReadsInv, NEW T, NEW state0 \in {"open", "dismissed"}, Act(T, state0)
    PROVE  RowTold' /\ PostingTold' /\ RunsCounted'
<1>1. /\ record' = WithState(record, T, state0) /\ triage < MaxTriage /\ triage' = triage + 1
      /\ UNCHANGED <<summary, working, posting, runs>>
  BY DEF Act
<1>2. PICK fs : Holds(record, summary, fs)
  BY DEF ReadsInv, RowTold
<1>3. Holds(record', summary', fs) /\ record'.status = record.status
  BY <1>1, <1>2, TriagedHolds
<1>4. RowTold'
  BY <1>3 DEF ReadsInv, RowTold
<1>5. RunsCounted'
  BY <1>1, ReviewReadsAssumption DEF ReadsInv, RunsCounted
<1> QED
  BY <1>1, <1>4, <1>5 DEF ReadsInv, PostingTold

\* What the worker and the reviewers do while nothing is asked.
LEMMA ChangeKeeps == ReadsInv /\ ChangeReview => ReadsInv'
<1> SUFFICES ASSUME ReadsInv, ChangeReview
             PROVE  ReadsInv'
  OBVIOUS
<1>1. RowTold' /\ PostingTold' /\ RunsCounted'
  BY StartKeepsRow, BeginKeepsRow, SummariseKeeps, CompleteKeeps, FailKeepsRow, ActKeepsRow
     DEF ChangeReview, ActOnFindings
<1>2. reply' = {}
  <2>1. reply = {}
    BY DEF ChangeReview
  <2>2. UNCHANGED reply
    BY DEF ChangeReview, StartReviewed, BeginRun, Summarise, CompleteRun, FailRun, ActOnFindings, Act
  <2> QED
    BY <2>1, <2>2
<1> QED
  BY <1>1, <1>2, NoneAskedNext DEF ReadsInv

-----------------------------------------------------------------------------
(* The reads of one review: their answers.                                 *)

\* An answer that agrees is all that has been asked.
LEMMA OneAsked ==
    ASSUME NEW a, reply' = {a},
           a.status = 200 =>
             /\ a.read = "digest" => DigestAgrees(a, record', counted')
             /\ a.read = "filter-report" => \A s \in summary' : ReportAgrees(a, s.report, record', counted')
             /\ a.read = "detail" => DetailAgrees(a)
             /\ a.read = "report.md" => MarkdownAgrees(a, record')
             /\ a.read = "junit.xml" => JUnitAgrees(a, record')
             /\ a.read = "findings.csv" => CsvAgrees(a, record')
             /\ a.read = "sarif" => SarifAgrees(a, record')
    PROVE  ReadsAgree' /\ \E b : reply' = {b}
<1>1. \A r : \A b \in Answered(r)' : b = a /\ a.read = r /\ a.status = 200
  BY DEF Answered
<1> QED
  BY <1>1 DEF ReadsAgree

\* A refusal tells nothing.
LEMMA RefusalAgrees ==
    ASSUME NEW r, NEW errno \in {400, 404}, NEW q, Refuse(r, errno, q)
    PROVE  ReadsAgree' /\ \E b : reply' = {b}
<1> DEFINE a == [read |-> r, status |-> errno, query |-> q, body |-> <<>>]
<1>1. reply' = {a} /\ a.status # 200
  BY DEF Refuse, Answer
<1> HIDE DEF a
<1> QED
  BY <1>1, OneAsked

\* GET /api/reviews/:id/digest agrees.
LEMMA DigestReadAgrees ==
    ASSUME RowTold, UNCHANGED writeVars, NEW q, ReadDigest(q)
    PROVE  ReadsAgree' /\ \E b : reply' = {b}
<1>1. PICK fs : Holds(record, summary, fs)
  BY DEF RowTold
<1>2. record' = record /\ summary' = summary
  BY DEF writeVars
<1>3. CASE Refuse("digest", 400, q) \/ Refuse("digest", 404, q)
  <2> DEFINE r == "digest"
  <2>1. \E errno \in {400, 404} : Refuse(r, errno, q)
    BY <1>3
  <2> HIDE DEF r
  <2>2. PICK errno \in {400, 404} : Refuse(r, errno, q)
    BY <2>1
  <2> QED
    BY <2>2, RefusalAgrees
<1>4. CASE SlimOk(q.slim) /\ CachedDigest(q)
  <2> DEFINE body == [persisted |-> {SlimDigest(s.digest, q.slim) : s \in summary},
                      fresh |-> {}, drift |-> {}, slimFields |-> Stripped(q.slim),
                      confidence |-> NormalConfidence(q.confidence), severity |-> NormalSeverity(q.severity),
                      filterDropped |-> IF summary = {} THEN 0
                                        ELSE (CHOOSE s \in summary : TRUE).report.droppedTotal,
                      filterInputTotal |-> IF summary = {} THEN Len(record.findings)
                                           ELSE (CHOOSE s \in summary : TRUE).report.inputTotal]
             a == [read |-> "digest", status |-> 200, query |-> q, body |-> body]
  <2>0. Answer("digest", 200, q, body)
    BY <1>4 DEF CachedDigest
  <2> HIDE DEF body
  <2>1. reply' = {a} /\ a.read = "digest" /\ a.status = 200 /\ a.query = q /\ a.body = body
    BY <2>0 DEF Answer
  <2> HIDE DEF a
  <2>2. counted' = {}
    BY <1>4 DEF CachedDigest
  <2>3. DigestAgrees(a, record', counted')
    BY <1>1, <1>2, <1>4, <2>1, <2>2, CachedAgrees DEF body
  <2> QED
    BY <2>1, <2>3, OneAsked
<1>5. CASE SlimOk(q.slim) /\ q.recompute = "fresh" /\ FreshDigest(q)
  <2> DEFINE made == FilteredDigest(record.findings, q.confidence, q.severity)
             drift == DigestDrift(DigestOf(fs), made.digest)
             tally == DriftCount(drift) \cup FilterCount(made.report)
             body == [persisted |-> {SlimDigest(s.digest, q.slim) : s \in summary},
                      fresh |-> {SlimDigest(made.digest, q.slim)}, drift |-> {drift},
                      slimFields |-> Stripped(q.slim),
                      confidence |-> NormalConfidence(q.confidence), severity |-> NormalSeverity(q.severity),
                      filterDropped |-> made.report.droppedTotal,
                      filterInputTotal |-> made.report.inputTotal]
             a == [read |-> "digest", status |-> 200, query |-> q, body |-> body]
  <2>1. Persisted = DigestOf(fs)
    BY <1>1, PersistedTells DEF Persisted
  <2>0. Answer("digest", 200, q, body)
    BY <1>5, <2>1 DEF FreshDigest
  <2> HIDE DEF body
  <2>2. reply' = {a} /\ a.read = "digest" /\ a.status = 200 /\ a.query = q /\ a.body = body
    BY <2>0 DEF Answer
  <2> HIDE DEF a
  <2>3. counted' = tally
    BY <1>5, <2>1 DEF FreshDigest
  <2>4. DigestAgrees(a, record', counted')
    BY <1>1, <1>2, <1>5, <2>2, <2>3, FreshAgrees DEF body
  <2> QED
    BY <2>2, <2>4, OneAsked
<1> QED
  BY <1>3, <1>4, <1>5 DEF ReadDigest

\* GET /api/reviews/:id/filter-report agrees.
LEMMA ReportReadAgrees ==
    ASSUME RowTold, UNCHANGED writeVars, NEW q \in ReportQueries, ReadReport(q)
    PROVE  ReadsAgree' /\ \E b : reply' = {b}
<1>1. PICK fs : Holds(record, summary, fs)
  BY DEF RowTold
<1>2. record' = record /\ summary' = summary /\ q.slim \in BOOLEAN
  BY ReviewReadsAssumption DEF writeVars
<1>3. CASE Refuse("filter-report", 400, q) \/ Refuse("filter-report", 404, q)
  <2> DEFINE r == "filter-report"
  <2>1. \E errno \in {400, 404} : Refuse(r, errno, q)
    BY <1>3
  <2> HIDE DEF r
  <2>2. PICK errno \in {400, 404} : Refuse(r, errno, q)
    BY <2>1
  <2> QED
    BY <2>2, RefusalAgrees
<1>4. ASSUME ~(q.slim /\ q.fields # <<>>), NEW s \in summary,
             Answer("filter-report", 200, q, ReportBody(s.report, q)),
             counted' = ReportCount(q.slim) \cup ProjectionCount(q.slim, q.fields # <<>>)
      PROVE  ReadsAgree' /\ \E b : reply' = {b}
  <2> DEFINE body == ReportBody(s.report, q)
             a == [read |-> "filter-report", status |-> 200, query |-> q, body |-> body]
  <2>0. Answer("filter-report", 200, q, body)
    BY <1>4
  <2> HIDE DEF body
  <2>1. reply' = {a} /\ a.read = "filter-report" /\ a.status = 200 /\ a.query = q /\ a.body = body
    BY <2>0 DEF Answer
  <2> HIDE DEF a
  <2>2. ReportAgrees(a, s.report, record', counted')
    <3>1. a.query = q /\ a.body = ReportBody(s.report, q)
      BY <2>1 DEF body
    <3>2. ReportAsked(q, counted')
      BY <1>2, <1>4 DEF ReportAsked
    <3>3. ASSUME NEW tally, ReportAsked(q, tally)
          PROVE  ReportAgrees(a, s.report, record, tally)
      BY <1>1, <3>1, <3>3, ReportIsTold
    <3> QED
      BY <1>2, <3>2, <3>3
  <2>3. \A s2 \in summary' : s2 = s
    BY <1>1, <1>2, <1>4 DEF Holds
  <2>4. \A s2 \in summary' : ReportAgrees(a, s2.report, record', counted')
    BY <2>2, <2>3
  <2> QED
    BY <2>1, <2>4, OneAsked
<1> QED
  BY <1>3, <1>4 DEF ReadReport

\* The other reads agree.
LEMMA DocumentReadAgrees ==
    ASSUME RowTold, UNCHANGED writeVars,
           \/ ReadDetail \/ ReadJUnit \/ ReadSarif
           \/ \E all \in BOOLEAN : ReadMarkdown(all) \/ ReadCsv(all)
    PROVE  ReadsAgree' /\ \E b : reply' = {b}
<1>1. PICK fs : Holds(record, summary, fs)
  BY DEF RowTold
<1>2. record' = record /\ summary' = summary
  BY DEF writeVars
<1>3. CASE ReadDetail
  <2> DEFINE body == Beside(ListEntry(record), [findings |-> record.findings,
                           digest |-> {s.digest : s \in summary}, report |-> {s.report : s \in summary}])
             a == [read |-> "detail", status |-> 200, query |-> <<>>, body |-> body]
  <2>0. Answer("detail", 200, <<>>, body)
    BY <1>3 DEF ReadDetail
  <2> HIDE DEF body
  <2>1. reply' = {a} /\ a.read = "detail" /\ a.body = body
    BY <2>0 DEF Answer
  <2> HIDE DEF a
  <2>2. DetailAgrees(a)
    BY <1>1, <2>1, DetailIsTold DEF body
  <2> QED
    BY <2>1, <2>2, OneAsked
<1>4. CASE ReadJUnit
  <2> DEFINE body == JUnitCounts(record.findings)
             a == [read |-> "junit.xml", status |-> 200, query |-> <<>>, body |-> body]
  <2>0. Answer("junit.xml", 200, <<>>, body)
    BY <1>4 DEF ReadJUnit
  <2> HIDE DEF body
  <2>1. reply' = {a} /\ a.read = "junit.xml" /\ a.body = body
    BY <2>0 DEF Answer
  <2> HIDE DEF a
  <2>2. JUnitAgrees(a, record')
    BY <1>1, <1>2, <2>1, JUnitIsTold DEF body
  <2> QED
    BY <2>1, <2>2, OneAsked
<1>5. CASE ReadSarif
  <2> DEFINE body == SarifResults(record.findings)
             a == [read |-> "sarif", status |-> 200, query |-> <<>>, body |-> body]
  <2>0. Answer("sarif", 200, <<>>, body)
    BY <1>5 DEF ReadSarif
  <2> HIDE DEF body
  <2>1. reply' = {a} /\ a.read = "sarif" /\ a.body = body
    BY <2>0 DEF Answer
  <2> HIDE DEF a
  <2>2. SarifAgrees(a, record')
    BY <1>1, <1>2, <2>1, SarifIsTold DEF body
  <2> QED
    BY <2>1, <2>2, OneAsked
<1>6. ASSUME NEW all \in BOOLEAN, ReadMarkdown(all)
      PROVE  ReadsAgree' /\ \E b : reply' = {b}
  <2> DEFINE body == [totals |-> ReportTotals(record.findings), sections |-> ReportSections(record.findings),
                      dismissed |-> IF all THEN {i \in DOMAIN record.findings :
                                                    record.findings[i].state = "dismissed"}
                                    ELSE {}]
             a == [read |-> "report.md", status |-> 200, query |-> all, body |-> body]
  <2>0. Answer("report.md", 200, all, body)
    BY <1>6 DEF ReadMarkdown
  <2> HIDE DEF body
  <2>1. reply' = {a} /\ a.read = "report.md" /\ a.query = all /\ a.body = body
    BY <2>0 DEF Answer
  <2> HIDE DEF a
  <2>2. MarkdownAgrees(a, record')
    BY <1>1, <1>2, <2>1, MarkdownIsTold DEF body
  <2> QED
    BY <2>1, <2>2, OneAsked
<1>7. ASSUME NEW all \in BOOLEAN, ReadCsv(all)
      PROVE  ReadsAgree' /\ \E b : reply' = {b}
  <2> DEFINE body == CsvRows(record.findings, all)
             a == [read |-> "findings.csv", status |-> 200, query |-> all, body |-> body]
  <2>0. Answer("findings.csv", 200, all, body)
    BY <1>7 DEF ReadCsv
  <2> HIDE DEF body
  <2>1. reply' = {a} /\ a.read = "findings.csv" /\ a.query = all /\ a.body = body
    BY <2>0 DEF Answer
  <2> HIDE DEF a
  <2>2. CsvAgrees(a, record')
    BY <1>2, <2>1, CsvIsTold DEF body
  <2> QED
    BY <2>1, <2>2, OneAsked
<1> QED
  BY <1>3, <1>4, <1>5, <1>6, <1>7

\* Every read agrees with what it reads, and changes nothing.
LEMMA ReadsKeepInv == ReadsInv /\ ReadReview => ReadsInv'
<1> SUFFICES ASSUME ReadsInv, ReadReview
             PROVE  ReadsInv'
  OBVIOUS
<1>1. RowTold /\ UNCHANGED writeVars
  BY DEF ReadsInv, ReadReview
<1>2. ReadsAgree' /\ \E b : reply' = {b}
  <2>1. ASSUME NEW q, ReadDigest(q)
        PROVE  ReadsAgree' /\ \E b : reply' = {b}
    BY <1>1, <2>1, DigestReadAgrees
  <2>2. ASSUME NEW q \in ReportQueries, ReadReport(q)
        PROVE  ReadsAgree' /\ \E b : reply' = {b}
    BY <1>1, <2>2, ReportReadAgrees
  <2>4. ASSUME \/ ReadDetail \/ ReadJUnit \/ ReadSarif
               \/ \E all \in BOOLEAN : ReadMarkdown(all) \/ ReadCsv(all)
        PROVE  ReadsAgree' /\ \E b : reply' = {b}
    BY <1>1, <2>4, DocumentReadAgrees
  <2>5. ASSUME NEW r, Refuse(r, 400, <<>>) \/ Refuse(r, 404, <<>>)
        PROVE  ReadsAgree' /\ \E b : reply' = {b}
    <3> DEFINE none == <<>>
    <3>1. \E errno \in {400, 404} : Refuse(r, errno, none)
      BY <2>5
    <3> HIDE DEF none
    <3>2. PICK errno \in {400, 404} : Refuse(r, errno, none)
      BY <3>1
    <3> QED
      BY <3>2, RefusalAgrees
  <2> DEFINE good == ReadsAgree' /\ \E b : reply' = {b}
  <2>6. /\ \A q : ReadDigest(q) => good
        /\ \A q \in ReportQueries : ReadReport(q) => good
        /\ \A r : Refuse(r, 400, <<>>) \/ Refuse(r, 404, <<>>) => good
        /\ \A all \in BOOLEAN : ReadMarkdown(all) \/ ReadCsv(all) => good
        /\ ReadDetail \/ ReadJUnit \/ ReadSarif => good
    BY <2>1, <2>2, <2>4, <2>5
  <2> HIDE DEF good
  <2>7. good
    BY <2>6 DEF ReadReview
  <2> QED
    BY <2>7 DEF good
<1>3. RowTold' /\ PostingTold' /\ RunsCounted'
  BY <1>1 DEF ReadsInv, RowTold, PostingTold, RunsCounted, writeVars
<1> QED
  BY <1>2, <1>3 DEF ReadsInv

\* Every step keeps the invariant.
LEMMA NextReads == ReadsInv /\ [ReadsNext]_readVars => ReadsInv'
<1> SUFFICES ASSUME ReadsInv, [ReadsNext]_readVars
             PROVE  ReadsInv'
  OBVIOUS
<1>1. CASE UNCHANGED readVars
  <2>1. /\ record' = record /\ summary' = summary /\ posting' = posting /\ working' = working
        /\ runs' = runs /\ triage' = triage /\ reply' = reply /\ counted' = counted
    BY <1>1 DEF readVars, writeVars
  <2>2. RowTold' /\ PostingTold' /\ RunsCounted' /\ (\E a : reply' = {} \/ reply' = {a})
    BY <2>1 DEF ReadsInv, RowTold, PostingTold, RunsCounted
  <2>3. ReadsAgree'
    BY <2>1 DEF ReadsInv, ReadsAgree, Answered
  <2> QED
    BY <2>2, <2>3 DEF ReadsInv
<1>2. CASE Look
  <2>1. reply' = {} /\ UNCHANGED writeVars
    BY <1>2 DEF Look
  <2>2. RowTold' /\ PostingTold' /\ RunsCounted'
    BY <2>1 DEF ReadsInv, RowTold, PostingTold, RunsCounted, writeVars
  <2> QED
    BY <2>1, <2>2, NoneAskedNext DEF ReadsInv
<1> QED
  BY <1>1, <1>2, ChangeKeeps, ReadsKeepInv DEF ReadsNext

\* Whatever the worker and the reviewers do in between, the invariant holds.
THEOREM ReadsKeepTrack == ReadsSpec => []ReadsInv
  BY InitReads, NextReads, PTL DEF ReadsSpec

\* Every reachable state of the review that is read has the declared types, and no more runs
\* are under way than have begun.
THEOREM ReadsTypesKept == ReadsSpec => []ReadTypes
<1>1. ReadsInv => ReadTypes
  <2> SUFFICES ASSUME ReadsInv
               PROVE  ReadTypes
    OBVIOUS
  <2>0. ASSUME NEW T, NEW a, T = {} \/ T = {a}
        PROVE  Cardinality(T) <= 1
    <3>1. Cardinality({}) = 0 /\ Cardinality({a}) = 1
      BY FS_EmptySet, FS_Singleton
    <3> QED
      BY <2>0, <3>1
  <2>1. PICK fs : Holds(record, summary, fs)
    BY DEF ReadsInv, RowTold
  <2>2. \E a : summary = {} \/ summary = {a}
    BY <2>1 DEF Holds
  <2>3. Cardinality(summary) <= 1 /\ Cardinality(reply) <= 1
    BY <2>0, <2>2 DEF ReadsInv
  <2>4. \A i \in DOMAIN record.findings : record.findings[i].state \in {"open", "dismissed"}
    BY <2>1, RowLegible
  <2>5. /\ working \in 0 .. MaxRuns /\ working + Cardinality(posting) <= MaxRuns
        /\ runs \in 0 .. MaxRuns /\ triage \in 0 .. MaxTriage
    BY FS_CardinalityType, ReviewReadsAssumption DEF ReadsInv, RunsCounted
  <2> QED
    BY <2>3, <2>4, <2>5 DEF ReadsInv, RowTold, ReadTypes
<1> QED
  BY ReadsKeepTrack, <1>1, PTL

\* All reads of one review agree about it and with the counters they move, for any
\* findings, filters, queries and actions of reviewers, however often it is run.
THEOREM ReadsAlwaysAgree == ReadsSpec => []ReadsAgree
<1>1. ReadsInv => ReadsAgree
  BY DEF ReadsInv
<1> QED
  BY ReadsKeepTrack, <1>1, PTL

-----------------------------------------------------------------------------
(* All clients.                                                            *)

\* Who is followed takes the steps of that client, the others stand still.
LEMMA StepsOfClients ==
    [Next]_vars => /\ [DeliveryNext]_deliveryVars /\ [ReviewNext]_reviewVars /\ [CommandNext]_commandVars
                   /\ [PresetNext]_presetVars /\ [DeskNext]_deskVars /\ [BrowserNext]_browserVars
                   /\ [ReadsNext]_readVars
BY DEF Next, vars

\* Each client behaves as it does alone.
LEMMA ClientsBehave ==
    Spec => /\ DeliverySpec /\ ReviewSpec /\ ReadsSpec /\ CommandSpec /\ PresetSpec /\ DeskSpec
            /\ BrowserSpec
<1>1. Init => /\ DeliveryInit /\ ReviewInit /\ ReadInit /\ CommandInit /\ PresetInit /\ DeskInit
              /\ BrowserInit
  BY DEF Init
<1> QED
  BY <1>1, StepsOfClients, PTL
     DEF Spec, DeliverySpec, ReviewSpec, ReadsSpec, CommandSpec, PresetSpec, DeskSpec, BrowserSpec

\* Every variable of the seven clients has its type, whoever is followed.
THEOREM ClientsTyped == Spec => []TypeOK
BY ClientsBehave, DeliveriesTyped, ReviewsTyped, ReadsTypesKept, CommandsTyped, PresetsTyped,
   DeskTellsTruth, BrowserTellsTruth, PTL DEF TypeOK

\* The dashboard beside the other clients: what it shows, tells and promises is so, for the
\* operator who triages and for the one who browses.
THEOREM DashboardTellsTruth == Spec => []DashboardIsTrue
<1>1. DeskTypes /\ DeskIsTrue /\ BrowserTypes /\ BrowserIsTrue => DashboardIsTrue
  BY DEF DashboardIsTrue
<1> QED
  BY <1>1, ClientsBehave, DeskTellsTruth, BrowserTellsTruth, PTL

\* What the readers and the commands rely on holds where all clients run as well.
THEOREM ClientsCanRely ==
    Spec => [](/\ WalkIsFaithful /\ StatsAgree /\ MissesBounded /\ ReadsAgree
               /\ TellsTruth /\ ChainsResolve)
BY ClientsBehave, WalksAreFaithful, StatsAlwaysAgree, MissesAreBounded, ReadsAlwaysAgree,
   CommandsTellTruth, ChainsAlwaysResolve, PTL
=============================================================================
