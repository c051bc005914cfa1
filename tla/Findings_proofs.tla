--------------------------- MODULE Findings_proofs --------------------------
(***************************************************************************)
(* What the passes over findings do, for any findings: that each pass      *)
(* takes typed findings to typed findings; that what rankFindings and the  *)
(* cap hide is what the report counts as hidden; and that of the findings  *)
(* given to aggregate(), each that is confident enough is reported, or     *)
(* stands in a cluster behind one that is (AggregateAccounts). What every  *)
(* output says of the findings follows from how often each severity,       *)
(* category, agent, tag and file occurs among them, which neither the      *)
(* store nor a reviewer changes. Nothing here is about a state: the        *)
(* reviews of a pull request are in PullRequest_proofs, the reads of one   *)
(* review in Clients_proofs.                                               *)
(*                                                                         *)
(* First comes what the proofs need of numbers, finite sets and sequences  *)
(* beyond the library: least members and induction over a set, ranks in an *)
(* order, the sizes of the classes of a set, sums, and the steps of a      *)
(* fold. The library's induction theorems have a predicate as a parameter; *)
(* here the predicate is a set of numbers, so the lemmas can be applied.   *)
(***************************************************************************)
EXTENDS ReviewStore, FiniteSetTheorems, SequenceTheorems, FunctionTheorems, TLAPS

-----------------------------------------------------------------------------
(* Numbers.                                                                *)

\* A set of naturals has a least member, and a greatest one if it is bounded.
LEMMA Least ==
    ASSUME NEW T \in SUBSET Nat, T # {}
    PROVE  \E s \in T : \A u \in T : s <= u
<1> DEFINE R == {ss \in Nat \X Nat : ss[1] < ss[2]}
<1>1. IsWellFoundedOn(R, Nat)
  BY NatLessThanWellFounded DEF OpToRel
<1>2. PICK s \in T : \A u \in T : ~(<<u, s>> \in R)
  <2>1. T \subseteq Nat /\ T # {}
    OBVIOUS
  <2> HIDE DEF R
  <2> QED BY <1>1, <2>1, WFMin
<1>3. \A u \in T : ~(u < s) /\ u \in Nat /\ s \in Nat
  BY <1>2
<1>4. \A u \in T : s <= u
  BY <1>3
<1> QED BY <1>4

\* A set of numbers up to n has a greatest one.
LEMMA Greatest ==
    ASSUME NEW n \in Nat, NEW T \in SUBSET (0 .. n), T # {}
    PROVE  \E s \in T : \A u \in T : u <= s
<1> DEFINE D == {n - u : u \in T}
<1>1. D \in SUBSET Nat /\ D # {}
  <2>1. ASSUME NEW u \in T PROVE n - u \in Nat
    <3>1. u \in Nat /\ u <= n
      OBVIOUS
    <3> QED BY <3>1
  <2> QED BY <2>1
<1>2. PICK s \in D : \A u \in D : s <= u
  <2> HIDE DEF D
  <2> QED BY <1>1, Least
<1>3. PICK g \in T : s = n - g
  BY <1>2
<1>4. \A u \in T : n - g <= n - u
  BY <1>2, <1>3
<1> QED BY <1>4

\* Min and Max of some of the numbers up to n.
LEMMA MinMax ==
    ASSUME NEW n \in Nat, NEW T \in SUBSET (0 .. n), T # {}
    PROVE  /\ Min(T) \in T /\ \A u \in T : Min(T) <= u
           /\ Max(T) \in T /\ \A u \in T : u <= Max(T)
<1>1. \E s \in T : \A u \in T : s <= u
  <2>1. T \in SUBSET Nat
    OBVIOUS
  <2> QED BY <2>1, Least
<1>2. \E s \in T : \A u \in T : s >= u
  <2>1. PICK s \in T : \A u \in T : u <= s
    BY Greatest
  <2>2. \A u \in T : s >= u
    BY <2>1
  <2> QED BY <2>2
<1>3. Min(T) \in T /\ \A u \in T : Min(T) <= u
  BY <1>1 DEF Min
<1>4. Max(T) \in T /\ \A u \in T : Max(T) >= u
  BY <1>2 DEF Max
<1>5. \A u \in T : u <= Max(T)
  BY <1>4
<1> QED BY <1>3, <1>4, <1>5

\* Induction up to n, over a set.
LEMMA UpTo ==
    ASSUME NEW n \in Nat, NEW I, 0 \in I,
           \A i \in 0 .. n - 1 : i \in I => i + 1 \in I
    PROVE  \A i \in 0 .. n : i \in I
<1> SUFFICES ASSUME NEW k \in 0 .. n, k \notin I PROVE FALSE
  OBVIOUS
<1> DEFINE T == {i \in 0 .. n : i \notin I}
<1>1. T \in SUBSET Nat /\ T # {}
  OBVIOUS
<1>2. PICK s \in T : \A u \in T : s <= u
  <2> HIDE DEF T
  <2> QED BY <1>1, Least
<1>3. s \in 0 .. n /\ s # 0 /\ s \notin I
  BY <1>2
<1>4. s - 1 \in 0 .. n - 1 /\ s - 1 \in 0 .. n /\ ~(s <= s - 1) /\ (s - 1) + 1 = s
  BY <1>3
<1>5. s - 1 \in I
  BY <1>2, <1>4
<1>6. (s - 1) + 1 \in I
  BY <1>4, <1>5
<1> QED BY <1>3, <1>4, <1>6

\* The numbers from 1 to n.
LEMMA UpToCount ==
    ASSUME NEW n \in Nat
    PROVE  IsFiniteSet(1 .. n) /\ Cardinality(1 .. n) = n
<1>1. IsFiniteSet(1 .. n) /\ Cardinality(1 .. n) = IF 1 > n THEN 0 ELSE n - 1 + 1
  BY FS_Interval
<1> QED BY <1>1

\* Where a number stands among the multiples of another.
LEMMA Multiples ==
    ASSUME NEW x \in Nat, NEW s \in Nat \ {0}, NEW n \in Nat
    PROVE  /\ x \div s \in Nat
           /\ x \div s < n <=> x < s * n
<1> DEFINE q == x \div s
<1>1. x = s * q + (x % s) /\ x % s < s /\ q \in Int /\ x % s \in Nat
  OBVIOUS
<1>2. q \in Nat
  OBVIOUS
<1> HIDE DEF q
<1>3. s * q \in Nat /\ s * n \in Nat
  BY <1>2
<1>4. ASSUME q < n PROVE x < s * n
  <2>1. PICK k \in Nat : n = q + 1 + k
    <3>1. n - q - 1 \in Nat /\ n = q + 1 + (n - q - 1)
      BY <1>2, <1>4
    <3> QED BY <3>1
  <2>2. s * n = s * q + s + s * k /\ s * k \in Nat
    BY <1>2, <2>1
  <2> QED BY <1>1, <1>3, <2>2
<1>5. ASSUME ~(q < n) PROVE ~(x < s * n)
  <2>1. PICK k \in Nat : q = n + k
    <3>1. q - n \in Nat /\ q = n + (q - n)
      BY <1>2, <1>5
    <3> QED BY <3>1
  <2>2. s * q = s * n + s * k /\ s * k \in Nat
    BY <2>1
  <2> QED BY <1>1, <1>3, <2>2
<1> QED BY <1>2, <1>4, <1>5 DEF q

-----------------------------------------------------------------------------
(* Ranks.                                                                  *)

\* What R puts before s, and the rank that gives s.
Preceding(S, R, s) == {t \in S : <<t, s>> \in R}
RankIn(S, R) == [s \in S |-> 1 + Cardinality(Preceding(S, R, s))]

\* R orders S: a strict total order.
Orders(R, S) ==
    /\ \A s, t, u \in S : <<s, t>> \in R /\ <<t, u>> \in R => <<s, u>> \in R
    /\ \A s \in S : <<s, s>> \notin R
    /\ \A s, t \in S : s # t => <<s, t>> \in R \/ <<t, s>> \in R

\* The ranks number the members of an ordered set, in its order.
LEMMA RanksNumber ==
    ASSUME NEW S, IsFiniteSet(S), NEW R, Orders(R, S)
    PROVE  /\ RankIn(S, R) \in Bijection(S, 1 .. Cardinality(S))
           /\ \A s, t \in S : <<s, t>> \in R <=> RankIn(S, R)[s] < RankIn(S, R)[t]
<1> DEFINE n == Cardinality(S)
           rank == RankIn(S, R)
<1>0. n \in Nat /\ IsFiniteSet(1 .. n) /\ Cardinality(1 .. n) = n
  BY FS_CardinalityType, UpToCount
<1>1. ASSUME NEW s \in S
      PROVE  /\ IsFiniteSet(Preceding(S, R, s))
             /\ Cardinality(Preceding(S, R, s)) \in Nat
             /\ Cardinality(Preceding(S, R, s)) < n
             /\ rank[s] = 1 + Cardinality(Preceding(S, R, s))
  <2> DEFINE P == Preceding(S, R, s)
  <2>1. P \in SUBSET S /\ P # S
    BY DEF Preceding, Orders
  <2>2. rank[s] = 1 + Cardinality(P)
    BY DEF RankIn
  <2> HIDE DEF P
  <2>3. IsFiniteSet(P) /\ Cardinality(P) <= Cardinality(S) /\ (Cardinality(S) = Cardinality(P) => S = P)
    BY <2>1, FS_Subset
  <2>4. Cardinality(P) \in Nat
    BY <2>3, FS_CardinalityType
  <2>5. Cardinality(P) < n
    BY <1>0, <2>1, <2>3, <2>4
  <2> QED BY <2>2, <2>3, <2>4, <2>5 DEF P
<1>2. ASSUME NEW s \in S, NEW t \in S, <<s, t>> \in R PROVE rank[s] < rank[t]
  <2> DEFINE A == Preceding(S, R, s)
             B == Preceding(S, R, t)
  <2>1. A \subseteq B /\ s \in B /\ s \notin A
    BY <1>2 DEF Preceding, Orders
  <2>2. /\ IsFiniteSet(A) /\ IsFiniteSet(B) /\ Cardinality(A) \in Nat /\ Cardinality(B) \in Nat
        /\ rank[s] = 1 + Cardinality(A) /\ rank[t] = 1 + Cardinality(B)
    BY <1>1
  <2> HIDE DEF A, B, rank
  <2>3. Cardinality(A) <= Cardinality(B) /\ (Cardinality(B) = Cardinality(A) => B = A)
    BY <2>1, <2>2, FS_Subset
  <2>4. Cardinality(A) < Cardinality(B)
    BY <2>1, <2>2, <2>3
  <2> QED BY <2>2, <2>4
<1>3. rank \in [S -> 1 .. n]
  <2>1. \A s \in S : rank[s] \in 1 .. n
    <3> SUFFICES ASSUME NEW s \in S PROVE rank[s] \in 1 .. n
      OBVIOUS
    <3> DEFINE c == Cardinality(Preceding(S, R, s))
    <3>1. c \in Nat /\ c < n /\ rank[s] = 1 + c
      BY <1>1
    <3> HIDE DEF c, rank, n
    <3>2. n \in Nat
      BY <1>0
    <3> QED BY <3>1, <3>2
  <2>2. rank = [s \in S |-> rank[s]]
    BY DEF RankIn
  <2> HIDE DEF rank
  <2> QED BY <2>1, <2>2
<1>4. ASSUME NEW s \in S, NEW t \in S PROVE (rank[s] = rank[t] => s = t) /\ (<<s, t>> \in R <=> rank[s] < rank[t])
  <2>1. rank[s] \in Nat /\ rank[t] \in Nat
    <3> HIDE DEF rank
    <3>1. rank[s] \in 1 .. n /\ rank[t] \in 1 .. n
      BY <1>3
    <3> QED BY <3>1
  <2>2. (<<s, t>> \in R => rank[s] < rank[t]) /\ (<<t, s>> \in R => rank[t] < rank[s])
    BY <1>2
  <2>3. s # t => <<s, t>> \in R \/ <<t, s>> \in R
    BY DEF Orders
  <2> HIDE DEF rank
  <2>4. s = t => ~(rank[s] < rank[t])
    BY <2>1
  <2> QED BY <2>1, <2>2, <2>3, <2>4
<1>5. rank \in Injection(S, 1 .. n)
  <2> HIDE DEF rank
  <2> QED BY <1>3, <1>4, Fun_IsInj
<1>6. rank \in Surjection(S, 1 .. n)
  <2> HIDE DEF rank, n
  <2>1. n = Cardinality(S)
    BY DEF n
  <2>2. Cardinality(S) = Cardinality(1 .. n)
    BY <1>0, <2>1
  <2> QED BY <1>0, <1>5, <2>2, FS_Injection
<1>7. rank \in Bijection(S, 1 .. n)
  BY <1>5, <1>6 DEF Bijection
<1> QED BY <1>4, <1>7

\* When S is ordered by R, the members with fewer than n before them are n at most.
LEMMA FewGoBefore ==
    ASSUME NEW S, IsFiniteSet(S), NEW R, NEW n \in Nat,
           \A s, t, u \in S : <<s, t>> \in R /\ <<t, u>> \in R => <<s, u>> \in R,
           \A s \in S : <<s, s>> \notin R,
           \A s, t \in S : s # t => <<s, t>> \in R \/ <<t, s>> \in R,
           NEW top \in SUBSET S, \A s \in top : Cardinality(Preceding(S, R, s)) < n
    PROVE  IsFiniteSet(top) /\ Cardinality(top) <= n
<1> DEFINE below(s) == {t \in S : <<t, s>> \in R}
           rank == [s \in top |-> Cardinality(below(s))]
<1>1. \A s \in top : s \in S /\ Cardinality(below(s)) < n
  BY DEF Preceding
<1>2. \A s \in S : IsFiniteSet(below(s)) /\ Cardinality(below(s)) \in Nat
  BY FS_Subset, FS_CardinalityType
<1>3. ASSUME NEW s \in S, NEW t \in S, <<s, t>> \in R
      PROVE  Cardinality(below(s)) < Cardinality(below(t))
  <2>1. below(s) \subseteq below(t) /\ s \in below(t) /\ s \notin below(s)
    BY <1>3
  <2> DEFINE A == below(s)
             B == below(t)
  <2>2. IsFiniteSet(A) /\ IsFiniteSet(B) /\ Cardinality(A) \in Nat /\ Cardinality(B) \in Nat
    BY <1>2
  <2>3. A \subseteq B /\ A # B
    BY <2>1
  <2> HIDE DEF A, B
  <2>4. Cardinality(A) <= Cardinality(B) /\ (Cardinality(B) = Cardinality(A) => B = A)
    BY <2>2, <2>3, FS_Subset
  <2>5. Cardinality(A) < Cardinality(B)
    BY <2>2, <2>3, <2>4
  <2> QED BY <2>5 DEF A, B
<1>4. rank \in [top -> 0 .. n - 1]
  <2> SUFFICES ASSUME NEW s \in top PROVE Cardinality(below(s)) \in 0 .. n - 1
    OBVIOUS
  <2>1. Cardinality(below(s)) < n /\ Cardinality(below(s)) \in Nat
    BY <1>2, <1>1
  <2> HIDE DEF below
  <2> QED BY <2>1
<1>5. ASSUME NEW s \in top, NEW t \in top, rank[s] = rank[t] PROVE s = t
  <2>1. Cardinality(below(s)) = Cardinality(below(t)) /\ Cardinality(below(s)) \in Nat
    BY <1>2, <1>5
  <2>2. s \in S /\ t \in S
    OBVIOUS
  <2>3. s = t \/ <<s, t>> \in R \/ <<t, s>> \in R
    BY <2>2
  <2>4. ~(<<s, t>> \in R) /\ ~(<<t, s>> \in R)
    <3> DEFINE a == Cardinality(below(s))
               b == Cardinality(below(t))
    <3>1. (<<s, t>> \in R => a < b) /\ (<<t, s>> \in R => b < a)
      BY <1>3, <2>2
    <3>2. a = b /\ a \in Nat
      BY <2>1
    <3> HIDE DEF a, b
    <3> QED BY <3>1, <3>2
  <2> QED BY <2>3, <2>4
<1>6. rank \in Injection(top, 0 .. n - 1)
  <2> HIDE DEF rank
  <2> QED BY <1>4, <1>5, Fun_IsInj
<1>7. IsFiniteSet(0 .. n - 1) /\ Cardinality(0 .. n - 1) = n
  <2>1. 0 \in Int /\ n - 1 \in Int
    OBVIOUS
  <2>2. IsFiniteSet(0 .. n - 1) /\ Cardinality(0 .. n - 1) = IF 0 > n - 1 THEN 0 ELSE (n - 1) - 0 + 1
    BY <2>1, FS_Interval
  <2> QED BY <2>2
<1>8. IsFiniteSet(top) /\ Cardinality(top) <= Cardinality(0 .. n - 1)
  <2> HIDE DEF rank
  <2> QED BY <1>6, <1>7, FS_Injection
<1> QED BY <1>7, <1>8

-----------------------------------------------------------------------------
(* Sorting and filtering.                                                  *)

\* Ascending lists the members of S, each once, smaller ones first.
LEMMA AscendingTells ==
    ASSUME NEW S \in SUBSET Int, IsFiniteSet(S)
    PROVE  /\ Cardinality(S) \in Nat
           /\ Ascending(S) \in Seq(S) /\ Len(Ascending(S)) = Cardinality(S)
           /\ \A j, k \in 1 .. Cardinality(S) : j < k <=> Ascending(S)[j] < Ascending(S)[k]
           /\ Ascending(S) \in Bijection(1 .. Cardinality(S), S)
           /\ \A k \in 1 .. Cardinality(S) : Cardinality({j \in S : j <= Ascending(S)[k]}) = k
<1> DEFINE n == Cardinality(S)
           R == {p \in S \X S : p[1] < p[2]}
           rank == RankIn(S, R)
           a == Ascending(S)
<1>0. n \in Nat
  BY FS_CardinalityType
<1>1. Orders(R, S)
  <2>1. ASSUME NEW s \in S, NEW t \in S PROVE <<s, t>> \in R <=> s < t
    OBVIOUS
  <2> HIDE DEF R
  <2>2. \A s, t, u \in S : <<s, t>> \in R /\ <<t, u>> \in R => <<s, u>> \in R
    BY <2>1
  <2>3. \A s \in S : <<s, s>> \notin R
    BY <2>1
  <2>4. \A s, t \in S : s # t => <<s, t>> \in R \/ <<t, s>> \in R
    BY <2>1
  <2> QED BY <2>2, <2>3, <2>4 DEF Orders
<1>2. /\ rank \in Bijection(S, 1 .. n)
      /\ \A s, t \in S : s < t <=> rank[s] < rank[t]
  <2>1. \A s, t \in S : <<s, t>> \in R <=> s < t
    OBVIOUS
  <2> HIDE DEF R
  <2>2. /\ rank \in Bijection(S, 1 .. n)
        /\ \A s, t \in S : <<s, t>> \in R <=> rank[s] < rank[t]
    BY <1>1, RanksNumber
  <2> HIDE DEF rank
  <2> QED BY <2>1, <2>2
<1>3. ASSUME NEW i \in S PROVE Cardinality({j \in S : j <= i}) = rank[i]
  <2> DEFINE P == Preceding(S, R, i)
  <2>1. P = {j \in S : j < i}
    BY DEF Preceding
  <2>2. i \notin P /\ {j \in S : j <= i} = P \cup {i} /\ P \in SUBSET S
    <3> HIDE DEF P
    <3>1. \A j \in S : j <= i <=> j < i \/ j = i
      OBVIOUS
    <3>2. ~(i < i)
      OBVIOUS
    <3> QED BY <2>1, <3>1, <3>2
  <2>3. rank[i] = 1 + Cardinality(P)
    BY DEF RankIn
  <2> HIDE DEF P, rank
  <2>4. IsFiniteSet(P)
    BY <2>2, FS_Subset
  <2>5. Cardinality(P \cup {i}) = IF i \in P THEN Cardinality(P) ELSE Cardinality(P) + 1
    BY <2>4, FS_AddElement
  <2>6. Cardinality(P) \in Nat
    BY <2>4, FS_CardinalityType
  <2> QED BY <2>2, <2>3, <2>5, <2>6
<1>4. ASSUME NEW k \in 1 .. n PROVE a[k] = CHOOSE i \in S : Cardinality({j \in S : j <= i}) = k
  BY DEF Ascending
<1>5. ASSUME NEW k \in 1 .. n
      PROVE  a[k] \in S /\ rank[a[k]] = k /\ Cardinality({j \in S : j <= a[k]}) = k
  <2> HIDE DEF rank
  <2>1. \E i \in S : rank[i] = k
    <3>1. rank \in Surjection(S, 1 .. n)
      BY <1>2 DEF Bijection
    <3> QED BY <3>1 DEF Surjection
  <2>2. \E i \in S : Cardinality({j \in S : j <= i}) = k
    <3>1. PICK i \in S : rank[i] = k
      BY <2>1
    <3>2. Cardinality({j \in S : j <= i}) = k
      BY <1>3, <3>1
    <3> QED BY <3>2
  <2>3. a[k] \in S /\ Cardinality({j \in S : j <= a[k]}) = k
    <3>1. a[k] = CHOOSE i \in S : Cardinality({j \in S : j <= i}) = k
      BY <1>4
    <3> DEFINE c == a[k]
    <3>2. c = CHOOSE i \in S : Cardinality({j \in S : j <= i}) = k
      BY <3>1
    <3> HIDE DEF c, a, n, rank
    <3>3. c \in S /\ Cardinality({j \in S : j <= c}) = k
      BY <2>2, <3>2, Zenon
    <3> QED BY <3>3 DEF c
  <2> HIDE DEF a
  <2> QED BY <1>3, <2>3
<1>6. a \in [1 .. n -> S]
  <2>1. \A k \in 1 .. n : (CHOOSE i \in S : Cardinality({j \in S : j <= i}) = k) \in S
    <3> SUFFICES ASSUME NEW k \in 1 .. n
                 PROVE  (CHOOSE i \in S : Cardinality({j \in S : j <= i}) = k) \in S
      OBVIOUS
    <3>1. a[k] = CHOOSE i \in S : Cardinality({j \in S : j <= i}) = k
      BY <1>4
    <3>2. a[k] \in S
      BY <1>5
    <3> HIDE DEF a
    <3> QED BY <3>1, <3>2
  <2> QED BY <2>1 DEF Ascending
<1>7. \A j, k \in 1 .. n : j < k <=> a[j] < a[k]
  <2> HIDE DEF a, rank, n
  <2> SUFFICES ASSUME NEW j \in 1 .. n, NEW k \in 1 .. n PROVE j < k <=> a[j] < a[k]
    OBVIOUS
  <2>1. a[j] \in S /\ rank[a[j]] = j /\ a[k] \in S /\ rank[a[k]] = k
    BY <1>5
  <2>2. \A s, t \in S : s < t <=> rank[s] < rank[t]
    BY <1>2
  <2>3. a[j] < a[k] <=> rank[a[j]] < rank[a[k]]
    <3> DEFINE x == a[j]
               y == a[k]
    <3>1. x \in S /\ y \in S
      BY <2>1
    <3> HIDE DEF x, y
    <3>2. x < y <=> rank[x] < rank[y]
      BY <2>2, <3>1
    <3> QED BY <3>2 DEF x, y
  <2> QED BY <2>1, <2>3
<1>8. a \in Bijection(1 .. n, S)
  <2>1. \A j, k \in 1 .. n : a[j] = a[k] => j = k
    <3> HIDE DEF a, rank, n
    <3> QED BY <1>5
  <2>2. \A i \in S : rank[i] \in 1 .. n /\ a[rank[i]] = i
    <3> SUFFICES ASSUME NEW i \in S PROVE rank[i] \in 1 .. n /\ a[rank[i]] = i
      OBVIOUS
    <3> HIDE DEF a, rank, n
    <3>1. rank \in [S -> 1 .. n] /\ \A s, t \in S : rank[s] = rank[t] => s = t
      <4>1. rank \in Injection(S, 1 .. n)
        BY <1>2 DEF Bijection
      <4> QED BY <4>1 DEF Injection, IsInjective
    <3>2. rank[i] \in 1 .. n
      BY <3>1
    <3> QED BY <1>5, <3>1, <3>2
  <2>3. \A i \in S : \E k \in 1 .. n : a[k] = i
    BY <2>2
  <2> HIDE DEF a, rank, n
  <2>4. a \in Injection(1 .. n, S)
    BY <1>6, <2>1, Fun_IsInj
  <2>5. a \in Surjection(1 .. n, S)
    BY <1>6, <2>3, Fun_IsSurj
  <2> QED BY <2>4, <2>5 DEF Bijection
<1>9. a \in Seq(S) /\ Len(a) = n
  <2> HIDE DEF a, n
  <2> QED BY <1>0, <1>6
<1>10. \A k \in 1 .. n : Cardinality({j \in S : j <= a[k]}) = k
  <2> HIDE DEF a, n, rank
  <2> QED BY <1>5
<1> QED BY <1>0, <1>7, <1>8, <1>9, <1>10

\* Selected takes the elements at the places in P, each place once, in order.
LEMMA SelectedTells ==
    ASSUME NEW E, NEW s \in Seq(E), NEW P \in SUBSET DOMAIN s
    PROVE  /\ IsFiniteSet(P) /\ Cardinality(P) \in Nat
           /\ Selected(s, P) \in Seq(E) /\ Len(Selected(s, P)) = Cardinality(P)
           /\ Ascending(P) \in Bijection(1 .. Cardinality(P), P)
           /\ \A j, k \in 1 .. Cardinality(P) : j < k <=> Ascending(P)[j] < Ascending(P)[k]
           /\ \A k \in 1 .. Cardinality(P) : Selected(s, P)[k] = s[Ascending(P)[k]]
           /\ \A k \in 1 .. Cardinality(P) : Ascending(P)[k] \in P
<1>1. DOMAIN s = 1 .. Len(s) /\ Len(s) \in Nat /\ \A i \in DOMAIN s : s[i] \in E
  BY LenProperties
<1>2. P \in SUBSET Int /\ IsFiniteSet(P)
  BY <1>1, UpToCount, FS_Subset
<1> DEFINE a == Ascending(P)
           n == Cardinality(P)
<1>3. /\ n \in Nat /\ a \in Seq(P) /\ Len(a) = n
      /\ \A j, k \in 1 .. n : j < k <=> a[j] < a[k]
      /\ a \in Bijection(1 .. n, P)
  BY <1>2, AscendingTells
<1>4. DOMAIN a = 1 .. n /\ \A k \in 1 .. n : a[k] \in P
  <2> HIDE DEF a, n
  <2> QED BY <1>3, LenProperties
<1>5. Selected(s, P) = [k \in 1 .. n |-> s[a[k]]]
  <2>1. Selected(s, P) = [k \in DOMAIN a |-> s[a[k]]]
    BY DEF Selected
  <2> HIDE DEF a, n
  <2> QED BY <1>4, <2>1
<1> HIDE DEF a, n
<1>6. \A k \in 1 .. n : s[a[k]] \in E
  BY <1>1, <1>4
<1>7. Selected(s, P) \in Seq(E) /\ Len(Selected(s, P)) = n
  BY <1>3, <1>5, <1>6
<1> QED BY <1>2, <1>3, <1>4, <1>5, <1>7 DEF a, n

\* What is selected are the elements at those places.
LEMMA SelectedRange ==
    ASSUME NEW E, NEW s \in Seq(E), NEW P \in SUBSET DOMAIN s
    PROVE  /\ \A k \in DOMAIN Selected(s, P) : \E i \in P : Selected(s, P)[k] = s[i]
           /\ \A i \in P : \E k \in DOMAIN Selected(s, P) : Selected(s, P)[k] = s[i]
<1> DEFINE a == Ascending(P)
           n == Cardinality(P)
           t == Selected(s, P)
<1>1. /\ n \in Nat /\ t \in Seq(E) /\ Len(t) = n /\ a \in Bijection(1 .. n, P)
      /\ \A k \in 1 .. n : t[k] = s[a[k]] /\ a[k] \in P
  BY SelectedTells
<1> HIDE DEF a, n, t
<1>2. DOMAIN t = 1 .. n
  BY <1>1, LenProperties
<1>3. \A i \in P : \E k \in 1 .. n : a[k] = i
  <2>1. a \in Surjection(1 .. n, P)
    BY <1>1 DEF Bijection
  <2> QED BY <2>1 DEF Surjection
<1>4. \A i \in P : \E k \in 1 .. n : t[k] = s[i]
  BY <1>1, <1>3
<1>5. \A k \in 1 .. n : \E i \in P : t[k] = s[i]
  BY <1>1
<1>6. \A k \in DOMAIN t : \E i \in P : t[k] = s[i]
  BY <1>2, <1>5
<1>7. \A i \in P : \E k \in DOMAIN t : t[k] = s[i]
  BY <1>2, <1>4
<1> QED BY <1>6, <1>7 DEF t

\* Sorted lists the members of an ordered set, each once, in their order.
LEMMA SortedTells ==
    ASSUME NEW S, IsFiniteSet(S), NEW R, Orders(R, S),
           NEW before, before = [s \in S |-> Preceding(S, R, s)]
    PROVE  /\ Cardinality(S) \in Nat
           /\ Sorted(before) \in Seq(S) /\ Len(Sorted(before)) = Cardinality(S)
           /\ Sorted(before) \in Bijection(1 .. Cardinality(S), S)
           /\ \A j, k \in 1 .. Cardinality(S) : j < k <=> <<Sorted(before)[j], Sorted(before)[k]>> \in R
<1> DEFINE n == Cardinality(S)
           rank == RankIn(S, R)
           a == Sorted(before)
<1>0. n \in Nat
  BY FS_CardinalityType
<1>1. /\ rank \in Bijection(S, 1 .. n)
      /\ \A s, t \in S : <<s, t>> \in R <=> rank[s] < rank[t]
  BY RanksNumber
<1>2. /\ rank \in [S -> 1 .. n] /\ \A s, t \in S : rank[s] = rank[t] => s = t
      /\ \A k \in 1 .. n : \E s \in S : rank[s] = k
  <2> DEFINE N == 1 .. n
  <2>1. rank \in Bijection(S, N)
    BY <1>1
  <2> HIDE DEF rank, N
  <2>2. /\ rank \in [S -> N] /\ (\A s, t \in S : rank[s] = rank[t] => s = t)
        /\ \A k \in N : \E s \in S : rank[s] = k
    BY <2>1, Fun_BijectionProperties
  <2> QED BY <2>2 DEF N
<1>3. ASSUME NEW s \in S PROVE Cardinality(before[s]) \in Nat /\ rank[s] = 1 + Cardinality(before[s])
  <2>1. before[s] = Preceding(S, R, s) /\ Preceding(S, R, s) \in SUBSET S
    BY DEF Preceding
  <2>2. Cardinality(before[s]) \in Nat
    BY <2>1, FS_Subset, FS_CardinalityType
  <2> QED BY <2>1, <2>2 DEF RankIn
<1>4. ASSUME NEW k \in 1 .. n PROVE a[k] \in S /\ rank[a[k]] = k
  <2>1. DOMAIN before = S
    OBVIOUS
  <2> DEFINE x == a[k]
  <2>2. x = CHOOSE y \in S : Cardinality(before[y]) = k - 1
    BY <2>1 DEF Sorted
  <2>3. \E y \in S : Cardinality(before[y]) = k - 1
    <3>1. PICK y \in S : rank[y] = k
      BY <1>2
    <3> HIDE DEF rank, n
    <3>2. Cardinality(before[y]) \in Nat /\ k = 1 + Cardinality(before[y])
      BY <1>3, <3>1
    <3>3. Cardinality(before[y]) = k - 1
      BY <3>2
    <3> QED BY <3>3
  <2> HIDE DEF x, a, rank, n
  <2>4. x \in S /\ Cardinality(before[x]) = k - 1
    BY <2>2, <2>3, Zenon
  <2>5. Cardinality(before[x]) \in Nat /\ rank[x] = 1 + Cardinality(before[x])
    BY <1>3, <2>4
  <2>6. k \in Int
    BY <1>0 DEF n
  <2>7. rank[x] = k
    BY <2>4, <2>5, <2>6
  <2> QED BY <2>4, <2>7 DEF x
<1>5. a \in [1 .. n -> S]
  <2>1. a = [k \in 1 .. n |-> a[k]]
    BY DEF Sorted
  <2> HIDE DEF a, rank, n
  <2> QED BY <1>4, <2>1
<1> HIDE DEF a, rank, n
<1>6. \A j, k \in 1 .. n : j < k <=> <<a[j], a[k]>> \in R
  <2> SUFFICES ASSUME NEW j \in 1 .. n, NEW k \in 1 .. n PROVE j < k <=> <<a[j], a[k]>> \in R
    OBVIOUS
  <2>1. a[j] \in S /\ rank[a[j]] = j /\ a[k] \in S /\ rank[a[k]] = k
    BY <1>4
  <2>2. <<a[j], a[k]>> \in R <=> rank[a[j]] < rank[a[k]]
    BY <1>1, <2>1
  <2> QED BY <2>1, <2>2
<1>7. a \in Bijection(1 .. n, S)
  <2>1. \A j, k \in 1 .. n : a[j] = a[k] => j = k
    BY <1>4
  <2>2. \A s \in S : \E k \in 1 .. n : a[k] = s
    <3> SUFFICES ASSUME NEW s \in S PROVE \E k \in 1 .. n : a[k] = s
      OBVIOUS
    <3>1. rank[s] \in 1 .. n
      BY <1>2
    <3>2. a[rank[s]] \in S /\ rank[a[rank[s]]] = rank[s]
      BY <1>4, <3>1
    <3> QED BY <1>2, <3>1, <3>2
  <2> QED BY <1>5, <2>1, <2>2, Fun_IsBij
<1>8. a \in Seq(S) /\ Len(a) = n
  BY <1>0, <1>5
<1> QED BY <1>0, <1>6, <1>7, <1>8 DEF a, n

-----------------------------------------------------------------------------
(* Counting.                                                               *)

\* What Sum of StatsAgree counts: of the pairs of a class and a number up to n those
\* whose number is no greater than the class.
Units(f, n) == {p \in (DOMAIN f) \X (1 .. n) : p[2] <= f[p[1]]}

\* The sizes of the classes of a finite set add up to its size.
LEMMA ClassesAddUp ==
    ASSUME NEW S, IsFiniteSet(S), NEW K, NEW class \in [S -> K],
           NEW n \in Nat, Cardinality(S) <= n,
           NEW f, DOMAIN f = K, \A k \in K : f[k] = Cardinality({s \in S : class[s] = k})
    PROVE  Cardinality(Units(f, n)) = Cardinality(S)
<1> DEFINE members(k) == {s \in S : class[s] = k}
           count == [k \in K |-> CHOOSE b : b \in Bijection(1 .. f[k], members(k))]
           place == [p \in Units(f, n) |-> count[p[1]][p[2]]]
<1>1. ASSUME NEW k \in K
      PROVE  /\ f[k] \in Nat /\ f[k] <= n
             /\ count[k] \in Bijection(1 .. f[k], members(k))
  <2>1. IsFiniteSet(members(k)) /\ Cardinality(members(k)) <= Cardinality(S)
    <3>1. members(k) \in SUBSET S
      OBVIOUS
    <3> QED BY <3>1, FS_Subset
  <2>2. /\ Cardinality(members(k)) \in Nat /\ Cardinality(S) \in Nat
        /\ ExistsBijection(1 .. Cardinality(members(k)), members(k))
    <3> HIDE DEF members
    <3> QED BY <2>1, FS_CardinalityType
  <2>3. f[k] = Cardinality(members(k))
    OBVIOUS
  <2>4. \E b : b \in Bijection(1 .. f[k], members(k))
    BY <2>2, <2>3 DEF ExistsBijection
  <2>5. count[k] = CHOOSE b : b \in Bijection(1 .. f[k], members(k))
    OBVIOUS
  <2>6. count[k] \in Bijection(1 .. f[k], members(k))
    <3> HIDE DEF members, count
    <3> QED BY <2>4, <2>5
  <2> QED BY <2>1, <2>2, <2>3, <2>6
<1>2. \A k \in K :
         /\ \A i \in 1 .. f[k] : count[k][i] \in members(k)
         /\ \A i, j \in 1 .. f[k] : count[k][i] = count[k][j] => i = j
         /\ \A s \in members(k) : \E i \in 1 .. f[k] : count[k][i] = s
  <2> SUFFICES ASSUME NEW k \in K
               PROVE  /\ \A i \in 1 .. f[k] : count[k][i] \in members(k)
                      /\ \A i, j \in 1 .. f[k] : count[k][i] = count[k][j] => i = j
                      /\ \A s \in members(k) : \E i \in 1 .. f[k] : count[k][i] = s
    OBVIOUS
  <2> DEFINE b == count[k]
             I == 1 .. f[k]
             M == members(k)
  <2>1. b \in Bijection(I, M)
    BY <1>1
  <2> HIDE DEF b, I, M
  <2>2. b \in [I -> M] /\ (\A i, j \in I : b[i] = b[j] => i = j) /\ \A s \in M : \E i \in I : b[i] = s
    BY <2>1, Fun_BijectionProperties
  <2> QED BY <2>2 DEF b, I, M
<1> HIDE DEF count
<1>3. \A p \in Units(f, n) : p[1] \in K /\ p[2] \in 1 .. f[p[1]] /\ p = <<p[1], p[2]>>
  BY <1>1 DEF Units
<1>4. place \in [Units(f, n) -> S]
  <2> SUFFICES ASSUME NEW p \in Units(f, n) PROVE count[p[1]][p[2]] \in S
    OBVIOUS
  <2>1. count[p[1]][p[2]] \in members(p[1])
    BY <1>2, <1>3
  <2> QED BY <2>1
<1>5. ASSUME NEW p \in Units(f, n), NEW q \in Units(f, n), place[p] = place[q]
      PROVE  p = q
  <2>1. count[p[1]][p[2]] \in members(p[1]) /\ count[q[1]][q[2]] \in members(q[1])
    BY <1>2, <1>3
  <2>2. count[p[1]][p[2]] = count[q[1]][q[2]]
    BY <1>5
  <2>3. p[1] = q[1]
    BY <2>1, <2>2
  <2>4. p[2] = q[2]
    BY <1>2, <1>3, <2>2, <2>3
  <2> QED BY <1>3, <2>3, <2>4
<1>6. ASSUME NEW s \in S PROVE \E p \in Units(f, n) : place[p] = s
  <2>1. class[s] \in K /\ s \in members(class[s])
    OBVIOUS
  <2>2. PICK i \in 1 .. f[class[s]] : count[class[s]][i] = s
    BY <1>2, <2>1
  <2>3. f[class[s]] \in Nat /\ f[class[s]] <= n
    BY <1>1, <2>1
  <2>4. <<class[s], i>> \in Units(f, n)
    BY <2>1, <2>2, <2>3 DEF Units
  <2>5. place[<<class[s], i>>] = count[class[s]][i]
    BY <2>4
  <2> QED BY <2>2, <2>4, <2>5
<1>7. place \in Bijection(Units(f, n), S)
  <2> HIDE DEF place
  <2> QED BY <1>4, <1>5, <1>6, Fun_IsBij
<1>8. ExistsBijection(S, Units(f, n))
  <2> HIDE DEF place
  <2> QED BY <1>7, Fun_BijInverse DEF ExistsBijection
<1> QED BY <1>8, FS_Bijection

-----------------------------------------------------------------------------
(* Sums.  MapThenSumSet is a function on all subsets, that takes one       *)
(* member after the other away.                                            *)

\* it adds up f over the subsets of S, one member after the other.
SumsOver(it, f, S) ==
    \A s \in SUBSET S :
        it[s] = IF s = {} THEN 0 ELSE f[CHOOSE x \in s : TRUE] + it[s \ {CHOOSE x \in s : TRUE}]

\* What is left of a finite set is smaller.
LEMMA OneLess ==
    ASSUME NEW s, IsFiniteSet(s), s # {}, NEW x, x = CHOOSE y \in s : TRUE
    PROVE  /\ x \in s /\ IsFiniteSet(s \ {x}) /\ s \ {x} \subseteq s
           /\ Cardinality(s) \in Nat \ {0} /\ Cardinality(s \ {x}) = Cardinality(s) - 1
<1>1. x \in s
  OBVIOUS
<1>2. /\ IsFiniteSet(s \ {x}) /\ Cardinality(s \ {x}) = Cardinality(s) - 1
      /\ Cardinality(s) \in Nat /\ Cardinality(s) # 0
  BY <1>1, FS_RemoveElement, FS_CardinalityType, FS_EmptySet
<1> QED
  BY <1>1, <1>2

\* Such a function is there.
LEMMA SumExists ==
    ASSUME NEW S, IsFiniteSet(S), NEW f \in [S -> Nat]
    PROVE  \E it : it \in [SUBSET S -> Nat] /\ SumsOver(it, f, S)
<1> DEFINE n == Cardinality(S)
           Upto(k) == {s \in SUBSET S : Cardinality(s) <= k}
           Fits(it, k) == \A s \in Upto(k) :
               it[s] = IF s = {} THEN 0 ELSE f[CHOOSE x \in s : TRUE] + it[s \ {CHOOSE x \in s : TRUE}]
           I == {k \in 0 .. n : \E it \in [Upto(k) -> Nat] : Fits(it, k)}
<1>0. /\ n \in Nat
      /\ \A s \in SUBSET S : IsFiniteSet(s) /\ Cardinality(s) \in Nat /\ Cardinality(s) <= n
  BY FS_Subset, FS_CardinalityType
<1> HIDE DEF n
<1>1. 0 \in I
  <2> DEFINE it == [s \in Upto(0) |-> 0]
  <2>1. \A s \in Upto(0) : s = {}
    BY <1>0, FS_EmptySet
  <2>2. Fits(it, 0) /\ it \in [Upto(0) -> Nat]
    BY <2>1
  <2>3. 0 \in 0 .. n
    BY <1>0
  <2> HIDE DEF it, Fits, Upto
  <2> QED
    BY <2>2, <2>3
<1>2. ASSUME NEW k \in 0 .. n - 1, k \in I
      PROVE  k + 1 \in I
  <2>1. PICK it \in [Upto(k) -> Nat] : Fits(it, k)
    BY <1>2
  <2> DEFINE First(s) == CHOOSE x \in s : TRUE
             next == [s \in Upto(k + 1) |-> IF s = {} THEN 0 ELSE f[First(s)] + it[s \ {First(s)}]]
  <2>2. ASSUME NEW s \in Upto(k + 1), s # {}
        PROVE  First(s) \in S /\ s \ {First(s)} \in Upto(k)
    <3> DEFINE x == First(s)
    <3>1. s \subseteq S /\ IsFiniteSet(s) /\ Cardinality(s) <= k + 1 /\ k \in Nat /\ x = CHOOSE y \in s : TRUE
      BY <1>0
    <3> HIDE DEF x
    <3>2. /\ x \in s /\ s \ {x} \subseteq s
          /\ Cardinality(s) \in Nat \ {0} /\ Cardinality(s \ {x}) = Cardinality(s) - 1
      BY <2>2, <3>1, OneLess
    <3>3. x \in S /\ s \ {x} \in Upto(k)
      BY <3>1, <3>2
    <3> QED
      BY <3>3 DEF x
  <2> HIDE DEF First
  <2>3. next \in [Upto(k + 1) -> Nat]
    <3>1. ASSUME NEW s \in Upto(k + 1)
          PROVE  (IF s = {} THEN 0 ELSE f[First(s)] + it[s \ {First(s)}]) \in Nat
      <4>1. CASE s = {}
        BY <4>1
      <4>2. CASE s # {}
        <5>1. f[First(s)] \in Nat /\ it[s \ {First(s)}] \in Nat
          <6> HIDE DEF Upto
          <6> QED
            BY <2>2, <4>2
        <5> QED
          BY <4>2, <5>1
      <4> QED
        BY <4>1, <4>2
    <3> HIDE DEF Upto
    <3> QED
      BY <3>1
  <2>4. \A s \in Upto(k) : s \in Upto(k + 1) /\ next[s] = it[s]
    <3> SUFFICES ASSUME NEW s \in Upto(k)
                 PROVE  s \in Upto(k + 1) /\ next[s] = it[s]
      OBVIOUS
    <3>1. s \in Upto(k + 1)
      BY <1>0
    <3>2. it[s] = IF s = {} THEN 0 ELSE f[First(s)] + it[s \ {First(s)}]
      BY <2>1 DEF First
    <3> HIDE DEF Upto
    <3> QED
      BY <3>1, <3>2
  <2>5. Fits(next, k + 1)
    <3> SUFFICES ASSUME NEW s \in Upto(k + 1)
                 PROVE  next[s] = IF s = {} THEN 0 ELSE f[First(s)] + next[s \ {First(s)}]
      BY DEF First
    <3>1. CASE s = {}
      BY <3>1
    <3>2. CASE s # {}
      <4>1. next[s] = f[First(s)] + it[s \ {First(s)}]
        BY <3>2
      <4>2. next[s \ {First(s)}] = it[s \ {First(s)}]
        <5> HIDE DEF Upto, next
        <5> QED
          BY <2>2, <2>4, <3>2
      <4> HIDE DEF next, Upto
      <4> QED
        BY <3>2, <4>1, <4>2
    <3> QED
      BY <3>1, <3>2
  <2>6. k + 1 \in 0 .. n
    BY <1>0
  <2> HIDE DEF next, Fits, Upto
  <2> QED
    BY <2>3, <2>5, <2>6
<1>3. n \in I
  <2> HIDE DEF I
  <2>1. \A i \in 0 .. n : i \in I
    BY <1>0, <1>1, <1>2, UpTo
  <2> QED
    BY <1>0, <2>1
<1>4. PICK it \in [Upto(n) -> Nat] : Fits(it, n)
  BY <1>3
<1>5. Upto(n) = SUBSET S
  BY <1>0
<1> HIDE DEF Upto
<1> QED
  BY <1>4, <1>5 DEF SumsOver

\* A sum is as great as whatever grows by no more with each member.
LEMMA SumAtLeast ==
    ASSUME NEW S, IsFiniteSet(S), NEW f \in [S -> Nat], NEW it, SumsOver(it, f, S),
           NEW h \in [SUBSET S -> Nat], h[{}] = 0,
           \A s \in SUBSET S : \A x \in s : h[s] <= f[x] + h[s \ {x}]
    PROVE  it[S] \in Nat /\ h[S] <= it[S]
<1> DEFINE n == Cardinality(S)
           I == {k \in 0 .. n : \A s \in SUBSET S : Cardinality(s) = k => it[s] \in Nat /\ h[s] <= it[s]}
<1>0. /\ n \in Nat
      /\ \A s \in SUBSET S : IsFiniteSet(s) /\ Cardinality(s) \in Nat /\ Cardinality(s) <= n
  BY FS_Subset, FS_CardinalityType
<1> HIDE DEF n
<1>1. 0 \in I
  <2>1. \A s \in SUBSET S : Cardinality(s) = 0 => s = {}
    BY <1>0, FS_EmptySet
  <2>2. it[{}] = 0
    BY DEF SumsOver
  <2>3. 0 \in 0 .. n
    BY <1>0
  <2>4. ASSUME NEW s \in SUBSET S, Cardinality(s) = 0
        PROVE  it[s] \in Nat /\ h[s] <= it[s]
    <3>1. s = {}
      BY <2>1, <2>4
    <3> QED
      BY <2>2, <3>1
  <2> QED
    BY <2>3, <2>4
<1>2. ASSUME NEW k \in 0 .. n - 1, k \in I
      PROVE  k + 1 \in I
  <2>1. ASSUME NEW s \in SUBSET S, Cardinality(s) = k + 1
        PROVE  it[s] \in Nat /\ h[s] <= it[s]
    <3> DEFINE x == CHOOSE y \in s : TRUE
               r == s \ {x}
    <3>1. s # {} /\ IsFiniteSet(s) /\ k \in Nat
      BY <1>0, <2>1, FS_EmptySet
    <3>2. it[s] = f[x] + it[r]
      BY <3>1 DEF SumsOver
    <3>3. x = CHOOSE y \in s : TRUE
      OBVIOUS
    <3> HIDE DEF x
    <3>7. /\ x \in s /\ s \ {x} \subseteq s
          /\ Cardinality(s) \in Nat \ {0} /\ Cardinality(s \ {x}) = Cardinality(s) - 1
      BY <3>1, <3>3, OneLess
    <3>4. x \in s /\ r \in SUBSET S /\ Cardinality(r) = k
      BY <2>1, <3>1, <3>7
    <3>5. it[r] \in Nat /\ h[r] <= it[r]
      BY <1>2, <3>4
    <3>6. h[s] <= f[x] + h[r] /\ f[x] \in Nat /\ h[r] \in Nat /\ h[s] \in Nat
      BY <3>4
    <3> HIDE DEF r
    <3> QED
      BY <3>2, <3>5, <3>6
  <2> QED
    BY <1>0, <2>1
<1>3. n \in I
  <2> HIDE DEF I
  <2>1. \A i \in 0 .. n : i \in I
    BY <1>0, <1>1, <1>2, UpTo
  <2> QED
    BY <1>0, <2>1
<1> QED
  BY <1>3 DEF n

\* h adds up f over the subsets of S, whichever member is taken away.
AddsEach(h, f, S) ==
    /\ h = [s \in SUBSET S |-> h[s]] /\ h[{}] = 0
    /\ \A s \in SUBSET S : \A x \in s : h[s] = f[x] + h[s \ {x}]

\* A sum is whatever grows by as much with each member.
LEMMA SumEquals ==
    ASSUME NEW S, IsFiniteSet(S), NEW f, NEW it, SumsOver(it, f, S), NEW h, AddsEach(h, f, S)
    PROVE  it[S] = h[S]
<1>h. h[{}] = 0 /\ \A s \in SUBSET S : \A x \in s : h[s] = f[x] + h[s \ {x}]
  BY DEF AddsEach
<1> DEFINE n == Cardinality(S)
           I == {k \in 0 .. n : \A s \in SUBSET S : Cardinality(s) = k => it[s] = h[s]}
<1>0. /\ n \in Nat
      /\ \A s \in SUBSET S : IsFiniteSet(s) /\ Cardinality(s) \in Nat /\ Cardinality(s) <= n
  BY FS_Subset, FS_CardinalityType
<1> HIDE DEF n
<1>1. 0 \in I
  <2>1. \A s \in SUBSET S : Cardinality(s) = 0 => s = {}
    BY <1>0, FS_EmptySet
  <2>2. it[{}] = 0
    BY DEF SumsOver
  <2>3. 0 \in 0 .. n
    BY <1>0
  <2>4. ASSUME NEW s \in SUBSET S, Cardinality(s) = 0
        PROVE  it[s] = h[s]
    <3>1. s = {}
      BY <2>1, <2>4
    <3> QED
      BY <1>h, <2>2, <3>1
  <2> QED
    BY <2>3, <2>4
<1>2. ASSUME NEW k \in 0 .. n - 1, k \in I
      PROVE  k + 1 \in I
  <2>1. ASSUME NEW s \in SUBSET S, Cardinality(s) = k + 1
        PROVE  it[s] = h[s]
    <3> DEFINE x == CHOOSE y \in s : TRUE
               r == s \ {x}
    <3>1. s # {} /\ IsFiniteSet(s) /\ k \in Nat
      BY <1>0, <2>1, FS_EmptySet
    <3>2. it[s] = f[x] + it[r]
      BY <3>1 DEF SumsOver
    <3>3. x = CHOOSE y \in s : TRUE
      OBVIOUS
    <3> HIDE DEF x
    <3>7. /\ x \in s /\ s \ {x} \subseteq s
          /\ Cardinality(s) \in Nat \ {0} /\ Cardinality(s \ {x}) = Cardinality(s) - 1
      BY <3>1, <3>3, OneLess
    <3>4. x \in s /\ r \in SUBSET S /\ Cardinality(r) = k
      BY <2>1, <3>1, <3>7
    <3>5. it[r] = h[r]
      BY <1>2, <3>4
    <3>6. h[s] = f[x] + h[r]
      BY <1>h, <3>4
    <3> HIDE DEF r
    <3> QED
      BY <3>2, <3>5, <3>6
  <2> QED
    BY <1>0, <2>1
<1>3. n \in I
  <2> HIDE DEF I
  <2>1. \A i \in 0 .. n : i \in I
    BY <1>0, <1>1, <1>2, UpTo
  <2> QED
    BY <1>0, <2>1
<1> QED
  BY <1>3 DEF n

-----------------------------------------------------------------------------
(* Folds.  FoldLeft is a function on all sets of positions; what it comes  *)
(* to are its values on the first i positions, step by step.               *)

\* Of the first i positions the last is i, and the others are the first i - 1.
LEMMA Firsts ==
    ASSUME NEW n \in Nat, NEW i \in 1 .. n
    PROVE  1 .. i \in SUBSET (1 .. n) /\ 1 .. i # {} /\ Max(1 .. i) = i /\ (1 .. i) \ {i} = 1 .. i - 1
<1>1. 1 .. i \in SUBSET (0 .. n) /\ 1 .. i # {} /\ i \in 1 .. i
  OBVIOUS
<1> DEFINE m == Max(1 .. i)
<1>2. m \in 1 .. i /\ \A u \in 1 .. i : u <= m
  BY <1>1, MinMax
<1> HIDE DEF m
<1>3. m = i
  BY <1>1, <1>2
<1> QED BY <1>3 DEF m

\* The last of some positions is a position.
LEMMA LastIsThere ==
    ASSUME NEW E, NEW seq \in Seq(E), NEW s \in SUBSET DOMAIN seq, s # {}
    PROVE  Max(s) \in DOMAIN seq /\ seq[Max(s)] \in E /\ s \ {Max(s)} \in SUBSET DOMAIN seq
<1> DEFINE n == Len(seq)
<1>1. n \in Nat /\ DOMAIN seq = 1 .. n /\ \A i \in 1 .. n : seq[i] \in E
  BY LenProperties
<1> HIDE DEF n
<1>2. s \in SUBSET (0 .. n)
  BY <1>1
<1>3. Max(s) \in s
  BY <1>1, <1>2, MinMax
<1> QED BY <1>1, <1>3

\* The function by which O is folded over seq, from base on; all within A.
IsFold(it, A, O, base, seq) ==
    /\ it \in [SUBSET DOMAIN seq -> A]
    /\ \A s \in SUBSET DOMAIN seq :
           it[s] = IF s = {} THEN base ELSE O[<<it[s \ {Max(s)}], seq[Max(s)]>>]

\* it is folded that way as far as it stays within A.
Folds(it, A, O, base, seq) ==
    /\ it[{}] = base
    /\ \A s \in SUBSET DOMAIN seq : s # {} /\ it[s \ {Max(s)}] \in A =>
           it[s] = O[<<it[s \ {Max(s)}], seq[Max(s)]>>]

\* Its steps, from base to last.
AreSteps(g, A, O, base, seq, last) ==
    /\ g \in [0 .. Len(seq) -> A] /\ g[0] = base /\ g[Len(seq)] = last
    /\ \A i \in 1 .. Len(seq) : g[i] = O[<<g[i - 1], seq[i]>>]

\* The function is there.
LEMMA FoldExists ==
    ASSUME NEW A, NEW E, NEW O \in [A \X E -> A], NEW base \in A, NEW seq \in Seq(E)
    PROVE  \E it : IsFold(it, A, O, base, seq)
<1> DEFINE n == Len(seq)
           Fits(it, k) == \A s \in SUBSET (1 .. k) :
               it[s] = IF s = {} THEN base ELSE O[<<it[s \ {Max(s)}], seq[Max(s)]>>]
           I == {k \in 0 .. n : \E it \in [SUBSET (1 .. k) -> A] : Fits(it, k)}
<1>0. n \in Nat /\ DOMAIN seq = 1 .. n /\ \A i \in 1 .. n : seq[i] \in E
  BY LenProperties
<1>1. 0 \in I
  <2> DEFINE it == [s \in SUBSET (1 .. 0) |-> base]
  <2>1. it \in [SUBSET (1 .. 0) -> A] /\ \A s \in SUBSET (1 .. 0) : it[s] = base /\ s = {}
    OBVIOUS
  <2> HIDE DEF it
  <2>2. Fits(it, 0)
    BY <2>1
  <2> HIDE DEF Fits
  <2> QED BY <1>0, <2>1, <2>2
<1>2. ASSUME NEW k \in 0 .. n - 1, k \in I PROVE k + 1 \in I
  <2>1. PICK it \in [SUBSET (1 .. k) -> A] : Fits(it, k)
    BY <1>2
  <2>2. k \in Nat /\ k + 1 \in 1 .. n /\ k + 1 \in 0 .. n
    BY <1>0
  <2> DEFINE next == [s \in SUBSET (1 .. k + 1) |->
                        IF k + 1 \in s THEN O[<<it[s \ {k + 1}], seq[k + 1]>>] ELSE it[s]]
  <2>3. ASSUME NEW s \in SUBSET (1 .. k + 1)
        PROVE  /\ k + 1 \in s => /\ s \ {k + 1} \in SUBSET (1 .. k) /\ Max(s) = k + 1
               /\ k + 1 \notin s => s \in SUBSET (1 .. k)
    <3>1. \A i \in s : i \in 1 .. k \/ i = k + 1
      BY <2>2
    <3>2. ASSUME k + 1 \in s PROVE Max(s) = k + 1
      <4> DEFINE m == Max(s)
      <4>1. k + 1 \in Nat /\ s \in SUBSET (0 .. k + 1) /\ s # {}
        BY <2>2, <3>2
      <4>2. m \in s /\ \A u \in s : u <= m
        BY <4>1, MinMax
      <4> HIDE DEF m
      <4>3. m = k + 1
        BY <2>2, <3>1, <3>2, <4>2
      <4> QED BY <4>3 DEF m
    <3> QED BY <3>1, <3>2
  <2>4. next \in [SUBSET (1 .. k + 1) -> A]
    <3>1. \A s \in SUBSET (1 .. k + 1) :
              (IF k + 1 \in s THEN O[<<it[s \ {k + 1}], seq[k + 1]>>] ELSE it[s]) \in A
      <4> SUFFICES ASSUME NEW s \in SUBSET (1 .. k + 1)
                   PROVE  (IF k + 1 \in s THEN O[<<it[s \ {k + 1}], seq[k + 1]>>] ELSE it[s]) \in A
        OBVIOUS
      <4>1. CASE k + 1 \in s
        <5>1. it[s \ {k + 1}] \in A /\ seq[k + 1] \in E
          BY <1>0, <2>2, <2>3, <4>1
        <5>2. O[<<it[s \ {k + 1}], seq[k + 1]>>] \in A
          BY <5>1
        <5> QED BY <4>1, <5>2
      <4>2. CASE k + 1 \notin s
        BY <2>3, <4>2
      <4> QED BY <4>1, <4>2
    <3> QED BY <3>1
  <2>5. Fits(next, k + 1)
    <3> SUFFICES ASSUME NEW s \in SUBSET (1 .. k + 1)
                 PROVE  next[s] = IF s = {} THEN base ELSE O[<<next[s \ {Max(s)}], seq[Max(s)]>>]
      OBVIOUS
    <3>1. next[s] = IF k + 1 \in s THEN O[<<it[s \ {k + 1}], seq[k + 1]>>] ELSE it[s]
      OBVIOUS
    <3>2. \A t \in SUBSET (1 .. k) : next[t] = it[t]
      <4> SUFFICES ASSUME NEW t \in SUBSET (1 .. k) PROVE next[t] = it[t]
        OBVIOUS
      <4>1. t \in SUBSET (1 .. k + 1) /\ k + 1 \notin t
        BY <2>2
      <4> QED BY <4>1
    <3>3. CASE k + 1 \in s
      <4>1. s # {} /\ s \ {k + 1} \in SUBSET (1 .. k) /\ Max(s) = k + 1
        BY <2>3, <3>3
      <4> HIDE DEF next
      <4>2. next[s \ {Max(s)}] = it[s \ {k + 1}]
        BY <3>2, <4>1
      <4> QED BY <3>1, <3>3, <4>1, <4>2
    <3>4. CASE k + 1 \notin s
      <4>1. s \in SUBSET (1 .. k) /\ s \ {Max(s)} \in SUBSET (1 .. k)
        BY <2>3, <3>4
      <4>2. it[s] = IF s = {} THEN base ELSE O[<<it[s \ {Max(s)}], seq[Max(s)]>>]
        BY <2>1, <4>1
      <4> HIDE DEF next
      <4>3. next[s] = it[s] /\ next[s \ {Max(s)}] = it[s \ {Max(s)}]
        BY <3>2, <4>1
      <4> QED BY <4>2, <4>3
    <3> QED BY <3>3, <3>4
  <2> HIDE DEF Fits, next
  <2> QED BY <2>2, <2>4, <2>5
<1>3. n \in I
  <2> HIDE DEF I, n
  <2>1. \A k \in 0 .. n - 1 : k \in I => k + 1 \in I
    BY <1>2
  <2>2. \A k \in 0 .. n : k \in I
    BY <1>0, <1>1, <2>1, UpTo
  <2>3. n \in 0 .. n
    BY <1>0
  <2> QED BY <2>2, <2>3
<1>4. PICK it \in [SUBSET (1 .. n) -> A] : Fits(it, n)
  BY <1>3
<1>5. IsFold(it, A, O, base, seq)
  BY <1>0, <1>4 DEF IsFold
<1> QED BY <1>5

\* Whatever satisfies its equation takes its steps, as long as they stay in A.
LEMMA FoldSteps ==
    ASSUME NEW A, NEW E, NEW O \in [A \X E -> A], NEW base \in A, NEW seq \in Seq(E),
           NEW it, Folds(it, A, O, base, seq)
    PROVE  \E g : AreSteps(g, A, O, base, seq, it[DOMAIN seq])
<1> DEFINE n == Len(seq)
           I == {i \in 0 .. n : it[1 .. i] \in A}
           g == [i \in 0 .. n |-> it[1 .. i]]
<1>0. n \in Nat /\ DOMAIN seq = 1 .. n /\ \A i \in 1 .. n : seq[i] \in E
  BY LenProperties
<1>1. 1 .. 0 = {}
  OBVIOUS
<1>2. 0 \in I
  BY <1>0, <1>1 DEF Folds
<1>3. ASSUME NEW i \in 1 .. n, it[1 .. i - 1] \in A
      PROVE  it[1 .. i] = O[<<it[1 .. i - 1], seq[i]>>] /\ it[1 .. i] \in A
  <2> HIDE DEF n
  <2>1. 1 .. i \in SUBSET (1 .. n) /\ 1 .. i # {} /\ Max(1 .. i) = i /\ (1 .. i) \ {i} = 1 .. i - 1
    BY <1>0, Firsts
  <2> DEFINE s == 1 .. i
             t == 1 .. i - 1
  <2>2. s \in SUBSET DOMAIN seq /\ s # {} /\ Max(s) = i /\ s \ {i} = t /\ it[t] \in A
    BY <1>0, <1>3, <2>1
  <2> HIDE DEF s, t
  <2>3. it[s] = O[<<it[t], seq[i]>>]
    BY <2>2 DEF Folds
  <2>4. seq[i] \in E
    BY <1>0
  <2>5. it[s] \in A
    BY <2>2, <2>3, <2>4
  <2> QED BY <2>3, <2>5 DEF s, t
<1>4. ASSUME NEW k \in 0 .. n - 1, k \in I PROVE k + 1 \in I
  <2>1. k + 1 \in 1 .. n /\ k + 1 \in 0 .. n /\ (k + 1) - 1 = k
    <3> HIDE DEF n, I, g
    <3> QED BY <1>0
  <2>2. it[1 .. (k + 1) - 1] \in A
    BY <1>4, <2>1
  <2>3. it[1 .. k + 1] \in A
    BY <1>3, <2>1, <2>2
  <2> QED BY <2>1, <2>3
<1>5. \A i \in 0 .. n : i \in I
  <2> HIDE DEF I, n, g
  <2>1. \A k \in 0 .. n - 1 : k \in I => k + 1 \in I
    BY <1>4
  <2> QED BY <1>0, <1>2, <2>1, UpTo
<1>6. g \in [0 .. n -> A]
  BY <1>5
<1>7. g[0] = base /\ g[n] = it[DOMAIN seq]
  BY <1>0, <1>1 DEF Folds
<1>8. ASSUME NEW i \in 1 .. n PROVE g[i] = O[<<g[i - 1], seq[i]>>]
  <2>1. i \in 0 .. n /\ i - 1 \in 0 .. n
    <3> HIDE DEF g, I, n
    <3> QED BY <1>0
  <2>2. it[1 .. i - 1] \in A
    <3>1. i - 1 \in I
      <4> HIDE DEF I
      <4> QED BY <1>5, <2>1
    <3> QED BY <3>1
  <2>3. it[1 .. i] = O[<<it[1 .. i - 1], seq[i]>>]
    BY <1>3, <2>2
  <2>4. g[i] = it[1 .. i] /\ g[i - 1] = it[1 .. i - 1]
    <3> HIDE DEF n
    <3> QED BY <2>1
  <2> QED BY <2>3, <2>4
<1>9. AreSteps(g, A, O, base, seq, it[DOMAIN seq])
  <2> HIDE DEF g
  <2> QED BY <1>6, <1>7, <1>8 DEF AreSteps
<1> QED BY <1>9

-----------------------------------------------------------------------------
(* The chunks of a diff.                                                   *)

\* A file's groups are sequences of its hunks, none of them empty.
LEMMA GroupsTyped ==
    ASSUME NEW file, IsFile(file)
    PROVE  Groups(file) \in Seq(Seq(ToSet(file.hunks)) \ {<<>>})
<1> DEFINE seq == file.hunks
           H == ToSet(seq)
           A == Seq(Seq(H) \ {<<>>})
           Add(gs, h) == IF gs # <<>> /\ Joins(Last(gs), h)
                         THEN [gs EXCEPT ![Len(gs)] = Append(@, h)]
                         ELSE Append(gs, <<h>>)
           O == [p \in A \X H |-> Add(p[1], p[2])]
           Runs(it) == it = [s \in SUBSET DOMAIN seq |->
                                IF s = {} THEN <<>> ELSE Add(it[s \ {Max(s)}], seq[Max(s)])]
           it == CHOOSE i : Runs(i)
<1>1. seq \in Seq(H) /\ <<>> \in A
  BY DEF IsFile, IsSequence
<1>2. ASSUME NEW gs \in A, NEW h \in H PROVE Add(gs, h) \in A
  <2>1. <<h>> \in Seq(H) \ {<<>>}
    OBVIOUS
  <2>2. ASSUME gs # <<>> PROVE [gs EXCEPT ![Len(gs)] = Append(@, h)] \in A
    <3>1. Len(gs) \in 1 .. Len(gs) /\ gs[Len(gs)] \in Seq(H)
      BY <2>2
    <3>2. Append(gs[Len(gs)], h) \in Seq(H) \ {<<>>}
      BY <3>1
    <3> QED BY <3>1, <3>2, ExceptSeq
  <2>3. Append(gs, <<h>>) \in A
    BY <2>1
  <2> QED BY <2>2, <2>3
<1>3. O \in [A \X H -> A] /\ \A gs \in A, h \in H : O[<<gs, h>>] = Add(gs, h)
  <2> HIDE DEF A, H, Add
  <2> QED BY <1>2
<1>4. Groups(file) = it[DOMAIN seq]
  BY DEF Groups, FoldLeft, MapThenFoldSet
<1> HIDE DEF A, H, Add, O, seq
<1>0. ASSUME NEW s \in SUBSET DOMAIN seq, s # {}
      PROVE  seq[Max(s)] \in H /\ s \ {Max(s)} \in SUBSET DOMAIN seq
  BY <1>0, <1>1, LastIsThere
<1>5. Runs(it)
  <2>1. PICK i : IsFold(i, A, O, <<>>, seq)
    BY <1>1, <1>3, FoldExists
  <2>2. ASSUME NEW s \in SUBSET DOMAIN seq
        PROVE  i[s] = IF s = {} THEN <<>> ELSE Add(i[s \ {Max(s)}], seq[Max(s)])
    <3>1. CASE s = {}
      BY <2>1, <3>1 DEF IsFold
    <3>2. CASE s # {}
      <4>1. i[s \ {Max(s)}] \in A /\ seq[Max(s)] \in H
        BY <1>0, <2>1, <3>2 DEF IsFold
      <4> QED BY <1>3, <2>1, <3>2, <4>1 DEF IsFold
    <3> QED BY <3>1, <3>2
  <2>3. Runs(i)
    BY <2>1, <2>2 DEF IsFold
  <2> HIDE DEF Runs
  <2> QED BY <2>3
<1> HIDE DEF it
<1>6. Folds(it, A, O, <<>>, seq)
  <2>1. it[{}] = <<>>
    BY <1>5
  <2>2. ASSUME NEW s \in SUBSET DOMAIN seq, s # {}, it[s \ {Max(s)}] \in A
        PROVE  it[s] = O[<<it[s \ {Max(s)}], seq[Max(s)]>>]
    <3>1. it[s] = Add(it[s \ {Max(s)}], seq[Max(s)])
      BY <1>5, <2>2
    <3> QED BY <1>0, <1>3, <2>2, <3>1
  <2> QED BY <2>1, <2>2 DEF Folds
<1>7. PICK g : AreSteps(g, A, O, <<>>, seq, it[DOMAIN seq])
  BY <1>1, <1>3, <1>6, FoldSteps
<1>8. g[Len(seq)] \in A
  BY <1>1, <1>7 DEF AreSteps
<1>9. Groups(file) \in A
  BY <1>4, <1>7, <1>8 DEF AreSteps
<1> QED BY <1>9 DEF A, H, seq

\* What the passes rely on in a chunk.
IsChunk(c) ==
    /\ c.path \in Int /\ c.first \in Int /\ IsSequence(c.hunks)
    /\ \A h \in ToSet(c.hunks) : IsSequence(h.lines)

\* A file is split into chunks.
LEMMA ChunkFileTyped ==
    ASSUME NEW file, IsFile(file)
    PROVE  /\ ChunkFile(file) \in Seq(ToSet(ChunkFile(file)))
           /\ \A c \in ToSet(ChunkFile(file)) : IsChunk(c)
<1> DEFINE G == Seq(ToSet(file.hunks)) \ {<<>>}
           groups == Groups(file)
           cut(g) == [path |-> file.path, hunks |-> groups[g],
                      first |-> Head(groups[g]).at, last |-> HunkEnd(Last(groups[g]))]
           cs == ChunkFile(file)
<1>1. groups \in Seq(G)
  BY GroupsTyped
<1>2. DOMAIN groups = 1 .. Len(groups) /\ Len(groups) \in Nat /\ \A g \in DOMAIN groups : groups[g] \in G
  <2> HIDE DEF G, groups
  <2> QED BY <1>1, LenProperties
<1>3. ASSUME NEW g \in DOMAIN groups PROVE IsChunk(cut(g))
  <2> DEFINE group == groups[g]
  <2>1. group \in Seq(ToSet(file.hunks)) /\ group # <<>>
    BY <1>2
  <2> HIDE DEF groups, group
  <2>2. Len(group) \in Nat /\ DOMAIN group = 1 .. Len(group) /\ Len(group) # 0
        /\ \A k \in DOMAIN group : group[k] \in ToSet(file.hunks)
    BY <2>1, LenProperties, EmptySeq
  <2>3. ToSet(group) \subseteq ToSet(file.hunks) /\ group \in Seq(ToSet(group))
    <3>1. \A k \in 1 .. Len(group) : group[k] \in ToSet(group)
      BY <2>2 DEF ToSet
    <3> QED BY <2>1, <2>2, <3>1 DEF ToSet
  <2>4. Head(group) \in ToSet(file.hunks)
    BY <2>1, <2>2
  <2>5. /\ cut(g).path = file.path /\ cut(g).first = Head(group).at /\ cut(g).hunks = group
    BY DEF group
  <2> HIDE DEF cut
  <2> QED BY <2>3, <2>4, <2>5 DEF IsChunk, IsFile, IsSequence
<1>4. cs = [g \in DOMAIN groups |-> cut(g)]
  BY DEF ChunkFile
<1> HIDE DEF cs, groups, cut
<1>5. \A g \in DOMAIN groups : cs[g] \in ToSet(cs)
  BY <1>4 DEF ToSet
<1>6. cs \in Seq(ToSet(cs))
  <2>1. cs = [g \in 1 .. Len(groups) |-> cs[g]]
    BY <1>2, <1>4
  <2> QED BY <1>2, <1>5, <2>1
<1>7. \A c \in ToSet(cs) : IsChunk(c)
  BY <1>3, <1>4 DEF ToSet
<1> QED BY <1>6, <1>7 DEF cs

\* The chunks of all files are a sequence of chunks.
LEMMA ChunksTyped ==
    ASSUME NEW files, IsSequence(files), \A f \in ToSet(files) : IsFile(f)
    PROVE  Chunks(files) \in Seq(UNION {ToSet(ChunkFile(f)) : f \in ToSet(files)})
<1> DEFINE seq == files
           E == ToSet(files)
           A == Seq(UNION {ToSet(ChunkFile(f)) : f \in ToSet(files)})
           Add(acc, x) == acc \o ChunkFile(x)
           O == [p \in A \X E |-> Add(p[1], p[2])]
           Runs(it) == it = [s \in SUBSET DOMAIN seq |->
                                IF s = {} THEN <<>> ELSE Add(it[s \ {Max(s)}], seq[Max(s)])]
           it == CHOOSE i : Runs(i)
<1>1. seq \in Seq(E) /\ <<>> \in A
  BY DEF IsSequence
<1>2. ASSUME NEW acc \in A, NEW x \in E PROVE Add(acc, x) \in A
  <2>1. ChunkFile(x) \in Seq(ToSet(ChunkFile(x))) /\ ToSet(ChunkFile(x)) \subseteq UNION {ToSet(ChunkFile(f)) : f \in E}
    BY ChunkFileTyped
  <2>2. ChunkFile(x) \in A
    BY <2>1
  <2> QED BY <2>2
<1>3. O \in [A \X E -> A] /\ \A acc \in A, x \in E : O[<<acc, x>>] = Add(acc, x)
  <2> HIDE DEF A, E, Add
  <2> QED BY <1>2
<1>4. Chunks(files) = it[DOMAIN seq]
  BY DEF Chunks, FoldLeft, MapThenFoldSet
<1> HIDE DEF A, E, Add, O, seq
<1>0. ASSUME NEW s \in SUBSET DOMAIN seq, s # {}
      PROVE  seq[Max(s)] \in E /\ s \ {Max(s)} \in SUBSET DOMAIN seq
  BY <1>0, <1>1, LastIsThere
<1>5. Runs(it)
  <2>1. PICK i : IsFold(i, A, O, <<>>, seq)
    BY <1>1, <1>3, FoldExists
  <2>2. ASSUME NEW s \in SUBSET DOMAIN seq
        PROVE  i[s] = IF s = {} THEN <<>> ELSE Add(i[s \ {Max(s)}], seq[Max(s)])
    <3>1. CASE s = {}
      BY <2>1, <3>1 DEF IsFold
    <3>2. CASE s # {}
      <4>1. i[s \ {Max(s)}] \in A /\ seq[Max(s)] \in E
        BY <1>0, <2>1, <3>2 DEF IsFold
      <4> QED BY <1>3, <2>1, <3>2, <4>1 DEF IsFold
    <3> QED BY <3>1, <3>2
  <2>3. Runs(i)
    BY <2>1, <2>2 DEF IsFold
  <2> HIDE DEF Runs
  <2> QED BY <2>3
<1> HIDE DEF it
<1>6. Folds(it, A, O, <<>>, seq)
  <2>1. it[{}] = <<>>
    BY <1>5
  <2>2. ASSUME NEW s \in SUBSET DOMAIN seq, s # {}, it[s \ {Max(s)}] \in A
        PROVE  it[s] = O[<<it[s \ {Max(s)}], seq[Max(s)]>>]
    <3>1. it[s] = Add(it[s \ {Max(s)}], seq[Max(s)])
      BY <1>5, <2>2
    <3> QED BY <1>0, <1>3, <2>2, <3>1
  <2> QED BY <2>1, <2>2 DEF Folds
<1>7. PICK g : AreSteps(g, A, O, <<>>, seq, it[DOMAIN seq])
  BY <1>1, <1>3, <1>6, FoldSteps
<1>8. Chunks(files) \in A
  BY <1>1, <1>4, <1>7 DEF AreSteps
<1> QED BY <1>8 DEF A, E, seq

\* The lines of a chunk, put together.
LEMMA BodyTyped ==
    ASSUME NEW chunk, IsChunk(chunk)
    PROVE  Body(chunk) \in Seq(UNION {ToSet(h.lines) : h \in ToSet(chunk.hunks)})
<1> DEFINE seq == chunk.hunks
           E == ToSet(chunk.hunks)
           A == Seq(UNION {ToSet(h.lines) : h \in ToSet(chunk.hunks)})
           Add(acc, x) == acc \o x.lines
           O == [p \in A \X E |-> Add(p[1], p[2])]
           Runs(it) == it = [s \in SUBSET DOMAIN seq |->
                                IF s = {} THEN <<>> ELSE Add(it[s \ {Max(s)}], seq[Max(s)])]
           it == CHOOSE i : Runs(i)
<1>1. seq \in Seq(E) /\ <<>> \in A
  BY DEF IsChunk, IsSequence
<1>2. ASSUME NEW acc \in A, NEW x \in E PROVE Add(acc, x) \in A
  <2>1. x.lines \in A
    BY DEF IsChunk, IsSequence
  <2> QED BY <2>1
<1>3. O \in [A \X E -> A] /\ \A acc \in A, x \in E : O[<<acc, x>>] = Add(acc, x)
  <2> HIDE DEF A, E, Add
  <2> QED BY <1>2
<1>4. Body(chunk) = it[DOMAIN seq]
  BY DEF Body, FoldLeft, MapThenFoldSet
<1> HIDE DEF A, E, Add, O, seq
<1>0. ASSUME NEW s \in SUBSET DOMAIN seq, s # {}
      PROVE  seq[Max(s)] \in E /\ s \ {Max(s)} \in SUBSET DOMAIN seq
  BY <1>0, <1>1, LastIsThere
<1>5. Runs(it)
  <2>1. PICK i : IsFold(i, A, O, <<>>, seq)
    BY <1>1, <1>3, FoldExists
  <2>2. ASSUME NEW s \in SUBSET DOMAIN seq
        PROVE  i[s] = IF s = {} THEN <<>> ELSE Add(i[s \ {Max(s)}], seq[Max(s)])
    <3>1. CASE s = {}
      BY <2>1, <3>1 DEF IsFold
    <3>2. CASE s # {}
      <4>1. i[s \ {Max(s)}] \in A /\ seq[Max(s)] \in E
        BY <1>0, <2>1, <3>2 DEF IsFold
      <4> QED BY <1>3, <2>1, <3>2, <4>1 DEF IsFold
    <3> QED BY <3>1, <3>2
  <2>3. Runs(i)
    BY <2>1, <2>2 DEF IsFold
  <2> HIDE DEF Runs
  <2> QED BY <2>3
<1> HIDE DEF it
<1>6. Folds(it, A, O, <<>>, seq)
  <2>1. it[{}] = <<>>
    BY <1>5
  <2>2. ASSUME NEW s \in SUBSET DOMAIN seq, s # {}, it[s \ {Max(s)}] \in A
        PROVE  it[s] = O[<<it[s \ {Max(s)}], seq[Max(s)]>>]
    <3>1. it[s] = Add(it[s \ {Max(s)}], seq[Max(s)])
      BY <1>5, <2>2
    <3> QED BY <1>0, <1>3, <2>2, <3>1
  <2> QED BY <2>1, <2>2 DEF Folds
<1>7. PICK g : AreSteps(g, A, O, <<>>, seq, it[DOMAIN seq])
  BY <1>1, <1>3, <1>6, FoldSteps
<1>8. Body(chunk) \in A
  BY <1>1, <1>4, <1>7 DEF AreSteps
<1> QED BY <1>8 DEF A, E, seq

\* The scan numbers finitely many lines.
LEMMA SecretLinesTyped ==
    ASSUME NEW chunk, IsChunk(chunk)
    PROVE  SecretLines(chunk) \in SUBSET Int /\ IsFiniteSet(SecretLines(chunk))
<1> DEFINE body == Body(chunk)
           counted == {i \in DOMAIN body : NewSide(body[i]) /\ ~(body[i].kind = "+" /\ body[i].doubled)}
           hits == {k \in counted : body[k].kind = "+" /\ body[k].secret}
           number == [i \in hits |-> chunk.first - 1 + Cardinality({k \in counted : k <= i})]
<1>1. Len(body) \in Nat /\ DOMAIN body = 1 .. Len(body)
  <2>1. body \in Seq(UNION {ToSet(h.lines) : h \in ToSet(chunk.hunks)})
    BY BodyTyped
  <2> HIDE DEF body
  <2> QED BY <2>1, LenProperties
<1>2. SecretLines(chunk) = {number[i] : i \in hits}
  BY DEF SecretLines
<1> HIDE DEF body
<1>3. counted \in SUBSET (1 .. Len(body)) /\ hits \in SUBSET (1 .. Len(body))
  BY <1>1
<1>4. IsFiniteSet(1 .. Len(body))
  BY <1>1, UpToCount
<1>5. IsFiniteSet(hits)
  <2> HIDE DEF hits, counted
  <2> QED BY <1>3, <1>4, FS_Subset
<1>6. ASSUME NEW i \in hits PROVE number[i] \in Int
  <2> DEFINE upTo == {k \in counted : k <= i}
  <2>1. upTo \in SUBSET (1 .. Len(body))
    BY <1>3
  <2>2. number[i] = chunk.first - 1 + Cardinality(upTo) /\ chunk.first \in Int
    BY DEF IsChunk
  <2> HIDE DEF upTo, number, hits, counted
  <2>3. Cardinality(upTo) \in Nat
    BY <1>4, <2>1, FS_Subset, FS_CardinalityType
  <2> QED BY <2>2, <2>3
<1> DEFINE T == {number[i] : i \in hits}
<1>7. DOMAIN number = hits
  OBVIOUS
<1> HIDE DEF number, hits, counted
<1>8. T \in SUBSET Int
  BY <1>6
<1>9. number \in Surjection(hits, T)
  <2>1. number \in [hits -> T] /\ \A t \in T : \E i \in hits : number[i] = t
    <3>1. number = [i \in hits |-> number[i]]
      BY DEF number
    <3> QED BY <3>1
  <2> HIDE DEF T
  <2> QED BY <2>1, Fun_IsSurj
<1>10. IsFiniteSet(T)
  <2> HIDE DEF T
  <2> QED BY <1>5, <1>9, FS_Surjection
<1> QED BY <1>2, <1>8, <1>10

-----------------------------------------------------------------------------
(* Sums.                                                                   *)

\* g adds up ns, step by step.
AddsUp(g, ns) ==
    /\ g \in [0 .. Len(ns) -> Nat] /\ g[0] = 0 /\ g[Len(ns)] = Total(ns)
    /\ \A i \in 1 .. Len(ns) : g[i] = g[i - 1] + ns[i]

\* The sum of a sequence of numbers is taken from left to right.
LEMMA TotalSteps ==
    ASSUME NEW ns \in Seq(Nat)
    PROVE  \E g : AddsUp(g, ns)
<1> DEFINE Add(acc, n) == acc + n
           O == [p \in Nat \X Nat |-> Add(p[1], p[2])]
           Runs(it) == it = [s \in SUBSET DOMAIN ns |->
                                IF s = {} THEN 0 ELSE Add(it[s \ {Max(s)}], ns[Max(s)])]
           it == CHOOSE i : Runs(i)
<1>1. \A acc \in Nat, n \in Nat : Add(acc, n) = acc + n /\ Add(acc, n) \in Nat
  OBVIOUS
<1>2. Total(ns) = it[DOMAIN ns]
  BY DEF Total, FoldLeft, MapThenFoldSet
<1> HIDE DEF Add
<1>3. O \in [Nat \X Nat -> Nat] /\ \A acc \in Nat, n \in Nat : O[<<acc, n>>] = Add(acc, n)
  BY <1>1
<1> HIDE DEF O
<1>4. ASSUME NEW s \in SUBSET DOMAIN ns, s # {}
      PROVE  ns[Max(s)] \in Nat /\ s \ {Max(s)} \in SUBSET DOMAIN ns
  BY <1>4, LastIsThere
<1>5. Runs(it)
  <2>1. PICK i : IsFold(i, Nat, O, 0, ns)
    BY <1>3, FoldExists
  <2>2. ASSUME NEW s \in SUBSET DOMAIN ns
        PROVE  i[s] = IF s = {} THEN 0 ELSE Add(i[s \ {Max(s)}], ns[Max(s)])
    <3>1. CASE s = {}
      BY <2>1, <3>1 DEF IsFold
    <3>2. CASE s # {}
      <4>1. i[s \ {Max(s)}] \in Nat /\ ns[Max(s)] \in Nat
        BY <1>4, <2>1, <3>2 DEF IsFold
      <4> QED BY <1>3, <2>1, <3>2, <4>1 DEF IsFold
    <3> QED BY <3>1, <3>2
  <2>3. Runs(i)
    BY <2>1, <2>2 DEF IsFold
  <2> HIDE DEF Runs
  <2> QED BY <2>3
<1> HIDE DEF it
<1>6. Folds(it, Nat, O, 0, ns)
  <2>1. it[{}] = 0
    BY <1>5
  <2>2. ASSUME NEW s \in SUBSET DOMAIN ns, s # {}, it[s \ {Max(s)}] \in Nat
        PROVE  it[s] = O[<<it[s \ {Max(s)}], ns[Max(s)]>>]
    <3>1. it[s] = Add(it[s \ {Max(s)}], ns[Max(s)])
      BY <1>5, <2>2
    <3> QED BY <1>3, <1>4, <2>2, <3>1
  <2> QED BY <2>1, <2>2 DEF Folds
<1>7. PICK g : AreSteps(g, Nat, O, 0, ns, it[DOMAIN ns])
  BY <1>3, <1>6, FoldSteps
<1>8. Len(ns) \in Nat /\ \A i \in 1 .. Len(ns) : ns[i] \in Nat
  BY LenProperties
<1>9. ASSUME NEW i \in 1 .. Len(ns) PROVE g[i] = g[i - 1] + ns[i]
  <2>1. i - 1 \in 0 .. Len(ns) /\ ns[i] \in Nat /\ g \in [0 .. Len(ns) -> Nat]
    BY <1>7, <1>8 DEF AreSteps
  <2>2. g[i - 1] \in Nat
    BY <2>1
  <2>3. g[i] = O[<<g[i - 1], ns[i]>>]
    BY <1>7 DEF AreSteps
  <2> QED BY <1>1, <1>3, <2>1, <2>2, <2>3
<1>10. AddsUp(g, ns)
  BY <1>2, <1>7, <1>9 DEF AreSteps, AddsUp
<1> QED BY <1>10

\* The sum of numbers is a number.
LEMMA TotalTyped ==
    ASSUME NEW ns \in Seq(Nat)
    PROVE  Total(ns) \in Nat
<1>1. PICK g : AddsUp(g, ns)
  BY TotalSteps
<1>2. Len(ns) \in Nat
  BY LenProperties
<1> QED BY <1>1, <1>2 DEF AddsUp

\* Sums of sums.
LEMMA TotalOfSums ==
    ASSUME NEW as \in Seq(Nat), NEW bs \in Seq(Nat), NEW cs \in Seq(Nat),
           Len(as) = Len(cs), Len(bs) = Len(cs),
           \A i \in 1 .. Len(cs) : cs[i] = as[i] + bs[i]
    PROVE  Total(cs) = Total(as) + Total(bs)
<1>1. PICK f : AddsUp(f, as)
  BY TotalSteps
<1>2. PICK g : AddsUp(g, bs)
  BY TotalSteps
<1>3. PICK h : AddsUp(h, cs)
  BY TotalSteps
<1> DEFINE n == Len(cs)
           I == {i \in 0 .. n : h[i] = f[i] + g[i]}
<1>4. n \in Nat /\ \A i \in 1 .. n : as[i] \in Nat /\ bs[i] \in Nat /\ cs[i] \in Nat
  BY LenProperties
<1>5. /\ f \in [0 .. n -> Nat] /\ g \in [0 .. n -> Nat] /\ h \in [0 .. n -> Nat]
      /\ f[0] = 0 /\ g[0] = 0 /\ h[0] = 0 /\ f[n] = Total(as) /\ g[n] = Total(bs) /\ h[n] = Total(cs)
      /\ \A i \in 1 .. n : /\ f[i] = f[i - 1] + as[i] /\ g[i] = g[i - 1] + bs[i]
                           /\ h[i] = h[i - 1] + cs[i] /\ cs[i] = as[i] + bs[i]
  BY <1>1, <1>2, <1>3 DEF AddsUp
<1> HIDE DEF n
<1>6. 0 \in I
  BY <1>4, <1>5
<1>7. ASSUME NEW k \in 0 .. n - 1, k \in I PROVE k + 1 \in I
  <2>1. k + 1 \in 1 .. n /\ k + 1 \in 0 .. n /\ k \in 0 .. n /\ (k + 1) - 1 = k
    BY <1>4
  <2>2. f[k] \in Nat /\ g[k] \in Nat /\ h[k] = f[k] + g[k]
    BY <1>5, <1>7, <2>1
  <2>3. /\ f[k + 1] = f[k] + as[k + 1] /\ g[k + 1] = g[k] + bs[k + 1]
        /\ h[k + 1] = h[k] + (as[k + 1] + bs[k + 1]) /\ as[k + 1] \in Nat /\ bs[k + 1] \in Nat
    BY <1>4, <1>5, <2>1
  <2>4. h[k + 1] = f[k + 1] + g[k + 1]
    <3> DEFINE x == f[k]
               y == g[k]
               u == as[k + 1]
               v == bs[k + 1]
    <3>1. /\ x \in Nat /\ y \in Nat /\ u \in Nat /\ v \in Nat
          /\ f[k + 1] = x + u /\ g[k + 1] = y + v /\ h[k + 1] = (x + y) + (u + v)
      BY <2>2, <2>3
    <3> HIDE DEF x, y, u, v
    <3>2. (x + y) + (u + v) = (x + u) + (y + v)
      BY <3>1
    <3> QED BY <3>1, <3>2
  <2> QED BY <2>1, <2>4
<1> HIDE DEF I
<1>8. \A i \in 0 .. n : i \in I
  BY <1>4, <1>6, <1>7, UpTo
<1>9. n \in I
  BY <1>4, <1>8
<1> QED BY <1>5, <1>9 DEF I

\* The members of a finite set, counted class by class.
LEMMA CountsAddUp ==
    ASSUME NEW D, IsFiniteSet(D), NEW m \in Nat, NEW class, \A d \in D : class[d] \in 1 .. m,
           NEW ns, ns \in Seq(Nat), Len(ns) = m,
           \A a \in 1 .. m : ns[a] = Cardinality({d \in D : class[d] = a})
    PROVE  Total(ns) = Cardinality(D)
<1>1. PICK g : AddsUp(g, ns)
  BY TotalSteps
<1> DEFINE Upto(a) == {d \in D : class[d] <= a}
           I == {a \in 0 .. m : g[a] = Cardinality(Upto(a))}
<1>2. /\ g \in [0 .. m -> Nat] /\ g[0] = 0 /\ g[m] = Total(ns)
      /\ \A a \in 1 .. m : g[a] = g[a - 1] + ns[a]
  BY <1>1 DEF AddsUp
<1>3. \A a \in 0 .. m : IsFiniteSet(Upto(a))
  BY FS_Subset
<1>4. 0 \in I
  <2>1. Upto(0) = {}
    OBVIOUS
  <2> HIDE DEF Upto
  <2>2. Cardinality(Upto(0)) = 0
    BY <2>1, FS_EmptySet
  <2> QED BY <1>2, <2>2
<1>5. ASSUME NEW k \in 0 .. m - 1, k \in I PROVE k + 1 \in I
  <2> DEFINE new == {d \in D : class[d] = k + 1}
  <2>1. k + 1 \in 1 .. m /\ k + 1 \in 0 .. m /\ k \in 0 .. m /\ (k + 1) - 1 = k
    OBVIOUS
  <2>2. Upto(k + 1) = Upto(k) \cup new /\ Upto(k) \cap new = {}
    BY <2>1
  <2>3. IsFiniteSet(new) /\ IsFiniteSet(Upto(k))
    BY <1>3, <2>1, FS_Subset
  <2>4. g[k] = Cardinality(Upto(k)) /\ g[k + 1] = g[k] + Cardinality(new)
    BY <1>2, <1>5, <2>1
  <2> HIDE DEF new, Upto
  <2>5. Cardinality(Upto(k + 1)) = Cardinality(Upto(k)) + Cardinality(new)
    <3>1. Cardinality(Upto(k) \cap new) = 0
      BY <2>2, FS_EmptySet
    <3>2. Cardinality(Upto(k) \cup new) = Cardinality(Upto(k)) + Cardinality(new) - Cardinality(Upto(k) \cap new)
      BY <2>3, FS_Union
    <3>3. Cardinality(Upto(k)) \in Nat /\ Cardinality(new) \in Nat
      BY <2>3, FS_CardinalityType
    <3>4. Cardinality(Upto(k + 1)) = Cardinality(Upto(k) \cup new)
      BY <2>2
    <3> QED BY <3>1, <3>2, <3>3, <3>4
  <2> QED BY <2>1, <2>4, <2>5
<1> HIDE DEF I
<1>6. \A a \in 0 .. m : a \in I
  BY <1>4, <1>5, UpTo
<1>7. m \in I /\ Upto(m) = D
  BY <1>6
<1> QED BY <1>2, <1>7 DEF I

-----------------------------------------------------------------------------
(* Sequences of findings.                                                  *)

IsFindings(fs) == IsSequence(fs) /\ \A f \in ToSet(fs) : IsFinding(f)

\* What a sequence is made of.
LEMMA SequenceFacts ==
    ASSUME NEW s, IsSequence(s)
    PROVE  /\ Len(s) \in Nat /\ DOMAIN s = 1 .. Len(s) /\ s = [i \in 1 .. Len(s) |-> s[i]]
           /\ \A i \in DOMAIN s : s[i] \in ToSet(s)
           /\ \A x \in ToSet(s) : \E i \in DOMAIN s : x = s[i]
<1>1. s \in Seq(ToSet(s))
  BY DEF IsSequence
<1>2. Len(s) \in Nat /\ DOMAIN s = 1 .. Len(s) /\ s \in [1 .. Len(s) -> ToSet(s)]
  BY <1>1, LenProperties
<1> QED BY <1>2 DEF ToSet

\* A function on the numbers up to n is a sequence.
LEMMA FunctionIsSequence ==
    ASSUME NEW n \in Nat, NEW s, s = [i \in 1 .. n |-> s[i]]
    PROVE  IsSequence(s) /\ Len(s) = n /\ DOMAIN s = 1 .. n /\ \A x \in ToSet(s) : \E i \in 1 .. n : x = s[i]
<1>1. DOMAIN s = 1 .. n
  OBVIOUS
<1>2. \A i \in 1 .. n : s[i] \in ToSet(s)
  BY <1>1 DEF ToSet
<1> DEFINE T == ToSet(s)
<1> HIDE DEF T
<1>3. [i \in 1 .. n |-> s[i]] \in Seq(T)
  BY <1>2, IsASeq DEF T
<1>4. s \in Seq(T)
  BY <1>3
<1>5. DOMAIN s = 1 .. Len(s) /\ Len(s) \in Nat
  BY <1>4, LenProperties
<1>6. Len(s) = n
  BY <1>1, <1>5
<1> QED BY <1>1, <1>4, <1>6 DEF IsSequence, ToSet, T

\* So is every member of a set of sequences.
LEMMA MemberIsSequence ==
    ASSUME NEW E, NEW s \in Seq(E)
    PROVE  IsSequence(s) /\ ToSet(s) \subseteq E
<1>1. Len(s) \in Nat /\ DOMAIN s = 1 .. Len(s) /\ s \in [1 .. Len(s) -> E]
  BY LenProperties
<1>2. s = [i \in 1 .. Len(s) |-> s[i]]
  BY <1>1
<1> QED BY <1>1, <1>2, FunctionIsSequence DEF ToSet

\* Selecting from a sequence gives a sequence.
LEMMA SelectedIsSequence ==
    ASSUME NEW s, IsSequence(s), NEW P \in SUBSET DOMAIN s
    PROVE  IsSequence(Selected(s, P)) /\ ToSet(Selected(s, P)) = {s[i] : i \in P}
<1>1. s \in Seq(ToSet(s))
  BY DEF IsSequence
<1> DEFINE t == Selected(s, P)
<1>2. t \in Seq(ToSet(s))
  BY <1>1, SelectedTells
<1>3. /\ \A k \in DOMAIN t : \E i \in P : t[k] = s[i]
      /\ \A i \in P : \E k \in DOMAIN t : t[k] = s[i]
  BY <1>1, SelectedRange
<1> HIDE DEF t
<1>4. IsSequence(t)
  BY <1>2, MemberIsSequence
<1>5. ToSet(t) = {s[i] : i \in P}
  BY <1>3 DEF ToSet
<1> QED BY <1>4, <1>5 DEF t

\* No findings are findings.
LEMMA NoFindings == IsFindings(<<>>)
<1>1. ToSet(<<>>) = {} /\ <<>> \in Seq({})
  BY DEF ToSet
<1> QED BY <1>1 DEF IsFindings, IsSequence

\* Some position of a sequence is the first of a kind.
LEMMA FirstOfKind ==
    ASSUME NEW E, NEW s \in Seq(E), NEW K \in SUBSET DOMAIN s, K # {}
    PROVE  Min(K) \in K /\ Min(K) \in DOMAIN s /\ \A i \in K : Min(K) <= i
<1>1. Len(s) \in Nat /\ DOMAIN s = 1 .. Len(s)
  BY LenProperties
<1>2. K \in SUBSET (0 .. Len(s))
  BY <1>1
<1> QED BY <1>1, <1>2, MinMax

-----------------------------------------------------------------------------
(* Severities stay on the scale.                                           *)

\* bumpSeverity() clamps.
LEMMA BumpStaysOnScale ==
    ASSUME NEW severity \in Severities, NEW delta \in Int
    PROVE  BumpSeverity(severity, delta) \in Severities
<1> DEFINE least == Min({Nit, severity + delta})
           most == Max({Critical, least})
<1>1. Critical = 0 /\ Nit = 4 /\ severity \in 0 .. 4
  BY DEF Severities, Critical, Nit
<1>2. least = IF 4 <= severity + delta THEN 4 ELSE severity + delta
  BY <1>1 DEF Min
<1> HIDE DEF least
<1>3. most = IF 0 >= least THEN 0 ELSE least
  BY <1>1, <1>2 DEF Max
<1>4. most \in 0 .. 4
  <2> HIDE DEF most
  <2> QED BY <1>1, <1>2, <1>3
<1> QED BY <1>4 DEF BumpSeverity, least, Severities, Critical, Nit

\* A finding that no rule drops is a finding with the severity that the first
\* rule for it gives it.
LEMMA RuledTyped ==
    ASSUME NEW f, IsFinding(f), NEW rules, IsSequence(rules),
           \A rule \in ToSet(rules) : IsRule(rule), ~Dropped(f, rules)
    PROVE  IsFinding(Ruled(f, rules))
<1> DEFINE matching == {i \in DOMAIN rules : Matches(f, rules[i])}
           i == RuleFor(f, rules)
           to == IF rules[i].effect = "set" THEN rules[i].arg ELSE BumpSeverity(f.severity, rules[i].arg)
<1>1. i = IF matching = {} THEN 0 ELSE Min(matching)
  BY DEF RuleFor
<1>2. ASSUME i # 0 PROVE i \in DOMAIN rules
  <2>1. rules \in Seq(ToSet(rules)) /\ matching \in SUBSET DOMAIN rules
    BY DEF IsSequence
  <2> HIDE DEF matching, i
  <2> QED BY <1>1, <1>2, <2>1, FirstOfKind
<1>3. Ruled(f, rules) = IF i = 0 \/ to = f.severity THEN f
                        ELSE [f EXCEPT !.severity = to, !.tags = @ \cup {<<"severity-rule", i>>}]
  BY DEF Ruled
<1>4. ASSUME i # 0 PROVE to \in Severities
  <2>1. IsRule(rules[i])
    BY <1>2, <1>4 DEF ToSet
  <2>2. rules[i].effect # "drop"
    BY <1>4 DEF Dropped
  <2>3. CASE rules[i].effect = "set"
    BY <2>1, <2>3 DEF IsRule
  <2>4. CASE rules[i].effect = "bump"
    <3>1. rules[i].arg \in Int /\ f.severity \in Severities
      BY <2>1, <2>4 DEF IsRule, IsFinding
    <3>2. BumpSeverity(f.severity, rules[i].arg) \in Severities
      BY <3>1, BumpStaysOnScale
    <3> QED BY <2>4, <3>2
  <2> QED BY <2>1, <2>2, <2>3, <2>4 DEF IsRule
<1> HIDE DEF i, to
<1> QED BY <1>3, <1>4 DEF IsFinding, FindingFields

\* applySeverityRules() returns findings.
LEMMA RulesTyped ==
    ASSUME NEW fs, IsFindings(fs), NEW rules, IsSequence(rules), \A rule \in ToSet(rules) : IsRule(rule)
    PROVE  IsFindings(ApplySeverityRules(fs, rules))
<1> DEFINE P == {i \in DOMAIN fs : ~Dropped(fs[i], rules)}
           kept == Selected(fs, P)
           ruled == [i \in DOMAIN kept |-> Ruled(kept[i], rules)]
<1>1. ApplySeverityRules(fs, rules) = ruled
  BY DEF ApplySeverityRules
<1>2. P \in SUBSET DOMAIN fs /\ \A i \in P : IsFinding(fs[i]) /\ ~Dropped(fs[i], rules)
  BY SequenceFacts DEF IsFindings
<1> HIDE DEF P
<1>3. IsSequence(kept) /\ ToSet(kept) = {fs[i] : i \in P}
  BY <1>2, SelectedIsSequence DEF IsFindings
<1> HIDE DEF kept
<1>4. Len(kept) \in Nat /\ DOMAIN kept = 1 .. Len(kept)
      /\ \A i \in DOMAIN kept : IsFinding(kept[i]) /\ ~Dropped(kept[i], rules)
  <2>1. Len(kept) \in Nat /\ DOMAIN kept = 1 .. Len(kept) /\ \A i \in DOMAIN kept : kept[i] \in ToSet(kept)
    BY <1>3, SequenceFacts
  <2> QED BY <1>2, <1>3, <2>1
<1>5. \A i \in 1 .. Len(kept) : IsFinding(ruled[i])
  <2>1. \A i \in 1 .. Len(kept) : IsFinding(Ruled(kept[i], rules))
    BY <1>4, RuledTyped
  <2> QED BY <1>4, <2>1
<1>6. ruled = [i \in 1 .. Len(kept) |-> ruled[i]]
  BY <1>4
<1> HIDE DEF ruled
<1> QED BY <1>1, <1>4, <1>5, <1>6, FunctionIsSequence DEF IsFindings

\* calibrateConfidence() returns findings.
LEMMA CalibrationTyped ==
    ASSUME NEW fs, IsFindings(fs)
    PROVE  IsFindings(CalibrateConfidence(fs))
<1> DEFINE n == Len(fs)
           cs == CalibrateConfidence(fs)
<1>1. n \in Nat /\ DOMAIN fs = 1 .. n /\ \A i \in 1 .. n : IsFinding(fs[i])
  BY SequenceFacts DEF IsFindings
<1>2. ASSUME NEW f, IsFinding(f) PROVE IsFinding(Calibrated(f))
  <2>1. f.severity \in Severities
    BY <1>2 DEF IsFinding
  <2>2. \A floor \in Severities : AtLeast(f.severity, floor) \in Severities
    <3> SUFFICES ASSUME NEW floor \in Severities PROVE AtLeast(f.severity, floor) \in Severities
      OBVIOUS
    <3>1. AtLeast(f.severity, floor) = IF f.severity <= floor THEN f.severity ELSE floor
      BY <2>1 DEF AtLeast, Min, Severities, Critical, Nit
    <3> QED BY <2>1, <3>1
  <2>3. High \in Severities /\ Medium \in Severities /\ Nit \in Severities
    BY DEF Severities, Critical, High, Medium, Nit
  <2>4. Promoted(f) \in Severities
    BY <2>1, <2>2, <2>3 DEF Promoted
  <2> DEFINE p == Promoted(f)
  <2>5. Calibrated(f) \in {f, [f EXCEPT !.severity = p, !.tags = @ \cup {<<"promoted to", p>>}],
                           [f EXCEPT !.severity = Nit, !.tags = @ \cup {<<"nit-floor">>}]}
    BY DEF Calibrated
  <2> HIDE DEF p
  <2>6. IsFinding([f EXCEPT !.severity = p, !.tags = @ \cup {<<"promoted to", p>>}])
    BY <1>2, <2>4 DEF IsFinding, FindingFields, p
  <2>7. IsFinding([f EXCEPT !.severity = Nit, !.tags = @ \cup {<<"nit-floor">>}])
    BY <1>2, <2>3 DEF IsFinding, FindingFields
  <2> QED BY <1>2, <2>5, <2>6, <2>7
<1>3. cs = [i \in 1 .. n |-> Calibrated(fs[i])]
  BY <1>1 DEF CalibrateConfidence
<1> HIDE DEF n, cs
<1>4. \A i \in 1 .. n : IsFinding(cs[i])
  BY <1>1, <1>2, <1>3
<1>5. cs = [i \in 1 .. n |-> cs[i]]
  BY <1>3
<1>6. IsFindings(cs)
  BY <1>1, <1>4, <1>5, FunctionIsSequence DEF IsFindings
<1> QED BY <1>6 DEF cs

-----------------------------------------------------------------------------
(* Clusters, and what stands for a finding.                                *)

\* What the order of findings is taken from.
Rankable(f) ==
    f.severity \in Severities /\ f.confidence \in 0 .. 100 /\ f.file \in Int /\ f.line \in Int

\* preferOver() is an order in which findings may tie.
LEMMA PreferenceOrders ==
    ASSUME NEW a, NEW b, NEW c, Rankable(a), Rankable(b), Rankable(c)
    PROVE  /\ ~PreferOver(a, a)
           /\ PreferOver(a, b) => ~PreferOver(b, a)
           /\ ~PreferOver(a, b) /\ ~PreferOver(b, c) => ~PreferOver(a, c)
<1> DEFINE sa == a.severity
           sb == b.severity
           sc == c.severity
           ka == a.confidence
           kb == b.confidence
           kc == c.confidence
<1>1. sa \in Int /\ sb \in Int /\ sc \in Int /\ ka \in Int /\ kb \in Int /\ kc \in Int
  BY DEF Rankable, Severities, Critical, Nit
<1>2. /\ PreferOver(a, a) <=> sa < sa \/ (sa = sa /\ ka > ka)
      /\ PreferOver(a, b) <=> sa < sb \/ (sa = sb /\ ka > kb)
      /\ PreferOver(b, a) <=> sb < sa \/ (sb = sa /\ kb > ka)
      /\ PreferOver(b, c) <=> sb < sc \/ (sb = sc /\ kb > kc)
      /\ PreferOver(a, c) <=> sa < sc \/ (sa = sc /\ ka > kc)
  BY DEF PreferOver
<1> HIDE DEF sa, sb, sc, ka, kb, kc
<1> QED BY <1>1, <1>2

\* similarityMerge: of two findings that echo each other, each echoes the other.
LEMMA EchoIsMutual ==
    ASSUME NEW f, NEW g, Rankable(f), Rankable(g), Echo(f, g)
    PROVE  Echo(g, f)
<1>1. Distance(f, g) = Distance(g, f)
  BY DEF Rankable, Distance
<1> QED BY <1>1 DEF Echo

\* The same findings echo the same findings, and are preferred alike.
LEMMA SameIsTheSame ==
    ASSUME NEW f, NEW g, SameFinding(f, g)
    PROVE  /\ \A h : (Echo(f, h) <=> Echo(g, h)) /\ (Echo(h, f) <=> Echo(h, g))
           /\ \A h : (PreferOver(f, h) <=> PreferOver(g, h)) /\ (PreferOver(h, f) <=> PreferOver(h, g))
           /\ f.file = g.file /\ \A floor, threshold : Passes(f, floor, threshold) <=> Passes(g, floor, threshold)
<1>1. /\ f.category = g.category /\ f.severity = g.severity /\ f.title = g.title /\ f.why = g.why
      /\ f.file = g.file /\ f.line = g.line /\ f.confidence = g.confidence
  BY DEF SameFinding
<1>2. \A h : Distance(f, h) = Distance(g, h) /\ Distance(h, f) = Distance(h, g)
  BY <1>1 DEF Distance
<1>3. \A h : (Echo(f, h) <=> Echo(g, h)) /\ (Echo(h, f) <=> Echo(h, g))
  BY <1>1, <1>2 DEF Echo
<1>4. \A h : (PreferOver(f, h) <=> PreferOver(g, h)) /\ (PreferOver(h, f) <=> PreferOver(h, g))
  BY <1>1 DEF PreferOver
<1> QED BY <1>1, <1>3, <1>4 DEF Passes

\* A sequence has no more different elements than positions.
LEMMA FewElements ==
    ASSUME NEW s, IsSequence(s)
    PROVE  IsFiniteSet(ToSet(s)) /\ Cardinality(ToSet(s)) <= Len(s)
<1>1. Len(s) \in Nat /\ DOMAIN s = 1 .. Len(s) /\ s \in [1 .. Len(s) -> ToSet(s)]
      /\ \A x \in ToSet(s) : \E i \in 1 .. Len(s) : s[i] = x
  <2>1. s = [i \in 1 .. Len(s) |-> s[i]] /\ \A i \in 1 .. Len(s) : s[i] \in ToSet(s)
    BY SequenceFacts
  <2> DEFINE T == ToSet(s)
  <2> HIDE DEF T
  <2>2. s \in [1 .. Len(s) -> T]
    BY <2>1 DEF T
  <2> QED BY <2>2, SequenceFacts DEF T
<1> DEFINE T == ToSet(s)
<1> HIDE DEF T
<1>2. s \in Surjection(1 .. Len(s), T)
  BY <1>1, Fun_IsSurj DEF T
<1>3. IsFiniteSet(1 .. Len(s)) /\ Cardinality(1 .. Len(s)) = Len(s)
  BY <1>1, UpToCount
<1>4. IsFiniteSet(T) /\ Cardinality(T) <= Cardinality(1 .. Len(s))
  BY <1>2, <1>3, FS_Surjection
<1> QED BY <1>3, <1>4 DEF T

\* The rounds in which a cluster grows.
Grown(fs, S) == S \cup {x \in ToSet(fs) : \E h \in S : Echo(x, h)}

ClusterSteps(g, fs, f) ==
    /\ g \in [0 .. Len(fs) -> SUBSET ToSet(fs)] /\ g[0] = {f} /\ g[Len(fs)] = Cluster(fs, f)
    /\ \A i \in 1 .. Len(fs) : g[i] = Grown(fs, g[i - 1])

\* A cluster grows in as many rounds as there are findings.
LEMMA ClusterGrows ==
    ASSUME NEW fs, IsSequence(fs), NEW f \in ToSet(fs)
    PROVE  \E g : ClusterSteps(g, fs, f)
<1> DEFINE seq == fs
           E == ToSet(fs)
           A == SUBSET ToSet(fs)
           Add(acc, x) == acc \cup {y \in ToSet(fs) : \E h \in acc : Echo(y, h)}
           O == [p \in A \X E |-> Add(p[1], p[2])]
           Runs(it) == it = [s \in SUBSET DOMAIN seq |->
                                IF s = {} THEN {f} ELSE Add(it[s \ {Max(s)}], seq[Max(s)])]
           it == CHOOSE i : Runs(i)
<1>1. seq \in Seq(E) /\ {f} \in A
  BY DEF IsSequence
<1>2. ASSUME NEW acc \in A, NEW x \in E PROVE Add(acc, x) \in A
  OBVIOUS
<1>3. O \in [A \X E -> A] /\ \A acc \in A, x \in E : O[<<acc, x>>] = Add(acc, x)
  <2> HIDE DEF A, E, Add
  <2> QED BY <1>2
<1>4. Cluster(fs, f) = it[DOMAIN seq]
  BY DEF Cluster, FoldLeft, MapThenFoldSet
<1> HIDE DEF A, E, Add, O, seq
<1>0. ASSUME NEW s \in SUBSET DOMAIN seq, s # {}
      PROVE  seq[Max(s)] \in E /\ s \ {Max(s)} \in SUBSET DOMAIN seq
  BY <1>0, <1>1, LastIsThere
<1>5. Runs(it)
  <2>1. PICK i : IsFold(i, A, O, {f}, seq)
    BY <1>1, <1>3, FoldExists
  <2>2. ASSUME NEW s \in SUBSET DOMAIN seq
        PROVE  i[s] = IF s = {} THEN {f} ELSE Add(i[s \ {Max(s)}], seq[Max(s)])
    <3>1. CASE s = {}
      BY <2>1, <3>1 DEF IsFold
    <3>2. CASE s # {}
      <4>1. i[s \ {Max(s)}] \in A /\ seq[Max(s)] \in E
        BY <1>0, <2>1, <3>2 DEF IsFold
      <4> QED BY <1>3, <2>1, <3>2, <4>1 DEF IsFold
    <3> QED BY <3>1, <3>2
  <2>3. Runs(i)
    BY <2>1, <2>2 DEF IsFold
  <2> HIDE DEF Runs
  <2> QED BY <2>3
<1> HIDE DEF it
<1>6. Folds(it, A, O, {f}, seq)
  <2>1. it[{}] = {f}
    BY <1>5
  <2>2. ASSUME NEW s \in SUBSET DOMAIN seq, s # {}, it[s \ {Max(s)}] \in A
        PROVE  it[s] = O[<<it[s \ {Max(s)}], seq[Max(s)]>>]
    <3>1. it[s] = Add(it[s \ {Max(s)}], seq[Max(s)])
      BY <1>5, <2>2
    <3> QED BY <1>0, <1>3, <2>2, <3>1
  <2> QED BY <2>1, <2>2 DEF Folds
<1>7. PICK g : AreSteps(g, A, O, {f}, seq, it[DOMAIN seq])
  BY <1>1, <1>3, <1>6, FoldSteps
<1>8. g \in [0 .. Len(seq) -> A] /\ g[0] = {f} /\ g[Len(seq)] = Cluster(fs, f)
  BY <1>4, <1>7 DEF AreSteps
<1>9. ASSUME NEW i \in 1 .. Len(seq) PROVE g[i] = Add(g[i - 1], seq[i])
  <2>1. Len(seq) \in Nat /\ DOMAIN seq = 1 .. Len(seq) /\ seq[i] \in E
    <3>1. Len(seq) \in Nat /\ DOMAIN seq = 1 .. Len(seq) /\ \A k \in DOMAIN seq : seq[k] \in E
      BY <1>1, LenProperties
    <3> QED BY <3>1
  <2>2. i - 1 \in 0 .. Len(seq)
    BY <2>1
  <2>3. g[i - 1] \in A
    BY <1>8, <2>2
  <2> QED BY <1>3, <1>7, <2>1, <2>3 DEF AreSteps
<1>10. ClusterSteps(g, fs, f)
  BY <1>8, <1>9 DEF ClusterSteps, Grown, A, E, Add, seq
<1> QED BY <1>10 DEF A, E

\* Nothing that echoes a member of a cluster is left out of it.
LEMMA ClusterClosed ==
    ASSUME NEW fs, IsSequence(fs), NEW f \in ToSet(fs)
    PROVE  /\ f \in Cluster(fs, f) /\ Cluster(fs, f) \subseteq ToSet(fs)
           /\ \A x \in ToSet(fs) : \A h \in Cluster(fs, f) : Echo(x, h) => x \in Cluster(fs, f)
<1> DEFINE n == Len(fs)
           closed(S) == Grown(fs, S) = S
<1>1. n \in Nat /\ IsFiniteSet(ToSet(fs)) /\ Cardinality(ToSet(fs)) <= n
  BY SequenceFacts, FewElements
<1>2. PICK g : ClusterSteps(g, fs, f)
  BY ClusterGrows
<1>3. /\ g \in [0 .. n -> SUBSET ToSet(fs)] /\ g[0] = {f} /\ g[n] = Cluster(fs, f)
      /\ \A i \in 1 .. n : g[i] = Grown(fs, g[i - 1])
  BY <1>2 DEF ClusterSteps
<1> DEFINE I == {i \in 0 .. n : f \in g[i] /\ (closed(g[i]) \/ Cardinality(g[i]) >= i + 1)}
<1>4. 0 \in I
  <2>1. Cardinality({f}) = 1
    BY FS_Singleton
  <2>2. 0 \in 0 .. n /\ f \in g[0] /\ Cardinality(g[0]) >= 0 + 1
    BY <1>1, <1>3, <2>1
  <2> QED BY <2>2
<1>5. ASSUME NEW i \in 0 .. n - 1, i \in I PROVE i + 1 \in I
  <2>1. i + 1 \in 0 .. n /\ i \in 0 .. n /\ g[i + 1] = Grown(fs, g[i])
    <3>1. i + 1 \in 1 .. n /\ (i + 1) - 1 = i
      BY <1>1
    <3> HIDE DEF n
    <3>2. g[i + 1] = Grown(fs, g[(i + 1) - 1])
      BY <1>3, <3>1
    <3> QED BY <1>1, <3>1, <3>2
  <2>2. f \in g[i + 1]
    BY <1>5, <2>1 DEF Grown
  <2>3. CASE closed(g[i])
    BY <2>1, <2>2, <2>3
  <2>4. CASE ~closed(g[i])
    <3> DEFINE S == g[i]
               T == g[i + 1]
    <3>1. S \subseteq T /\ S # T /\ T \in SUBSET ToSet(fs) /\ Cardinality(S) >= i + 1
      BY <1>3, <1>5, <2>1, <2>4 DEF Grown
    <3> HIDE DEF S, T
    <3>2. IsFiniteSet(T) /\ IsFiniteSet(S)
      BY <1>1, <3>1, FS_Subset
    <3>3. Cardinality(S) <= Cardinality(T) /\ Cardinality(S) # Cardinality(T)
      BY <3>1, <3>2, FS_Subset
    <3>4. Cardinality(S) \in Nat /\ Cardinality(T) \in Nat
      BY <3>2, FS_CardinalityType
    <3>5. Cardinality(T) >= (i + 1) + 1
      <4> HIDE DEF n
      <4> QED BY <1>1, <3>1, <3>3, <3>4
    <3> QED BY <2>1, <2>2, <3>5 DEF T
  <2> QED BY <2>3, <2>4
<1>6. n \in I
  <2> HIDE DEF I, n
  <2>1. \A i \in 0 .. n : i \in I
    BY <1>1, <1>4, <1>5, UpTo
  <2> QED BY <1>1, <2>1
<1>7. g[n] \in SUBSET ToSet(fs)
  <2> HIDE DEF n
  <2> QED BY <1>1, <1>3
<1>8. closed(g[n])
  <2>1. ASSUME ~closed(g[n]) PROVE FALSE
    <3> DEFINE S == g[n]
    <3>1. Cardinality(S) >= n + 1
      BY <1>6, <2>1
    <3>2. S \in SUBSET ToSet(fs)
      BY <1>7
    <3> HIDE DEF S, n
    <3>3. Cardinality(S) <= Cardinality(ToSet(fs))
      BY <1>1, <3>2, FS_Subset
    <3>4. Cardinality(S) \in Nat /\ Cardinality(ToSet(fs)) \in Nat
      BY <1>1, <3>2, FS_Subset, FS_CardinalityType
    <3> QED BY <1>1, <3>1, <3>3, <3>4
  <2> QED BY <2>1
<1>9. f \in g[n]
  BY <1>6
<1> QED BY <1>3, <1>7, <1>8, <1>9 DEF Grown

\* x stands for f: it is, but for tags, as strong a finding from the cluster of f.
StandsFor(fs, f, x) ==
    \E o \in Cluster(fs, f) : SameFinding(o, x) /\ ~PreferOver(f, o)

\* v is, but for tags, one of fs.
StemsFrom(fs, v) == \E o \in ToSet(fs) : SameFinding(o, v)

\* w comes of x meeting f: at least as strong as both, and one of them but for tags.
Met(x, f, w) ==
    /\ Echo(x, f) /\ ~PreferOver(x, w) /\ ~PreferOver(f, w)
    /\ SameFinding(x, w) \/ SameFinding(f, w)

\* f joins those in acc: as one more, or by meeting one of them.
Joined(acc, f, new) ==
    \/ new = Append(acc, f)
    \/ \E m \in DOMAIN acc : \E w : new = [acc EXCEPT ![m] = w] /\ Met(acc[m], f, w)

RankedStock(fs) == IsSequence(fs) /\ \A f \in ToSet(fs) : Rankable(f)

\* What stood for a finding is stood for by what comes of a meeting.
LEMMA MeetingKeeps ==
    ASSUME NEW fs, RankedStock(fs), NEW h \in ToSet(fs),
           NEW x, NEW f, NEW w, Met(x, f, w), StemsFrom(fs, x), StemsFrom(fs, f),
           StandsFor(fs, h, x) \/ StandsFor(fs, h, f)
    PROVE  StandsFor(fs, h, w)
<1>1. \A o, p \in ToSet(fs) : SameFinding(o, x) /\ SameFinding(p, f) => Echo(o, p) /\ Echo(p, o)
  <2> SUFFICES ASSUME NEW o \in ToSet(fs), NEW p \in ToSet(fs), SameFinding(o, x), SameFinding(p, f)
               PROVE  Echo(o, p) /\ Echo(p, o)
    OBVIOUS
  <2>1. Echo(x, f)
    BY DEF Met
  <2>2. Echo(o, f)
    BY <2>1, SameIsTheSame
  <2>3. Echo(o, p)
    BY <2>2, SameIsTheSame
  <2> QED BY <2>3, EchoIsMutual DEF RankedStock
<1>2. PICK ox \in ToSet(fs) : SameFinding(ox, x)
  BY DEF StemsFrom
<1>3. PICK of \in ToSet(fs) : SameFinding(of, f)
  BY DEF StemsFrom
<1>4. Echo(ox, of) /\ Echo(of, ox)
  BY <1>1, <1>2, <1>3
<1>5. ASSUME NEW y \in {x, f}, StandsFor(fs, h, y), NEW z \in {x, f}, SameFinding(z, w)
      PROVE  StandsFor(fs, h, w)
  <2>1. PICK o \in Cluster(fs, h) : SameFinding(o, y) /\ ~PreferOver(h, o)
    BY <1>5 DEF StandsFor
  <2>2. PICK p \in ToSet(fs) : SameFinding(p, z) /\ (p = o \/ Echo(p, o))
    <3>1. o \in ToSet(fs)
      BY <2>1, ClusterClosed DEF RankedStock
    <3>2. CASE z = y
      BY <2>1, <3>1, <3>2
    <3>3. CASE z # y
      BY <1>1, <1>2, <1>3, <1>5, <2>1, <3>1, <3>3
    <3> QED BY <3>2, <3>3
  <2>3. p \in Cluster(fs, h)
    BY <2>1, <2>2, ClusterClosed DEF RankedStock
  <2>4. SameFinding(p, w)
    BY <1>5, <2>2 DEF SameFinding
  <2>5. ~PreferOver(o, p)
    <3>1. ~PreferOver(y, w)
      BY <1>5 DEF Met
    <3>2. ~PreferOver(o, w)
      BY <2>1, <3>1, SameIsTheSame
    <3> QED BY <2>4, <3>2, SameIsTheSame
  <2>6. ~PreferOver(h, p)
    <3>1. Rankable(h) /\ Rankable(o) /\ Rankable(p)
      BY <2>1, <2>2, ClusterClosed DEF RankedStock
    <3> QED BY <2>1, <2>5, <3>1, PreferenceOrders
  <2> QED BY <2>3, <2>4, <2>6 DEF StandsFor
<1>6. PICK z \in {x, f} : SameFinding(z, w)
  BY DEF Met
<1> QED BY <1>5, <1>6

\* Whoever is stood for by a finding that joins is stood for in the end.
LEMMA NoneIsDropped ==
    ASSUME NEW fs, RankedStock(fs), NEW V, \A v \in V : StemsFrom(fs, v),
           NEW seq \in Seq(V), NEW g \in [0 .. Len(seq) -> Seq(V)],
           \A i \in 1 .. Len(seq) : Joined(g[i - 1], seq[i], g[i]),
           NEW h \in ToSet(fs), NEW k \in 1 .. Len(seq), StandsFor(fs, h, seq[k])
    PROVE  \E q \in DOMAIN g[Len(seq)] : StandsFor(fs, h, g[Len(seq)][q])
<1> DEFINE n == Len(seq)
           stood(i) == \E q \in DOMAIN g[i] : StandsFor(fs, h, g[i][q])
           I == {i \in 0 .. n : i >= k => stood(i)}
<1>1. n \in Nat /\ DOMAIN seq = 1 .. n /\ \A i \in 1 .. n : seq[i] \in V
  BY LenProperties
<1>2. 0 \in I
  BY <1>1
<1>3. ASSUME NEW i \in 1 .. n, i = k \/ stood(i - 1) PROVE stood(i)
  <2> DEFINE acc == g[i - 1]
             new == g[i]
  <2>1. acc \in Seq(V) /\ new \in Seq(V) /\ Joined(acc, seq[i], new) /\ seq[i] \in V
    <3>1. i - 1 \in 0 .. n /\ i \in 0 .. n
      BY <1>1
    <3> HIDE DEF n
    <3> QED BY <1>1, <3>1
  <2>2. DOMAIN acc = 1 .. Len(acc) /\ Len(acc) \in Nat /\ \A q \in DOMAIN acc : acc[q] \in V
    <3> HIDE DEF acc
    <3> QED BY <2>1, LenProperties
  <2>3. i = k \/ \E q \in DOMAIN acc : StandsFor(fs, h, acc[q])
    BY <1>3
  <2> SUFFICES \E q \in DOMAIN new : StandsFor(fs, h, new[q])
    OBVIOUS
  <2> HIDE DEF acc, new, n
  <2>4. CASE new = Append(acc, seq[i])
    <3>1. /\ DOMAIN new = 1 .. Len(acc) + 1 /\ new[Len(acc) + 1] = seq[i]
          /\ \A q \in DOMAIN acc : new[q] = acc[q]
      BY <2>1, <2>2, <2>4
    <3>2. Len(acc) + 1 \in DOMAIN new /\ DOMAIN acc \subseteq DOMAIN new
      BY <2>2, <3>1
    <3>3. CASE i = k
      BY <3>1, <3>2, <3>3
    <3>4. CASE \E q \in DOMAIN acc : StandsFor(fs, h, acc[q])
      BY <3>1, <3>2, <3>4
    <3> QED BY <2>3, <3>3, <3>4
  <2>5. ASSUME NEW m \in DOMAIN acc, NEW w, new = [acc EXCEPT ![m] = w], Met(acc[m], seq[i], w)
        PROVE  \E q \in DOMAIN new : StandsFor(fs, h, new[q])
    <3>1. DOMAIN new = DOMAIN acc /\ new[m] = w /\ \A q \in DOMAIN acc \ {m} : new[q] = acc[q]
      BY <2>5
    <3>2. StemsFrom(fs, acc[m]) /\ StemsFrom(fs, seq[i])
      BY <2>1, <2>2
    <3>3. CASE i = k \/ StandsFor(fs, h, acc[m])
      <4>1. StandsFor(fs, h, acc[m]) \/ StandsFor(fs, h, seq[i])
        BY <3>3
      <4> DEFINE x == acc[m]
                 f == seq[i]
      <4>2. /\ Met(x, f, w) /\ StemsFrom(fs, x) /\ StemsFrom(fs, f)
            /\ StandsFor(fs, h, x) \/ StandsFor(fs, h, f)
        BY <2>5, <3>2, <4>1
      <4> HIDE DEF x, f
      <4>3. StandsFor(fs, h, w)
        BY <4>2, MeetingKeeps
      <4> QED BY <3>1, <4>3
    <3>4. CASE \E q \in DOMAIN acc \ {m} : StandsFor(fs, h, acc[q])
      BY <3>1, <3>4
    <3> QED BY <2>3, <3>3, <3>4
  <2> QED BY <2>1, <2>4, <2>5 DEF Joined
<1>4. ASSUME NEW i \in 0 .. n - 1, i \in I PROVE i + 1 \in I
  <2> HIDE DEF n, stood
  <2>1. i + 1 \in 1 .. n /\ i + 1 \in 0 .. n /\ (i + 1) - 1 = i
    BY <1>1
  <2>2. ASSUME i + 1 >= k PROVE stood(i + 1)
    <3>1. i + 1 = k \/ i >= k
      BY <1>1, <2>2
    <3>2. i + 1 = k \/ stood((i + 1) - 1)
      BY <1>4, <2>1, <3>1
    <3> QED BY <1>3, <2>1, <3>2
  <2> QED BY <2>1, <2>2
<1>5. \A i \in 0 .. n : i \in I
  <2> HIDE DEF I, n
  <2> QED BY <1>1, <1>2, <1>4, UpTo
<1>6. n \in I /\ n >= k
  <2>1. n \in 0 .. n
    BY <1>1
  <2> HIDE DEF I
  <2> QED BY <1>1, <1>5, <2>1
<1> QED BY <1>6

-----------------------------------------------------------------------------
(* Merging and dedup.                                                      *)

\* Findings of fs, with tags that merging may give them.
MergeTags(fs) ==
    (UNION {f.tags : f \in ToSet(fs)}) \cup {<<"merged-from", f.agent>> : f \in ToSet(fs)}

Variants(fs) ==
    {v \in ToSet(fs) \cup {[f EXCEPT !.tags = t] : f \in ToSet(fs), t \in SUBSET MergeTags(fs)} :
        IsFinding(v) /\ StemsFrom(fs, v)}

\* A finding is a variant of itself.
LEMMA OwnVariant ==
    ASSUME NEW fs, IsFindings(fs)
    PROVE  ToSet(fs) \subseteq Variants(fs)
<1> SUFFICES ASSUME NEW f \in ToSet(fs) PROVE f \in Variants(fs)
  OBVIOUS
<1>1. SameFinding(f, f)
  BY DEF SameFinding
<1> QED BY <1>1 DEF IsFindings, Variants, StemsFrom

\* A variant that is tagged with the agent of another one is a variant.
LEMMA TaggedVariant ==
    ASSUME NEW fs, IsFindings(fs), NEW v \in Variants(fs), NEW u \in Variants(fs)
    PROVE  LET w == [v EXCEPT !.tags = @ \cup {<<"merged-from", u.agent>>}]
           IN  w \in Variants(fs) /\ SameFinding(v, w)
<1> DEFINE tag == <<"merged-from", u.agent>>
           w == [v EXCEPT !.tags = @ \cup {tag}]
<1>1. PICK o \in ToSet(fs) : SameFinding(o, u)
  BY DEF Variants, StemsFrom
<1>2. tag \in MergeTags(fs)
  <2>1. o.agent = u.agent
    BY <1>1 DEF SameFinding
  <2> QED BY <2>1 DEF MergeTags
<1> HIDE DEF tag
<1>3. IsFinding(v) /\ StemsFrom(fs, v)
  BY DEF Variants
<1>4. IsFinding(w) /\ SameFinding(v, w)
  BY <1>3 DEF IsFinding, FindingFields, SameFinding
<1>5. StemsFrom(fs, w)
  BY <1>3, <1>4 DEF StemsFrom, SameFinding
<1>6. \E f \in ToSet(fs), t \in SUBSET MergeTags(fs) : w = [f EXCEPT !.tags = t]
  <2>1. CASE v \in ToSet(fs)
    <3>1. v.tags \cup {tag} \in SUBSET MergeTags(fs)
      BY <1>2, <2>1 DEF MergeTags
    <3> QED BY <2>1, <3>1
  <2>2. CASE \E f \in ToSet(fs), t \in SUBSET MergeTags(fs) : v = [f EXCEPT !.tags = t]
    <3>0. PICK f \in ToSet(fs), t \in SUBSET MergeTags(fs) : v = [f EXCEPT !.tags = t]
      BY <2>2
    <3>1. IsFinding(f)
      BY DEF IsFindings
    <3>2. v.tags = t
      BY <3>0, <3>1 DEF IsFinding, FindingFields
    <3>3. w = [f EXCEPT !.tags = t \cup {tag}]
      BY <3>0, <3>2
    <3>4. t \cup {tag} \in SUBSET MergeTags(fs)
      BY <1>2
    <3> QED BY <3>3, <3>4
  <2>3. v \in ToSet(fs) \/ \E f \in ToSet(fs), t \in SUBSET MergeTags(fs) : v = [f EXCEPT !.tags = t]
    BY DEF Variants
  <2> QED BY <2>1, <2>2, <2>3
<1>7. w \in Variants(fs)
  <2> HIDE DEF w
  <2> QED BY <1>4, <1>5, <1>6 DEF Variants
<1> QED BY <1>4, <1>7 DEF tag

\* What the passes produce can be ranked.
LEMMA FindingRankable ==
    ASSUME NEW f, IsFinding(f)
    PROVE  Rankable(f)
  BY DEF IsFinding, Rankable

\* In similarityMerge a finding joins those accepted.
LEMMA MergeJoins ==
    ASSUME NEW fs, IsFindings(fs), NEW acc \in Seq(Variants(fs)), NEW f \in Variants(fs)
    PROVE  MergeInto(acc, f) \in Seq(Variants(fs)) /\ Joined(acc, f, MergeInto(acc, f))
<1> DEFINE same == {i \in DOMAIN acc : /\ acc[i].file = f.file
                                       /\ Distance(acc[i], f) <= MergeRadius
                                       /\ Overlaps(acc[i].why, f.why)}
           m == Min(same)
           x == acc[m]
           newWins == PreferOver(f, x)
           winner == IF newWins THEN f ELSE x
           loser == IF newWins THEN x ELSE f
           w == [winner EXCEPT !.tags = @ \cup {<<"merged-from", loser.agent>>}]
<1>1. MergeInto(acc, f) = IF same = {} THEN Append(acc, f) ELSE [acc EXCEPT ![m] = w]
  BY DEF MergeInto
<1>2. CASE same = {}
  BY <1>1, <1>2 DEF Joined
<1>3. CASE same # {}
  <2>1. m \in same /\ m \in DOMAIN acc
    <3>1. same \in SUBSET DOMAIN acc
      OBVIOUS
    <3> HIDE DEF same
    <3> QED BY <1>3, <3>1, FirstOfKind
  <2>2. x.file = f.file /\ Distance(x, f) <= MergeRadius /\ Overlaps(x.why, f.why)
    BY <2>1
  <2>3. Echo(x, f)
    BY <2>2 DEF Echo
  <2> HIDE DEF m, same
  <2>4. x \in Variants(fs)
    BY <2>1, LenProperties
  <2> HIDE DEF x
  <2>5. winner \in Variants(fs) /\ loser \in Variants(fs)
    BY <2>4
  <2>6. w \in Variants(fs) /\ SameFinding(winner, w)
    <3> HIDE DEF winner, loser
    <3> QED BY <2>5, TaggedVariant
  <2>7. Rankable(x) /\ Rankable(f)
    BY <2>4, FindingRankable DEF Variants
  <2>8. ~PreferOver(x, winner) /\ ~PreferOver(f, winner) /\ winner \in {x, f}
    BY <2>7, PreferenceOrders
  <2> HIDE DEF winner, w
  <2>9. Met(x, f, w)
    <3>1. ~PreferOver(x, w) /\ ~PreferOver(f, w)
      BY <2>6, <2>8, SameIsTheSame
    <3>2. SameFinding(x, w) \/ SameFinding(f, w)
      BY <2>6, <2>8
    <3> QED BY <2>3, <3>1, <3>2 DEF Met
  <2>10. [acc EXCEPT ![m] = w] \in Seq(Variants(fs))
    BY <2>1, <2>6, ExceptSeq
  <2>11. MergeInto(acc, f) = [acc EXCEPT ![m] = w]
    BY <1>1, <1>3
  <2>12. Joined(acc, f, MergeInto(acc, f))
    BY <2>1, <2>9, <2>11 DEF Joined, x
  <2> QED BY <2>10, <2>11, <2>12
<1> QED BY <1>2, <1>3

\* In dedupFindings, too.
LEMMA DedupJoins ==
    ASSUME NEW V, \A v \in V : Rankable(v), NEW acc \in Seq(V), NEW f \in V
    PROVE  DedupInto(acc, f) \in Seq(V) /\ Joined(acc, f, DedupInto(acc, f))
<1> DEFINE same == {i \in DOMAIN acc : /\ acc[i].file = f.file
                                       /\ acc[i].category = f.category
                                       /\ Distance(acc[i], f) <= DedupRadius
                                       /\ SimilarTitles(acc[i].title, f.title)}
           m == Min(same)
           x == acc[m]
           w == IF PreferOver(f, x) THEN f ELSE x
<1>1. DedupInto(acc, f) =
        IF same = {} THEN Append(acc, f)
        ELSE IF PreferOver(f, x) THEN [acc EXCEPT ![m] = f] ELSE acc
  BY DEF DedupInto
<1>2. CASE same = {}
  BY <1>1, <1>2 DEF Joined
<1>3. CASE same # {}
  <2>1. m \in same /\ m \in DOMAIN acc
    <3>1. same \in SUBSET DOMAIN acc
      OBVIOUS
    <3> HIDE DEF same
    <3> QED BY <1>3, <3>1, FirstOfKind
  <2>2. Echo(x, f)
    BY <2>1 DEF Echo
  <2> HIDE DEF m, same
  <2>3. x \in V
    BY <2>1, LenProperties
  <2>4. acc = [acc EXCEPT ![m] = x]
    BY <2>1, LenProperties
  <2>5. DedupInto(acc, f) = [acc EXCEPT ![m] = w]
    BY <1>1, <1>3, <2>4
  <2> HIDE DEF x
  <2>6. w \in V /\ ~PreferOver(x, w) /\ ~PreferOver(f, w) /\ w \in {x, f}
    BY <2>3, PreferenceOrders
  <2> HIDE DEF w
  <2>7. SameFinding(x, x) /\ SameFinding(f, f)
    BY DEF SameFinding
  <2>8. Met(x, f, w)
    BY <2>2, <2>6, <2>7 DEF Met
  <2>9. [acc EXCEPT ![m] = w] \in Seq(V)
    BY <2>1, <2>6, ExceptSeq
  <2>10. Joined(acc, f, DedupInto(acc, f))
    BY <2>1, <2>5, <2>8 DEF Joined, x
  <2> QED BY <2>5, <2>9, <2>10
<1> QED BY <1>2, <1>3

\* How the findings of a sequence join, one by one, to make `merged'.
JoinSteps(g, seq, V, merged) ==
    /\ g \in [0 .. Len(seq) -> Seq(V)] /\ g[Len(seq)] = merged
    /\ \A i \in 1 .. Len(seq) : Joined(g[i - 1], seq[i], g[i])

\* similarityMerge, step by step.
LEMMA MergeSteps ==
    ASSUME NEW fs, IsFindings(fs)
    PROVE  \E g : JoinSteps(g, fs, Variants(fs), SimilarityMerge(fs))
<1> DEFINE seq == fs
           E == ToSet(fs)
           A == Seq(Variants(fs))
           Add(acc, x) == MergeInto(acc, x)
           O == [p \in A \X E |-> Add(p[1], p[2])]
           Runs(it) == it = [s \in SUBSET DOMAIN seq |->
                                IF s = {} THEN <<>> ELSE Add(it[s \ {Max(s)}], seq[Max(s)])]
           it == CHOOSE i : Runs(i)
<1>1. seq \in Seq(E) /\ <<>> \in A
  BY DEF IsFindings, IsSequence
<1>2. ASSUME NEW acc \in A, NEW x \in E PROVE Add(acc, x) \in A
  BY MergeJoins, OwnVariant
<1>3. O \in [A \X E -> A] /\ \A acc \in A, x \in E : O[<<acc, x>>] = Add(acc, x)
  <2> HIDE DEF A, E, Add
  <2> QED BY <1>2
<1>4. SimilarityMerge(fs) = it[DOMAIN seq]
  BY DEF SimilarityMerge, FoldLeft, MapThenFoldSet
<1> HIDE DEF A, E, Add, O, seq
<1>0. ASSUME NEW s \in SUBSET DOMAIN seq, s # {}
      PROVE  seq[Max(s)] \in E /\ s \ {Max(s)} \in SUBSET DOMAIN seq
  BY <1>0, <1>1, LastIsThere
<1>5. Runs(it)
  <2>1. PICK i : IsFold(i, A, O, <<>>, seq)
    BY <1>1, <1>3, FoldExists
  <2>2. ASSUME NEW s \in SUBSET DOMAIN seq
        PROVE  i[s] = IF s = {} THEN <<>> ELSE Add(i[s \ {Max(s)}], seq[Max(s)])
    <3>1. CASE s = {}
      BY <2>1, <3>1 DEF IsFold
    <3>2. CASE s # {}
      <4>1. i[s \ {Max(s)}] \in A /\ seq[Max(s)] \in E
        BY <1>0, <2>1, <3>2 DEF IsFold
      <4> QED BY <1>3, <2>1, <3>2, <4>1 DEF IsFold
    <3> QED BY <3>1, <3>2
  <2>3. Runs(i)
    BY <2>1, <2>2 DEF IsFold
  <2> HIDE DEF Runs
  <2> QED BY <2>3
<1> HIDE DEF it
<1>6. Folds(it, A, O, <<>>, seq)
  <2>1. it[{}] = <<>>
    BY <1>5
  <2>2. ASSUME NEW s \in SUBSET DOMAIN seq, s # {}, it[s \ {Max(s)}] \in A
        PROVE  it[s] = O[<<it[s \ {Max(s)}], seq[Max(s)]>>]
    <3>1. it[s] = Add(it[s \ {Max(s)}], seq[Max(s)])
      BY <1>5, <2>2
    <3> QED BY <1>0, <1>3, <2>2, <3>1
  <2> QED BY <2>1, <2>2 DEF Folds
<1>7. PICK g : AreSteps(g, A, O, <<>>, seq, it[DOMAIN seq])
  BY <1>1, <1>3, <1>6, FoldSteps
<1>8. g \in [0 .. Len(seq) -> A] /\ g[Len(seq)] = SimilarityMerge(fs)
  BY <1>4, <1>7 DEF AreSteps
<1>9. ASSUME NEW i \in 1 .. Len(seq) PROVE Joined(g[i - 1], seq[i], g[i])
  <2>1. Len(seq) \in Nat /\ DOMAIN seq = 1 .. Len(seq) /\ seq[i] \in E
    <3>1. Len(seq) \in Nat /\ DOMAIN seq = 1 .. Len(seq) /\ \A k \in DOMAIN seq : seq[k] \in E
      BY <1>1, LenProperties
    <3> QED BY <3>1
  <2>2. i - 1 \in 0 .. Len(seq)
    BY <2>1
  <2>3. g[i - 1] \in A
    BY <1>8, <2>2
  <2>4. g[i] = Add(g[i - 1], seq[i])
    BY <1>3, <1>7, <2>1, <2>3 DEF AreSteps
  <2> DEFINE acc == g[i - 1]
             x == seq[i]
  <2>5. acc \in A /\ x \in E
    BY <2>1, <2>3
  <2> HIDE DEF acc, x
  <2>6. Joined(acc, x, Add(acc, x))
    BY <2>5, MergeJoins, OwnVariant DEF A, E, Add, seq
  <2> QED BY <2>4, <2>6 DEF acc, x
<1>10. JoinSteps(g, fs, Variants(fs), SimilarityMerge(fs))
  BY <1>8, <1>9 DEF JoinSteps, A, seq
<1> QED BY <1>10

\* dedupFindings, step by step.
LEMMA DedupSteps ==
    ASSUME NEW V, \A v \in V : Rankable(v), NEW fs \in Seq(V)
    PROVE  \E g : JoinSteps(g, fs, V, DedupFindings(fs))
<1> DEFINE seq == fs
           E == V
           A == Seq(V)
           Add(acc, x) == DedupInto(acc, x)
           O == [p \in A \X E |-> Add(p[1], p[2])]
           Runs(it) == it = [s \in SUBSET DOMAIN seq |->
                                IF s = {} THEN <<>> ELSE Add(it[s \ {Max(s)}], seq[Max(s)])]
           it == CHOOSE i : Runs(i)
<1>1. seq \in Seq(E) /\ <<>> \in A
  OBVIOUS
<1>2. ASSUME NEW acc \in A, NEW x \in E PROVE Add(acc, x) \in A
  BY DedupJoins
<1>3. O \in [A \X E -> A] /\ \A acc \in A, x \in E : O[<<acc, x>>] = Add(acc, x)
  <2> HIDE DEF A, E, Add
  <2> QED BY <1>2
<1>4. DedupFindings(fs) = it[DOMAIN seq]
  BY DEF DedupFindings, FoldLeft, MapThenFoldSet
<1> HIDE DEF A, E, Add, O, seq
<1>0. ASSUME NEW s \in SUBSET DOMAIN seq, s # {}
      PROVE  seq[Max(s)] \in E /\ s \ {Max(s)} \in SUBSET DOMAIN seq
  BY <1>0, <1>1, LastIsThere
<1>5. Runs(it)
  <2>1. PICK i : IsFold(i, A, O, <<>>, seq)
    BY <1>1, <1>3, FoldExists
  <2>2. ASSUME NEW s \in SUBSET DOMAIN seq
        PROVE  i[s] = IF s = {} THEN <<>> ELSE Add(i[s \ {Max(s)}], seq[Max(s)])
    <3>1. CASE s = {}
      BY <2>1, <3>1 DEF IsFold
    <3>2. CASE s # {}
      <4>1. i[s \ {Max(s)}] \in A /\ seq[Max(s)] \in E
        BY <1>0, <2>1, <3>2 DEF IsFold
      <4> QED BY <1>3, <2>1, <3>2, <4>1 DEF IsFold
    <3> QED BY <3>1, <3>2
  <2>3. Runs(i)
    BY <2>1, <2>2 DEF IsFold
  <2> HIDE DEF Runs
  <2> QED BY <2>3
<1> HIDE DEF it
<1>6. Folds(it, A, O, <<>>, seq)
  <2>1. it[{}] = <<>>
    BY <1>5
  <2>2. ASSUME NEW s \in SUBSET DOMAIN seq, s # {}, it[s \ {Max(s)}] \in A
        PROVE  it[s] = O[<<it[s \ {Max(s)}], seq[Max(s)]>>]
    <3>1. it[s] = Add(it[s \ {Max(s)}], seq[Max(s)])
      BY <1>5, <2>2
    <3> QED BY <1>0, <1>3, <2>2, <3>1
  <2> QED BY <2>1, <2>2 DEF Folds
<1>7. PICK g : AreSteps(g, A, O, <<>>, seq, it[DOMAIN seq])
  BY <1>1, <1>3, <1>6, FoldSteps
<1>8. g \in [0 .. Len(seq) -> A] /\ g[Len(seq)] = DedupFindings(fs)
  BY <1>4, <1>7 DEF AreSteps
<1>9. ASSUME NEW i \in 1 .. Len(seq) PROVE Joined(g[i - 1], seq[i], g[i])
  <2>1. Len(seq) \in Nat /\ DOMAIN seq = 1 .. Len(seq) /\ seq[i] \in E
    <3>1. Len(seq) \in Nat /\ DOMAIN seq = 1 .. Len(seq) /\ \A k \in DOMAIN seq : seq[k] \in E
      BY <1>1, LenProperties
    <3> QED BY <3>1
  <2>2. i - 1 \in 0 .. Len(seq)
    BY <2>1
  <2>3. g[i - 1] \in A
    BY <1>8, <2>2
  <2>4. g[i] = Add(g[i - 1], seq[i])
    BY <1>3, <1>7, <2>1, <2>3 DEF AreSteps
  <2> DEFINE acc == g[i - 1]
             x == seq[i]
  <2>5. acc \in A /\ x \in E
    BY <2>1, <2>3
  <2> HIDE DEF acc, x
  <2>6. Joined(acc, x, Add(acc, x))
    BY <2>5, DedupJoins DEF A, E, Add
  <2> QED BY <2>4, <2>6 DEF acc, x
<1>10. JoinSteps(g, fs, V, DedupFindings(fs))
  BY <1>8, <1>9 DEF JoinSteps, A, E, seq
<1> QED BY <1>10

\* The last step is in the set that the steps are in.
LEMMA JoinedTyped ==
    ASSUME NEW V, NEW seq \in Seq(V), NEW merged, NEW g, JoinSteps(g, seq, V, merged)
    PROVE  merged \in Seq(V)
<1>1. Len(seq) \in 0 .. Len(seq)
  <2>1. Len(seq) \in Nat
    BY LenProperties
  <2> QED BY <2>1
<1> QED BY <1>1 DEF JoinSteps

\* Every finding is stood for after similarityMerge.
THEOREM MergeKeepsAll ==
    ASSUME NEW fs, IsFindings(fs)
    PROVE  LET ms == SimilarityMerge(fs)
           IN  /\ ms \in Seq(Variants(fs))
               /\ \A h \in ToSet(fs) : \E q \in DOMAIN ms : StandsFor(fs, h, ms[q])
<1> DEFINE ms == SimilarityMerge(fs)
           V == Variants(fs)
<1>1. PICK g : JoinSteps(g, fs, V, ms)
  BY MergeSteps
<1>2. fs \in Seq(V) /\ RankedStock(fs) /\ \A v \in V : StemsFrom(fs, v)
  <2>1. fs \in Seq(ToSet(fs)) /\ ToSet(fs) \subseteq V
    BY OwnVariant DEF IsFindings, IsSequence
  <2>2. RankedStock(fs)
    BY FindingRankable DEF IsFindings, RankedStock
  <2>3. \A v \in V : StemsFrom(fs, v)
    BY DEF Variants
  <2> HIDE DEF V
  <2> QED BY <2>1, <2>2, <2>3
<1> HIDE DEF ms, V
<1>3. ms \in Seq(V)
  BY <1>1, <1>2, JoinedTyped
<1>4. ASSUME NEW h \in ToSet(fs) PROVE \E q \in DOMAIN ms : StandsFor(fs, h, ms[q])
  <2>1. PICK k \in 1 .. Len(fs) : fs[k] = h
    BY SequenceFacts DEF IsFindings
  <2>2. h \in Cluster(fs, h) /\ SameFinding(h, h) /\ ~PreferOver(h, h)
    <3>1. SameFinding(h, h)
      BY DEF SameFinding
    <3>2. Rankable(h)
      BY <1>2 DEF RankedStock
    <3> QED BY <3>1, <3>2, ClusterClosed, PreferenceOrders DEF IsFindings
  <2>3. StandsFor(fs, h, fs[k])
    BY <2>1, <2>2 DEF StandsFor
  <2>4. /\ g \in [0 .. Len(fs) -> Seq(V)] /\ g[Len(fs)] = ms
        /\ \A i \in 1 .. Len(fs) : Joined(g[i - 1], fs[i], g[i])
    BY <1>1 DEF JoinSteps
  <2>5. \E q \in DOMAIN g[Len(fs)] : StandsFor(fs, h, g[Len(fs)][q])
    BY <1>2, <2>3, <2>4, NoneIsDropped
  <2> QED BY <2>4, <2>5
<1> QED BY <1>3, <1>4 DEF ms, V

-----------------------------------------------------------------------------
(* Rank, cap and suppression.                                              *)

\* rs holds the findings of fs, the preferred ones first; `at' says from where.
RankedBy(at, fs, rs) ==
    /\ at \in Bijection(DOMAIN fs, DOMAIN fs)
    /\ rs = [r \in DOMAIN fs |-> fs[at[r]]]
    /\ \A p, q \in DOMAIN fs : p < q => ~PreferOver(rs[q], rs[p])

\* Where one of two places in a ranking goes before the other.
Goes(a, i, b, j) ==
    \/ PreferOver(a, b)
    \/ /\ a.severity = b.severity /\ a.confidence = b.confidence
       /\ \/ a.file < b.file
          \/ a.file = b.file /\ a.line < b.line
          \/ a.file = b.file /\ a.line = b.line /\ i < j

\* rankFindings: the order by severity, confidence, file and line, and by place
\* where these tie, is a strict and total one, and agrees with the preference.
LEMMA TurnsOrder ==
    ASSUME NEW a, NEW b, NEW c, Rankable(a), Rankable(b), Rankable(c),
           NEW i \in Int, NEW j \in Int, NEW k \in Int
    PROVE  /\ ~Goes(a, i, a, i)
           /\ Goes(a, i, b, j) /\ Goes(b, j, c, k) => Goes(a, i, c, k)
           /\ i # j => Goes(a, i, b, j) \/ Goes(b, j, a, i)
           /\ Goes(a, i, b, j) => ~PreferOver(b, a)
<1> DEFINE sa == a.severity
           sb == b.severity
           sc == c.severity
           ka == a.confidence
           kb == b.confidence
           kc == c.confidence
           pa == a.file
           pb == b.file
           pc == c.file
           la == a.line
           lb == b.line
           lc == c.line
           Before(s, t, k1, k2, p, q, l, m, x, y) ==
              \/ s < t \/ (s = t /\ k1 > k2)
              \/ /\ s = t /\ k1 = k2
                 /\ \/ p < q
                    \/ p = q /\ l < m
                    \/ p = q /\ l = m /\ x < y
<1>1. /\ sa \in Int /\ sb \in Int /\ sc \in Int /\ ka \in Int /\ kb \in Int /\ kc \in Int
      /\ pa \in Int /\ pb \in Int /\ pc \in Int /\ la \in Int /\ lb \in Int /\ lc \in Int
  BY DEF Rankable, Severities, Critical, Nit
<1>2. /\ Goes(a, i, a, i) <=> Before(sa, sa, ka, ka, pa, pa, la, la, i, i)
      /\ Goes(a, i, b, j) <=> Before(sa, sb, ka, kb, pa, pb, la, lb, i, j)
      /\ Goes(b, j, a, i) <=> Before(sb, sa, kb, ka, pb, pa, lb, la, j, i)
      /\ Goes(b, j, c, k) <=> Before(sb, sc, kb, kc, pb, pc, lb, lc, j, k)
      /\ Goes(a, i, c, k) <=> Before(sa, sc, ka, kc, pa, pc, la, lc, i, k)
      /\ PreferOver(b, a) <=> sb < sa \/ (sb = sa /\ kb > ka)
  BY DEF Goes, PreferOver
<1> HIDE DEF sa, sb, sc, ka, kb, kc, pa, pb, pc, la, lb, lc
<1> QED BY <1>1, <1>2

\* rankFindings() sorts.
THEOREM RankTells ==
    ASSUME NEW V, \A v \in V : Rankable(v), NEW fs \in Seq(V)
    PROVE  \E at : RankedBy(at, fs, RankFindings(fs))
<1> DEFINE n == Len(fs)
           D == DOMAIN fs
           R == {p \in D \X D : RanksBefore(fs, p[1], p[2])}
           rank == RankIn(D, R)
           Place(r) == CHOOSE i \in D : 1 + Cardinality({j \in D : RanksBefore(fs, j, i)}) = r
           at == [r \in D |-> Place(r)]
           rs == RankFindings(fs)
<1>1. n \in Nat /\ D = 1 .. n /\ \A i \in D : fs[i] \in V /\ Rankable(fs[i]) /\ i \in Int
  BY LenProperties
<1>2. IsFiniteSet(D) /\ Cardinality(D) = n
  <2> HIDE DEF D, n
  <2> QED BY <1>1, UpToCount
<1>3. \A i, j \in D : <<i, j>> \in R <=> RanksBefore(fs, i, j)
  OBVIOUS
<1>4. \A i, j : RanksBefore(fs, i, j) <=> Goes(fs[i], i, fs[j], j)
  BY DEF RanksBefore, Goes
<1>5. Orders(R, D)
  <2> HIDE DEF D, R
  <2>1. ASSUME NEW x \in D, NEW y \in D, NEW z \in D, <<x, y>> \in R, <<y, z>> \in R
        PROVE  <<x, z>> \in R
    <3>1. Goes(fs[x], x, fs[y], y) /\ Goes(fs[y], y, fs[z], z)
      BY <1>3, <1>4, <2>1
    <3>2. Goes(fs[x], x, fs[z], z)
      BY <1>1, <3>1, TurnsOrder
    <3> QED BY <1>3, <1>4, <3>2
  <2>2. \A x \in D : <<x, x>> \notin R
    BY <1>1, <1>3, <1>4, TurnsOrder
  <2>3. ASSUME NEW x \in D, NEW y \in D, x # y PROVE <<x, y>> \in R \/ <<y, x>> \in R
    <3>1. Goes(fs[x], x, fs[y], y) \/ Goes(fs[y], y, fs[x], x)
      BY <1>1, <2>3, TurnsOrder
    <3> QED BY <1>3, <1>4, <3>1
  <2> QED BY <2>1, <2>2, <2>3 DEF Orders
<1>6. rank \in Bijection(D, 1 .. n) /\ \A x, y \in D : <<x, y>> \in R <=> rank[x] < rank[y]
  <2> HIDE DEF D, R, n
  <2> QED BY <1>2, <1>5, RanksNumber
<1>7. \A i \in D : 1 + Cardinality({j \in D : RanksBefore(fs, j, i)}) = rank[i]
  <2> SUFFICES ASSUME NEW i \in D PROVE 1 + Cardinality({j \in D : RanksBefore(fs, j, i)}) = rank[i]
    OBVIOUS
  <2>1. Preceding(D, R, i) = {j \in D : RanksBefore(fs, j, i)}
    BY <1>3 DEF Preceding
  <2> QED BY <2>1 DEF RankIn
<1>8. rs = [r \in D |-> fs[at[r]]]
  BY DEF RankFindings
<1>9. ASSUME NEW r \in D PROVE at[r] \in D /\ rank[at[r]] = r
  <2> HIDE DEF rank
  <2>1. \E i \in D : 1 + Cardinality({j \in D : RanksBefore(fs, j, i)}) = r
    <3>1. rank \in Surjection(D, D)
      BY <1>1, <1>6 DEF Bijection
    <3>2. PICK i \in D : rank[i] = r
      <4> HIDE DEF D
      <4> QED BY <3>1 DEF Surjection
    <3>3. 1 + Cardinality({j \in D : RanksBefore(fs, j, i)}) = r
      BY <1>7, <3>2
    <3> QED BY <3>3
  <2> DEFINE c == at[r]
  <2>2. c = CHOOSE i \in D : 1 + Cardinality({j \in D : RanksBefore(fs, j, i)}) = r
    OBVIOUS
  <2> HIDE DEF c, at, n, D, rank
  <2>3. c \in D /\ 1 + Cardinality({j \in D : RanksBefore(fs, j, c)}) = r
    BY <2>1, <2>2, Zenon
  <2>4. rank[c] = r
    BY <1>7, <2>3
  <2> QED BY <2>3, <2>4 DEF c
<1>10. at = [r \in D |-> at[r]]
  <2> HIDE DEF Place, D
  <2> QED OBVIOUS
<1> HIDE DEF at, rank, rs, D
<1>11. at \in Bijection(D, D)
  <2>1. rank \in [D -> D] /\ \A x, y \in D : rank[x] = rank[y] => x = y
    <3>1. rank \in Injection(D, D)
      BY <1>1, <1>6 DEF Bijection
    <3> QED BY <3>1 DEF Injection, IsInjective
  <2>2. at \in [D -> D]
    BY <1>9, <1>10
  <2>3. \A x, y \in D : at[x] = at[y] => x = y
    BY <1>9
  <2>4. \A i \in D : \E r \in D : at[r] = i
    <3> SUFFICES ASSUME NEW i \in D PROVE \E r \in D : at[r] = i
      OBVIOUS
    <3>1. rank[i] \in D /\ at[rank[i]] = i
      BY <1>9, <2>1
    <3> QED BY <3>1
  <2> QED BY <2>2, <2>3, <2>4, Fun_IsInj, Fun_IsSurj DEF Bijection
<1>12. ASSUME NEW x \in D, NEW y \in D, x < y PROVE ~PreferOver(rs[y], rs[x])
  <2> HIDE DEF R
  <2> DEFINE i == at[x]
             j == at[y]
  <2>1. i \in D /\ j \in D /\ rank[i] < rank[j] /\ rs[x] = fs[i] /\ rs[y] = fs[j]
    BY <1>8, <1>9, <1>12
  <2> HIDE DEF i, j
  <2>2. <<i, j>> \in R
    BY <1>6, <2>1
  <2>3. ~PreferOver(fs[j], fs[i])
    BY <1>1, <1>3, <1>4, <2>1, <2>2, TurnsOrder
  <2> QED BY <2>1, <2>3
<1> QED BY <1>8, <1>11, <1>12 DEF RankedBy, D, rs

\* Where the selected elements stand.
LEMMA SelectedPlaces ==
    ASSUME NEW E, NEW s \in Seq(E), NEW P \in SUBSET DOMAIN s
    PROVE  \E at \in Injection(P, DOMAIN Selected(s, P)) : \A i \in P : Selected(s, P)[at[i]] = s[i]
<1> DEFINE a == Ascending(P)
           n == Cardinality(P)
           t == Selected(s, P)
           at == [i \in P |-> CHOOSE k \in 1 .. n : a[k] = i]
<1>1. /\ n \in Nat /\ t \in Seq(E) /\ Len(t) = n /\ a \in Bijection(1 .. n, P)
      /\ \A k \in 1 .. n : t[k] = s[a[k]]
  BY SelectedTells
<1> HIDE DEF a, n, t
<1>2. DOMAIN t = 1 .. n
  BY <1>1, LenProperties
<1>3. \A i \in P : at[i] \in 1 .. n /\ a[at[i]] = i
  <2>1. a \in Surjection(1 .. n, P)
    BY <1>1 DEF Bijection
  <2> QED BY <2>1 DEF Surjection
<1>4. at \in [P -> 1 .. n]
  BY <1>3
<1> HIDE DEF at
<1>5. \A i, j \in P : at[i] = at[j] => i = j
  BY <1>3
<1>6. at \in Injection(P, 1 .. n)
  BY <1>4, <1>5, Fun_IsInj
<1>7. \A i \in P : t[at[i]] = s[i]
  BY <1>1, <1>3, <1>4
<1> QED BY <1>2, <1>6, <1>7 DEF t

\* At d of the ranking the cap kept a finding, or let as many as it may go first.
Full(rs, capped, max, d) ==
    \E h \in Injection(1 .. max, DOMAIN capped) : \A k \in 1 .. max :
        \E p \in DOMAIN rs : p < d /\ rs[p].file = rs[d].file /\ capped[h[k]] = rs[p]

\* What maxPerFile leaves out stands behind enough findings of its file.
LEMMA CapTells ==
    ASSUME NEW V, NEW rs \in Seq(V), NEW max \in Nat
    PROVE  /\ CapPerFile(rs, max) \in Seq(V)
           /\ \A d \in DOMAIN rs :
                \/ \E k \in DOMAIN CapPerFile(rs, max) : CapPerFile(rs, max)[k] = rs[d]
                \/ Full(rs, CapPerFile(rs, max), max, d)
<1> DEFINE n == Len(rs)
           file == [i \in 1 .. n |-> rs[i].file]
           same == [i \in 1 .. n |-> {j \in 1 .. i : rs[j].file = rs[i].file}]
           P == {i \in DOMAIN rs : Cardinality({j \in 1 .. i : rs[j].file = rs[i].file}) <= max}
           capped == CapPerFile(rs, max)
<1>1. n \in Nat /\ DOMAIN rs = 1 .. n
  BY LenProperties
<1>2. P = {i \in 1 .. n : Cardinality(same[i]) <= max}
  BY <1>1
<1>3. capped = Selected(rs, P) /\ P \in SUBSET DOMAIN rs
  BY DEF CapPerFile
<1> HIDE DEF P, capped
<1>4. capped \in Seq(V)
  BY <1>3, SelectedTells
<1>5. PICK at \in Injection(P, DOMAIN capped) : \A i \in P : capped[at[i]] = rs[i]
  BY <1>3, SelectedPlaces
<1>6. at \in [P -> DOMAIN capped] /\ \A i, j \in P : at[i] = at[j] => i = j
  BY <1>5 DEF Injection, IsInjective
<1>7. ASSUME NEW d \in 1 .. n, d \notin P
      PROVE  Full(rs, capped, max, d)
  <2> DEFINE T == same[d]
             m == Cardinality(T)
             a == Ascending(T)
  <2>1. T = {j \in 1 .. d : file[j] = file[d]} /\ T \in SUBSET (1 .. n) /\ T \subseteq Int
    BY <1>1
  <2>2. IsFiniteSet(T) /\ m \in Nat
    <3> HIDE DEF T, file
    <3>1. IsFiniteSet(1 .. n)
      BY <1>1, UpToCount
    <3> QED BY <2>1, <3>1, FS_Subset, FS_CardinalityType
  <2>3. m > max
    <3>1. ~(m <= max)
      BY <1>2, <1>7
    <3> HIDE DEF m
    <3> QED BY <2>2, <3>1
  <2>4. /\ a \in Bijection(1 .. m, T)
        /\ \A k \in 1 .. m : Cardinality({j \in T : j <= a[k]}) = k
    <3>1. T \in SUBSET Int
      BY <2>1
    <3> HIDE DEF T
    <3> QED BY <2>2, <3>1, AscendingTells
  <2> HIDE DEF a, m
  <2>5. a \in [1 .. m -> T] /\ \A j, k \in 1 .. m : a[j] = a[k] => j = k
    <3>1. a \in Injection(1 .. m, T)
      BY <2>4 DEF Bijection
    <3> HIDE DEF T
    <3> QED BY <3>1 DEF Injection, IsInjective
  <2>6. ASSUME NEW k \in 1 .. max
        PROVE  k \in 1 .. m /\ a[k] \in P /\ a[k] \in 1 .. n /\ a[k] < d /\ file[a[k]] = file[d]
    <3>1. k \in 1 .. m
      BY <2>2, <2>3
    <3> DEFINE c == a[k]
    <3>2. c \in T /\ Cardinality({j \in T : j <= c}) = k
      BY <2>4, <2>5, <3>1
    <3> HIDE DEF c
    <3>3. c \in 1 .. n /\ c \in 1 .. d /\ file[c] = file[d]
      BY <2>1, <3>2
    <3>4. {j \in T : j <= c} = same[c]
      <4>1. same[c] = {j \in 1 .. c : file[j] = file[c]}
        BY <1>1, <3>3
      <4> HIDE DEF T, file, same
      <4> QED BY <2>1, <3>3, <4>1
    <3>5. Cardinality(same[c]) <= max
      <4> HIDE DEF same
      <4>1. Cardinality(same[c]) = k
        BY <3>2, <3>4
      <4> QED BY <4>1
    <3>6. c \in P
      <4> HIDE DEF same
      <4> QED BY <1>2, <3>3, <3>5
    <3>7. c # d
      BY <1>7, <3>6
    <3> HIDE DEF file
    <3> QED BY <3>1, <3>3, <3>6, <3>7 DEF c
  <2> DEFINE h == [k \in 1 .. max |-> at[a[k]]]
  <2> HIDE DEF T, file
  <2>7. h \in [1 .. max -> DOMAIN capped]
    BY <1>6, <2>6
  <2>8. \A j, k \in 1 .. max : h[j] = h[k] => j = k
    <3> SUFFICES ASSUME NEW j \in 1 .. max, NEW k \in 1 .. max, at[a[j]] = at[a[k]] PROVE j = k
      OBVIOUS
    <3>1. a[j] = a[k]
      BY <1>6, <2>6
    <3> QED BY <2>5, <2>6, <3>1
  <2>9. h \in Injection(1 .. max, DOMAIN capped)
    <3> HIDE DEF h
    <3> QED BY <2>7, <2>8, Fun_IsInj
  <2>10. ASSUME NEW k \in 1 .. max
         PROVE  \E p \in DOMAIN rs : p < d /\ rs[p].file = rs[d].file /\ capped[h[k]] = rs[p]
    <3>1. /\ a[k] \in DOMAIN rs /\ a[k] < d /\ rs[a[k]].file = rs[d].file
          /\ capped[at[a[k]]] = rs[a[k]]
      BY <1>1, <1>5, <2>6 DEF file
    <3> QED BY <3>1
  <2> HIDE DEF h
  <2> QED BY <2>9, <2>10 DEF Full
<1>8. ASSUME NEW d \in 1 .. n, d \in P PROVE \E k \in DOMAIN capped : capped[k] = rs[d]
  BY <1>5, <1>6, <1>8
<1>9. ASSUME NEW d \in DOMAIN rs
      PROVE  (\E k \in DOMAIN capped : capped[k] = rs[d]) \/ Full(rs, capped, max, d)
  BY <1>1, <1>7, <1>8
<1> QED BY <1>4, <1>9 DEF capped

\* What is shown and what is hidden are together the whole.
Divided(whole, shown, hidden) ==
    /\ \A k \in DOMAIN whole :
          \/ \E i \in DOMAIN shown : shown[i] = whole[k]
          \/ \E i \in DOMAIN hidden : hidden[i] = whole[k]
    /\ Len(shown \o hidden) \in Nat /\ DOMAIN (shown \o hidden) = 1 .. Len(shown \o hidden)
    /\ \E at \in Injection(DOMAIN whole, DOMAIN (shown \o hidden)) :
          \A k \in DOMAIN whole : (shown \o hidden)[at[k]] = whole[k]

\* A pass that hides nothing divides the findings.
LEMMA AllIsShown ==
    ASSUME NEW V, NEW whole \in Seq(V)
    PROVE  Divided(whole, whole, <<>>)
<1>1. whole \o <<>> = whole /\ Len(whole) \in Nat /\ DOMAIN whole = 1 .. Len(whole)
  BY EmptySeq, ConcatEmptySeq, LenProperties
<1> DEFINE at == [k \in DOMAIN whole |-> k]
<1>2. at \in [DOMAIN whole -> DOMAIN whole] /\ \A i, j \in DOMAIN whole : at[i] = at[j] => i = j
  OBVIOUS
<1>3. \A k \in DOMAIN whole : at[k] = k
  OBVIOUS
<1> HIDE DEF at
<1>4. at \in Injection(DOMAIN whole, DOMAIN whole)
  BY <1>2, Fun_IsInj
<1>5. \A k \in DOMAIN whole : whole[at[k]] = whole[k]
  BY <1>3
<1> QED BY <1>1, <1>4, <1>5 DEF Divided

\* The suppression divides the findings.
LEMMA SuppressionDivides ==
    ASSUME NEW V, NEW whole \in Seq(V), NEW H \in SUBSET DOMAIN whole
    PROVE  Divided(whole, Selected(whole, DOMAIN whole \ H), Selected(whole, H))
<1> DEFINE K == DOMAIN whole \ H
           s == Selected(whole, K)
           t == Selected(whole, H)
           rest == s \o t
<1>1. K \in SUBSET DOMAIN whole
  OBVIOUS
<1>2. s \in Seq(V) /\ t \in Seq(V)
  BY SelectedTells
<1>3. PICK ks \in Injection(K, DOMAIN s) : \A i \in K : s[ks[i]] = whole[i]
  BY <1>1, SelectedPlaces
<1>4. PICK kt \in Injection(H, DOMAIN t) : \A i \in H : t[kt[i]] = whole[i]
  BY SelectedPlaces
<1>5. /\ Len(s) \in Nat /\ Len(t) \in Nat /\ DOMAIN s = 1 .. Len(s) /\ DOMAIN t = 1 .. Len(t)
      /\ rest \in Seq(V) /\ Len(rest) = Len(s) + Len(t) /\ DOMAIN rest = 1 .. Len(rest)
      /\ \A i \in 1 .. Len(s) : rest[i] = s[i]
      /\ \A i \in 1 .. Len(t) : rest[Len(s) + i] = t[i]
  <2> HIDE DEF s, t
  <2>1. rest \in Seq(V) /\ Len(rest) = Len(s) + Len(t)
    BY <1>2, ConcatProperties
  <2>2. \A i \in 1 .. Len(rest) : rest[i] = IF i <= Len(s) THEN s[i] ELSE t[i - Len(s)]
    BY <1>2, ConcatProperties
  <2>3. Len(s) \in Nat /\ Len(t) \in Nat /\ DOMAIN s = 1 .. Len(s) /\ DOMAIN t = 1 .. Len(t)
        /\ DOMAIN rest = 1 .. Len(rest)
    BY <1>2, <2>1, LenProperties
  <2> HIDE DEF rest
  <2>4. ASSUME NEW i \in 1 .. Len(s) PROVE rest[i] = s[i]
    BY <2>1, <2>2, <2>3
  <2>5. ASSUME NEW i \in 1 .. Len(t) PROVE rest[Len(s) + i] = t[i]
    <3> DEFINE j == Len(s) + i
    <3>1. j \in 1 .. Len(rest) /\ ~(j <= Len(s)) /\ j - Len(s) = i
      BY <2>1, <2>3
    <3> HIDE DEF j
    <3>2. rest[j] = t[i]
      BY <2>2, <3>1
    <3> QED BY <3>2 DEF j
  <2> QED BY <2>1, <2>3, <2>4, <2>5
<1>6. ks \in [K -> DOMAIN s] /\ \A i, j \in K : ks[i] = ks[j] => i = j
  BY <1>3 DEF Injection, IsInjective
<1>7. kt \in [H -> DOMAIN t] /\ \A i, j \in H : kt[i] = kt[j] => i = j
  BY <1>4 DEF Injection, IsInjective
<1> HIDE DEF s, t, rest
<1> DEFINE at == [k \in DOMAIN whole |-> IF k \in H THEN Len(s) + kt[k] ELSE ks[k]]
           D == DOMAIN whole
<1>8. \A k \in D : /\ k \in H => at[k] = Len(s) + kt[k] /\ kt[k] \in 1 .. Len(t)
                   /\ k \notin H => at[k] = ks[k] /\ ks[k] \in 1 .. Len(s)
  BY <1>5, <1>6, <1>7
<1>9. at = [k \in D |-> at[k]]
  OBVIOUS
<1>10. \A k \in D : k \notin H => k \in K
  OBVIOUS
<1> HIDE DEF at, D, K
<1>11. \A k \in D : at[k] \in 1 .. Len(rest)
  BY <1>5, <1>8
<1>12. at \in [D -> 1 .. Len(rest)]
  BY <1>9, <1>11
<1>13. ASSUME NEW i \in D, NEW j \in D, at[i] = at[j] PROVE i = j
  <2>1. CASE i \in H /\ j \in H
    BY <1>5, <1>7, <1>8, <1>13, <2>1
  <2>2. CASE i \notin H /\ j \notin H
    BY <1>5, <1>6, <1>8, <1>10, <1>13, <2>2
  <2>3. CASE (i \in H) # (j \in H)
    BY <1>5, <1>8, <1>13, <2>3
  <2> QED BY <2>1, <2>2, <2>3
<1>14. at \in Injection(D, DOMAIN rest)
  BY <1>5, <1>12, <1>13, Fun_IsInj
<1>15. \A k \in D : rest[at[k]] = whole[k]
  <2> SUFFICES ASSUME NEW k \in D PROVE rest[at[k]] = whole[k]
    OBVIOUS
  <2>1. CASE k \in H
    BY <1>4, <1>5, <1>8, <2>1
  <2>2. CASE k \notin H
    BY <1>3, <1>5, <1>8, <1>10, <2>2
  <2> QED BY <2>1, <2>2
<1>16. ASSUME NEW k \in D
       PROVE  (\E i \in DOMAIN s : s[i] = whole[k]) \/ (\E i \in DOMAIN t : t[i] = whole[k])
  BY <1>3, <1>4, <1>6, <1>7, <1>10
<1>17. Len(rest) \in Nat
  BY <1>5
<1> QED BY <1>5, <1>14, <1>15, <1>16, <1>17 DEF Divided, D, s, t, rest, K

-----------------------------------------------------------------------------
(* The whole of aggregate().                                               *)

\* A ranking is a sequence of what it ranks.
LEMMA RankingTyped ==
    ASSUME NEW V, NEW fs \in Seq(V), NEW at, NEW rs, RankedBy(at, fs, rs)
    PROVE  rs \in Seq(V)
<1>1. Len(fs) \in Nat /\ DOMAIN fs = 1 .. Len(fs) /\ \A i \in DOMAIN fs : fs[i] \in V
  BY LenProperties
<1>2. at \in [DOMAIN fs -> DOMAIN fs] /\ rs = [r \in DOMAIN fs |-> fs[at[r]]]
  BY DEF RankedBy, Bijection, Injection
<1>3. \A r \in 1 .. Len(fs) : fs[at[r]] \in V
  BY <1>1, <1>2
<1>4. rs = [r \in 1 .. Len(fs) |-> fs[at[r]]]
  BY <1>1, <1>2
<1> QED BY <1>1, <1>3, <1>4, IsASeq

\* One finding is accounted for.
Reported(fs, f, shown, hidden, floor, threshold, max) ==
    \E g \in {h \in Cluster(fs, f) : ~PreferOver(f, h)} :
        \/ ~Passes(g, floor, threshold)
        \/ \E i \in DOMAIN shown : SameFinding(shown[i], g)
        \/ \E i \in DOMAIN hidden : SameFinding(hidden[i], g)
        \/ LET rest == shown \o hidden
           IN  Cardinality({i \in DOMAIN rest : /\ rest[i].file = g.file
                                                /\ ~PreferOver(g, rest[i])}) >= max

\* As many of the file of g as may be shown are no weaker than g.
Crowded(g, rest, max) ==
    Cardinality({i \in DOMAIN rest : rest[i].file = g.file /\ ~PreferOver(g, rest[i])}) >= max

\* Behind as many of its file as may be shown, a finding is accounted for.
LEMMA CapAccounts ==
    ASSUME NEW V, \A v \in V : Rankable(v), NEW ds \in Seq(V), NEW at, NEW rs, RankedBy(at, ds, rs),
           NEW max \in Nat, NEW capped, NEW d \in DOMAIN rs, Full(rs, capped, max, d),
           NEW shown, NEW hidden, Divided(capped, shown, hidden),
           NEW g, SameFinding(g, rs[d])
    PROVE  Crowded(g, shown \o hidden, max)
<1> DEFINE rest == shown \o hidden
           X == {i \in DOMAIN rest : rest[i].file = g.file /\ ~PreferOver(g, rest[i])}
<1>1. PICK h \in Injection(1 .. max, DOMAIN capped) : \A k \in 1 .. max :
           \E p \in DOMAIN rs : p < d /\ rs[p].file = rs[d].file /\ capped[h[k]] = rs[p]
  BY DEF Full
<1>2. /\ Len(rest) \in Nat /\ DOMAIN rest = 1 .. Len(rest)
      /\ \E to \in Injection(DOMAIN capped, DOMAIN rest) : \A k \in DOMAIN capped : rest[to[k]] = capped[k]
  BY DEF Divided
<1> HIDE DEF rest
<1>3. PICK to \in Injection(DOMAIN capped, DOMAIN rest) : \A k \in DOMAIN capped : rest[to[k]] = capped[k]
  BY <1>2
<1>4. h \in [1 .. max -> DOMAIN capped] /\ \A i, j \in 1 .. max : h[i] = h[j] => i = j
  BY <1>1 DEF Injection, IsInjective
<1>5. to \in [DOMAIN capped -> DOMAIN rest] /\ \A i, j \in DOMAIN capped : to[i] = to[j] => i = j
  BY <1>3 DEF Injection, IsInjective
<1>6. DOMAIN rs = DOMAIN ds /\ \A p, q \in DOMAIN ds : p < q => ~PreferOver(rs[q], rs[p])
  BY DEF RankedBy
<1> DEFINE F == [k \in 1 .. max |-> to[h[k]]]
<1>7. ASSUME NEW k \in 1 .. max PROVE F[k] \in X
  <2>1. PICK p \in DOMAIN rs : p < d /\ rs[p].file = rs[d].file /\ capped[h[k]] = rs[p]
    BY <1>1
  <2>2. ~PreferOver(rs[d], rs[p])
    BY <1>6, <2>1
  <2>3. g.file = rs[d].file /\ ~PreferOver(g, rs[p])
    BY <2>2, SameIsTheSame
  <2>4. to[h[k]] \in DOMAIN rest /\ rest[to[h[k]]] = rs[p]
    BY <1>3, <1>4, <1>5, <2>1
  <2> QED BY <2>1, <2>3, <2>4
<1>8. \A i, j \in 1 .. max : F[i] = F[j] => i = j
  BY <1>4, <1>5
<1>9. F \in [1 .. max -> X]
  <2> HIDE DEF X
  <2>1. \A k \in 1 .. max : to[h[k]] \in X
    BY <1>7
  <2> QED BY <2>1
<1>10. IsFiniteSet(X) /\ Cardinality(X) \in Nat
  <2>1. IsFiniteSet(DOMAIN rest)
    BY <1>2, UpToCount
  <2>2. X \subseteq DOMAIN rest
    OBVIOUS
  <2> HIDE DEF X
  <2> QED BY <2>1, <2>2, FS_Subset, FS_CardinalityType
<1> HIDE DEF F, X
<1>11. F \in Injection(1 .. max, X)
  BY <1>8, <1>9, Fun_IsInj
<1>12. Cardinality(1 .. max) <= Cardinality(X)
  BY <1>10, <1>11, FS_Injection
<1>13. Cardinality(1 .. max) = max
  BY UpToCount
<1>14. Cardinality(X) >= max
  BY <1>10, <1>12, <1>13
<1> QED BY <1>14 DEF X, rest, Crowded

\* What comes out of the passes of aggregate() and the suppression accounts for
\* every finding of fs, if what goes in stands for them all.
LEMMA AggregateAccounts ==
    ASSUME NEW fs, RankedStock(fs), NEW V, \A v \in V : Rankable(v) /\ StemsFrom(fs, v),
           NEW ms \in Seq(V), \A h \in ToSet(fs) : \E q \in DOMAIN ms : StandsFor(fs, h, ms[q]),
           NEW floor, NEW threshold, NEW max \in Nat, NEW shown, NEW hidden,
           Divided(Aggregate(ms, threshold, max, floor).findings, shown, hidden)
    PROVE  Accounted(fs, shown, hidden, floor, threshold, max)
<1> DEFINE P == {i \in DOMAIN ms : Passes(ms[i], floor, threshold)}
           passing == Selected(ms, P)
           ds == DedupFindings(passing)
           rs == RankFindings(ds)
           capped == CapPerFile(rs, max)
<1>1. Divided(capped, shown, hidden)
  BY DEF Aggregate, Summed
<1>2. P \in SUBSET DOMAIN ms /\ \A q \in DOMAIN ms : q \notin P => ~Passes(ms[q], floor, threshold)
  OBVIOUS
<1> HIDE DEF P
<1>3. passing \in Seq(V)
  BY <1>2, SelectedTells
<1>4. PICK keeps \in Injection(P, DOMAIN passing) : \A i \in P : passing[keeps[i]] = ms[i]
  BY <1>2, SelectedPlaces
<1>5. \A q \in P : \E k \in DOMAIN passing : passing[k] = ms[q]
  BY <1>4 DEF Injection
<1> HIDE DEF passing
<1>6. PICK g : JoinSteps(g, passing, V, ds)
  BY <1>3, DedupSteps
<1> HIDE DEF ds
<1>7. ds \in Seq(V)
  BY <1>3, <1>6, JoinedTyped
<1>8. PICK at : RankedBy(at, ds, rs)
  BY <1>7, RankTells
<1> HIDE DEF rs
<1>9. rs \in Seq(V)
  BY <1>7, <1>8, RankingTyped
<1>10. \A d \in DOMAIN rs : (\E k \in DOMAIN capped : capped[k] = rs[d]) \/ Full(rs, capped, max, d)
  BY <1>9, CapTells
<1> HIDE DEF capped
<1>11. ASSUME NEW f \in ToSet(fs), NEW q \in P, StandsFor(fs, f, ms[q])
       PROVE  \E d \in DOMAIN rs : StandsFor(fs, f, rs[d])
  <2>1. PICK k \in DOMAIN passing : passing[k] = ms[q]
    BY <1>5
  <2>2. k \in 1 .. Len(passing) /\ StandsFor(fs, f, passing[k])
    BY <1>3, <1>11, <2>1, LenProperties
  <2>3. /\ g \in [0 .. Len(passing) -> Seq(V)] /\ g[Len(passing)] = ds
        /\ \A i \in 1 .. Len(passing) : Joined(g[i - 1], passing[i], g[i])
    BY <1>6 DEF JoinSteps
  <2>4. \A v \in V : StemsFrom(fs, v)
    OBVIOUS
  <2>5. \E e \in DOMAIN g[Len(passing)] : StandsFor(fs, f, g[Len(passing)][e])
    BY <1>3, <2>2, <2>3, <2>4, NoneIsDropped
  <2>6. PICK e \in DOMAIN ds : StandsFor(fs, f, ds[e])
    BY <2>3, <2>5
  <2>7. /\ at \in Surjection(DOMAIN ds, DOMAIN ds)
        /\ rs = [r \in DOMAIN ds |-> ds[at[r]]]
    BY <1>8 DEF RankedBy, Bijection
  <2>8. PICK d \in DOMAIN ds : at[d] = e
    BY <2>7 DEF Surjection
  <2>9. d \in DOMAIN rs /\ rs[d] = ds[e]
    BY <2>7, <2>8
  <2> QED BY <2>6, <2>9
<1>12. ASSUME NEW f \in ToSet(fs), Passes(f, floor, threshold)
       PROVE  Reported(fs, f, shown, hidden, floor, threshold, max)
  <2>1. PICK q \in DOMAIN ms : StandsFor(fs, f, ms[q])
    OBVIOUS
  <2>2. CASE q \notin P
    <3>1. PICK o \in Cluster(fs, f) : SameFinding(o, ms[q]) /\ ~PreferOver(f, o)
      BY <2>1 DEF StandsFor
    <3>2. ~Passes(ms[q], floor, threshold)
      BY <1>2, <2>2
    <3>3. ~Passes(o, floor, threshold)
      BY <3>1, <3>2, SameIsTheSame
    <3> QED BY <3>1, <3>3 DEF Reported
  <2>3. CASE q \in P
    <3>1. PICK d \in DOMAIN rs : StandsFor(fs, f, rs[d])
      BY <1>11, <2>1, <2>3
    <3>2. PICK o \in Cluster(fs, f) : SameFinding(o, rs[d]) /\ ~PreferOver(f, o)
      BY <3>1 DEF StandsFor
    <3>3. CASE \E k \in DOMAIN capped : capped[k] = rs[d]
      <4>1. PICK k \in DOMAIN capped : capped[k] = rs[d]
        BY <3>3
      <4>2. (\E i \in DOMAIN shown : shown[i] = rs[d]) \/ (\E i \in DOMAIN hidden : hidden[i] = rs[d])
        BY <1>1, <4>1 DEF Divided
      <4>3. SameFinding(rs[d], o)
        BY <3>2 DEF SameFinding
      <4>4. \/ \E i \in DOMAIN shown : SameFinding(shown[i], o)
            \/ \E i \in DOMAIN hidden : SameFinding(hidden[i], o)
        BY <4>2, <4>3
      <4> QED BY <3>2, <4>4 DEF Reported
    <3>4. CASE Full(rs, capped, max, d)
      <4>1. \A v \in V : Rankable(v)
        OBVIOUS
      <4>2. Crowded(o, shown \o hidden, max)
        BY <1>1, <1>7, <1>8, <3>2, <3>4, <4>1, CapAccounts
      <4> QED BY <3>2, <4>2 DEF Reported, Crowded
    <3> QED BY <1>10, <3>3, <3>4
  <2> QED BY <2>2, <2>3
<1>13. \A f \in {g1 \in ToSet(fs) : Passes(g1, floor, threshold)} :
          Reported(fs, f, shown, hidden, floor, threshold, max)
  BY <1>12
<1> QED BY <1>13 DEF Accounted, Reported

\* Of what it was given aggregate() returns only what passes.
LEMMA AggregatePasses ==
    ASSUME NEW V, \A v \in V : Rankable(v), NEW ms \in Seq(V),
           NEW floor, NEW threshold, NEW max \in Nat
    PROVE  Aggregate(ms, threshold, max, floor).findings \in Seq({v \in V : Passes(v, floor, threshold)})
<1> DEFINE P == {i \in DOMAIN ms : Passes(ms[i], floor, threshold)}
           W == {v \in V : Passes(v, floor, threshold)}
           passing == Selected(ms, P)
           ds == DedupFindings(passing)
           rs == RankFindings(ds)
<1>1. P \in SUBSET DOMAIN ms
  OBVIOUS
<1>2. Aggregate(ms, threshold, max, floor).findings = CapPerFile(rs, max)
  BY DEF Aggregate, Summed
<1>3. \A i \in P : ms[i] \in W
  <2>1. \A i \in DOMAIN ms : ms[i] \in V
    BY LenProperties
  <2> QED BY <2>1
<1>4. \A v \in W : Rankable(v)
  OBVIOUS
<1> HIDE DEF P, W
<1>5. IsSequence(ms)
  BY MemberIsSequence
<1>6. IsSequence(passing) /\ ToSet(passing) = {ms[i] : i \in P}
  BY <1>1, <1>5, SelectedIsSequence
<1> HIDE DEF passing
<1>7. passing \in Seq(W)
  <2> DEFINE T == ToSet(passing)
  <2>1. passing \in Seq(T) /\ T \subseteq W
    BY <1>3, <1>6 DEF IsSequence
  <2> HIDE DEF T
  <2> QED BY <2>1
<1>8. PICK g : JoinSteps(g, passing, W, ds)
  BY <1>4, <1>7, DedupSteps
<1> HIDE DEF ds
<1>9. ds \in Seq(W)
  BY <1>7, <1>8, JoinedTyped
<1>10. PICK at : RankedBy(at, ds, rs)
  BY <1>4, <1>9, RankTells
<1> HIDE DEF rs
<1>11. rs \in Seq(W)
  BY <1>9, <1>10, RankingTyped
<1>12. CapPerFile(rs, max) \in Seq(W)
  BY <1>11, CapTells
<1> QED BY <1>2, <1>12 DEF W

\* What aggregate() returns is taken from what it was given.
LEMMA AggregateTyped ==
    ASSUME NEW V, \A v \in V : Rankable(v), NEW ms \in Seq(V),
           NEW floor, NEW threshold, NEW max \in Nat
    PROVE  Aggregate(ms, threshold, max, floor).findings \in Seq(V)
<1> DEFINE W == {v \in V : Passes(v, floor, threshold)}
<1>1. Aggregate(ms, threshold, max, floor).findings \in Seq(W)
  BY AggregatePasses
<1>2. W \subseteq V
  OBVIOUS
<1> HIDE DEF W
<1> QED BY <1>1, <1>2

\* The SARIF export accounts for every open finding of a row.
LEMMA ExportAccounts ==
    ASSUME NEW stored, IsSequence(stored), \A i \in DOMAIN stored : Rankable(stored[i])
    PROVE  Accounted(OpenOnes(stored), SarifResults(stored), <<>>, 0, Nit, ExportCap)
<1> DEFINE P == {i \in DOMAIN stored : stored[i].state = "open"}
           fs == OpenOnes(stored)
           V == ToSet(fs)
           shown == SarifResults(stored)
<1>1. P \in SUBSET DOMAIN stored /\ fs = Selected(stored, P)
  BY DEF OpenOnes
<1>2. shown = Aggregate(fs, Nit, ExportCap, 0).findings
  BY DEF SarifResults
<1> HIDE DEF P, fs, shown
<1>3. IsSequence(fs) /\ V = {stored[i] : i \in P}
  BY <1>1, SelectedIsSequence
<1>4. \A v \in V : Rankable(v)
  BY <1>1, <1>3
<1> HIDE DEF V
<1>5. RankedStock(fs)
  BY <1>3, <1>4 DEF RankedStock, V
<1>6. ASSUME NEW v \in V PROVE StemsFrom(fs, v) /\ StandsFor(fs, v, v)
  <2>1. SameFinding(v, v)
    BY DEF SameFinding
  <2>2. ~PreferOver(v, v)
    BY <1>4, PreferenceOrders
  <2>3. v \in Cluster(fs, v)
    BY <1>5, ClusterClosed DEF RankedStock, V
  <2> QED BY <2>1, <2>2, <2>3 DEF StemsFrom, StandsFor, V
<1>7. fs \in Seq(V) /\ \A h \in ToSet(fs) : \E q \in DOMAIN fs : fs[q] = h
  BY <1>3, SequenceFacts DEF IsSequence, V
<1>8. \A h \in ToSet(fs) : \E q \in DOMAIN fs : StandsFor(fs, h, fs[q])
  BY <1>6, <1>7 DEF V
<1>9. ExportCap \in Nat
  BY ReportAssumption
<1>10. shown \in Seq(V)
  BY <1>2, <1>4, <1>7, <1>9, AggregateTyped
<1>11. Divided(shown, shown, <<>>)
  BY <1>10, AllIsShown
<1>12. \A v \in V : Rankable(v) /\ StemsFrom(fs, v)
  BY <1>4, <1>6
<1>13. Accounted(fs, shown, <<>>, 0, Nit, ExportCap)
  BY <1>2, <1>5, <1>7, <1>8, <1>9, <1>11, <1>12, AggregateAccounts
<1> QED BY <1>13 DEF fs, shown

\* Inline comments are findings that stand on lines of the diff.
LEMMA InlineTaken ==
    ASSUME NEW fs, IsSequence(fs), NEW files, NEW min, NEW max \in Nat,
           NEW ic, ic = InlineComments(fs, files, min, max)
    PROVE  \A i \in DOMAIN ic : /\ ic[i].line \in CommentableLines(files, ic[i].file)
                                 /\ ic[i] \in ToSet(fs)
<1> DEFINE P == {i \in DOMAIN fs : /\ fs[i].severity <= min
                                   /\ fs[i].line \in CommentableLines(files, fs[i].file)}
           anchored == Selected(fs, P)
           n == Len(anchored)
           k == Min({max, n})
<1>1. ic = SubSeq(anchored, 1, k) /\ P \in SUBSET DOMAIN fs
  BY DEF InlineComments
<1>2. \A i \in P : fs[i].line \in CommentableLines(files, fs[i].file) /\ fs[i] \in ToSet(fs)
  BY SequenceFacts
<1> HIDE DEF P
<1> DEFINE T == ToSet(anchored)
<1>3. IsSequence(anchored) /\ T = {fs[i] : i \in P}
  BY <1>1, SelectedIsSequence
<1>4. \A f \in T : f.line \in CommentableLines(files, f.file) /\ f \in ToSet(fs)
  BY <1>2, <1>3
<1> HIDE DEF T, anchored
<1>5. anchored \in Seq(T) /\ n \in Nat
  BY <1>3, LenProperties DEF IsSequence, T
<1>6. k \in 0 .. n
  <2> HIDE DEF n
  <2>1. {max, n} \in SUBSET (0 .. (max + n)) /\ {max, n} # {} /\ max + n \in Nat
    BY <1>5
  <2>2. k \in {max, n} /\ \A x \in {max, n} : k <= x
    BY <2>1, MinMax
  <2> QED BY <1>5, <2>2
<1> HIDE DEF k
<1>7. /\ Len(ic) = k /\ \A i \in 1 .. k : ic[i] = anchored[i]
      /\ ic \in Seq(T) /\ DOMAIN ic = 1 .. k
  <2>1. \A i \in 1 .. k : anchored[1 + i - 1] \in T /\ i \in 1 .. n
    <3>1. \A i \in 1 .. n : anchored[i] \in T
      BY <1>5, LenProperties
    <3> HIDE DEF n
    <3> QED BY <1>5, <1>6, <3>1
  <2> QED BY <1>1, <1>5, <1>6, <2>1, SubSeqProperties, LenProperties
<1>8. ASSUME NEW i \in DOMAIN ic PROVE ic[i] \in T
  BY <1>7, <1>8, LenProperties
<1> QED BY <1>4, <1>8

-----------------------------------------------------------------------------
(* What is counted.                                                        *)

\* All places of a sequence, in their order, are the sequence.
LEMMA SelectedAll ==
    ASSUME NEW s, IsSequence(s)
    PROVE  Selected(s, DOMAIN s) = s
<1> DEFINE n == Len(s)
           order == Ascending(1 .. n)
<1>1. n \in Nat /\ DOMAIN s = 1 .. n /\ s = [i \in 1 .. n |-> s[i]]
  BY SequenceFacts
<1> HIDE DEF n
<1>2. IsFiniteSet(1 .. n) /\ Cardinality(1 .. n) = n /\ 1 .. n \in SUBSET Int
  BY <1>1, UpToCount
<1>3. /\ DOMAIN order = 1 .. n
      /\ \A k \in 1 .. n : order[k] \in 1 .. n /\ Cardinality({j \in 1 .. n : j <= order[k]}) = k
  <2>1. /\ Ascending(1 .. n) \in Bijection(1 .. Cardinality(1 .. n), 1 .. n)
        /\ \A k \in 1 .. Cardinality(1 .. n) :
              Cardinality({j \in 1 .. n : j <= Ascending(1 .. n)[k]}) = k
    BY <1>2, AscendingTells
  <2>2. order \in [1 .. n -> 1 .. n]
    BY <1>2, <2>1 DEF Bijection, Injection
  <2> QED BY <1>2, <2>1, <2>2
<1> HIDE DEF order
<1>4. ASSUME NEW k \in 1 .. n PROVE order[k] = k
  <2> DEFINE o == order[k]
  <2>1. o \in 1 .. n /\ Cardinality({j \in 1 .. n : j <= o}) = k
    BY <1>3
  <2> HIDE DEF o
  <2>2. {j \in 1 .. n : j <= o} = 1 .. o /\ o \in Nat
    BY <1>1, <2>1
  <2>3. Cardinality(1 .. o) = o
    BY <2>2, UpToCount
  <2> QED BY <2>1, <2>2, <2>3 DEF o
<1>5. Selected(s, DOMAIN s) = [k \in DOMAIN order |-> s[order[k]]]
  BY <1>1 DEF Selected, order
<1>6. [k \in DOMAIN order |-> s[order[k]]] = [k \in 1 .. n |-> s[k]]
  BY <1>3, <1>4
<1> QED BY <1>1, <1>5, <1>6

\* The digest of findings of which none is left out.
DigestOf(fs) ==
    LET tags == UNION {TagsOf(f) : f \in ToSet(fs)}
    IN  [total |-> Len(fs), totalsBySeverity |-> Totals(fs),
         byCategory |-> CountBy(fs, "category"), byAgent |-> CountBy(fs, "agent"),
         byFile |-> CountBy(fs, "file"),
         byTag |-> [t \in tags |-> Cardinality({i \in DOMAIN fs : t \in TagsOf(fs[i])})],
         hotspots |-> DetectHotspots(fs)]

\* A digest is one of the findings that pass.
LEMMA DigestCounts ==
    ASSUME NEW fs, NEW floor, NEW threshold
    PROVE  FindingDigest(fs, floor, threshold)
             = DigestOf(Selected(fs, {i \in DOMAIN fs : Passes(fs[i], floor, threshold)}))
  BY DEF FindingDigest, DigestOf

\* If all of them do, it leaves none out.
LEMMA DigestOfAll ==
    ASSUME NEW fs, IsSequence(fs), NEW floor, NEW threshold,
           \A i \in DOMAIN fs : Passes(fs[i], floor, threshold)
    PROVE  FindingDigest(fs, floor, threshold) = DigestOf(fs)
<1>1. {i \in DOMAIN fs : Passes(fs[i], floor, threshold)} = DOMAIN fs
  OBVIOUS
<1> QED BY <1>1, SelectedAll, DigestCounts

\* The same findings again, whatever else is noted with them.
Retold(fs, gs) ==
    /\ IsSequence(fs) /\ IsSequence(gs) /\ Len(fs) = Len(gs)
    /\ \A i \in DOMAIN fs : \A k \in FindingFields : fs[i][k] = gs[i][k]

\* What is retold is field by field the same.
LEMMA RetoldFields ==
    ASSUME NEW fs, NEW gs, Retold(fs, gs)
    PROVE  /\ DOMAIN fs = 1 .. Len(fs) /\ DOMAIN gs = DOMAIN fs /\ Len(fs) \in Nat
           /\ \A i \in DOMAIN fs :
                /\ SameFinding(fs[i], gs[i]) /\ SameFinding(gs[i], fs[i])
                /\ fs[i].agent = gs[i].agent /\ fs[i].category = gs[i].category
                /\ fs[i].severity = gs[i].severity /\ fs[i].file = gs[i].file
                /\ fs[i].tags = gs[i].tags /\ Fingerprint(fs[i]) = Fingerprint(gs[i])
<1>1. /\ DOMAIN fs = 1 .. Len(fs) /\ DOMAIN gs = 1 .. Len(gs) /\ Len(fs) \in Nat
  BY SequenceFacts DEF Retold
<1>2. DOMAIN gs = DOMAIN fs
  BY <1>1 DEF Retold
<1>3. ASSUME NEW i \in DOMAIN fs
      PROVE  /\ SameFinding(fs[i], gs[i]) /\ SameFinding(gs[i], fs[i])
             /\ fs[i].agent = gs[i].agent /\ fs[i].category = gs[i].category
             /\ fs[i].severity = gs[i].severity /\ fs[i].file = gs[i].file
             /\ fs[i].tags = gs[i].tags /\ Fingerprint(fs[i]) = Fingerprint(gs[i])
  <2> DEFINE f == fs[i]
             g == gs[i]
  <2>1. \A k \in FindingFields : f[k] = g[k]
    BY DEF Retold
  <2> HIDE DEF f, g
  <2>2. /\ f.agent = g.agent /\ f.category = g.category /\ f.severity = g.severity
        /\ f.title = g.title /\ f.why = g.why /\ f.file = g.file /\ f.line = g.line
        /\ f.endLine = g.endLine /\ f.confidence = g.confidence /\ f.tags = g.tags
    BY <2>1 DEF FindingFields
  <2>3. SameFinding(f, g) /\ SameFinding(g, f)
    BY <2>1 DEF SameFinding, FindingFields
  <2>4. Fingerprint(f) = Fingerprint(g)
    BY <2>2 DEF Fingerprint
  <2> QED BY <2>2, <2>3, <2>4 DEF f, g
<1> QED BY <1>1, <1>2, <1>3

\* So is the count by a field.
LEMMA RetoldCount ==
    ASSUME NEW fs, NEW gs, Retold(fs, gs), NEW k \in FindingFields
    PROVE  CountBy(fs, k) = CountBy(gs, k)
<1>1. DOMAIN gs = DOMAIN fs /\ \A i \in DOMAIN fs : fs[i][k] = gs[i][k]
  BY RetoldFields DEF Retold
<1>2. {f[k] : f \in ToSet(fs)} = {f[k] : f \in ToSet(gs)}
  <2>1. \A v : v \in {f[k] : f \in ToSet(fs)} <=> \E i \in DOMAIN fs : v = fs[i][k]
    BY DEF ToSet
  <2>2. \A v : v \in {f[k] : f \in ToSet(gs)} <=> \E i \in DOMAIN gs : v = gs[i][k]
    BY DEF ToSet
  <2> QED BY <1>1, <2>1, <2>2
<1>3. \A v : {i \in DOMAIN fs : fs[i][k] = v} = {i \in DOMAIN gs : gs[i][k] = v}
  BY <1>1
<1> QED BY <1>2, <1>3 DEF CountBy

\* ... the totals by severity, and the whole digest but for its hotspots.
LEMMA RetoldDigest ==
    ASSUME NEW fs, NEW gs, Retold(fs, gs)
    PROVE  /\ Totals(fs) = Totals(gs)
           /\ DigestOf(fs).total = DigestOf(gs).total
           /\ DigestOf(fs).totalsBySeverity = DigestOf(gs).totalsBySeverity
           /\ DigestOf(fs).byCategory = DigestOf(gs).byCategory
           /\ DigestOf(fs).byAgent = DigestOf(gs).byAgent
           /\ DigestOf(fs).byFile = DigestOf(gs).byFile
           /\ DigestOf(fs).byTag = DigestOf(gs).byTag
<1> DEFINE tags(s) == UNION {TagsOf(f) : f \in ToSet(s)}
           byTag(s) == [t \in tags(s) |-> Cardinality({i \in DOMAIN s : t \in TagsOf(s[i])})]
<1>1. /\ DOMAIN gs = DOMAIN fs
      /\ \A i \in DOMAIN fs : fs[i].severity = gs[i].severity /\ fs[i].tags = gs[i].tags
  BY RetoldFields
<1>2. \A s \in Severities : {i \in DOMAIN fs : fs[i].severity = s} = {i \in DOMAIN gs : gs[i].severity = s}
  BY <1>1
<1>3. Totals(fs) = Totals(gs)
  BY <1>2 DEF Totals
<1>4. \A i \in DOMAIN fs : TagsOf(fs[i]) = TagsOf(gs[i])
  BY <1>1 DEF TagsOf
<1>5. tags(fs) = tags(gs)
  <2>1. \A s : tags(s) = UNION {TagsOf(s[i]) : i \in DOMAIN s}
    BY DEF ToSet
  <2>2. {TagsOf(fs[i]) : i \in DOMAIN fs} = {TagsOf(gs[i]) : i \in DOMAIN gs}
    BY <1>1, <1>4
  <2> QED BY <2>1, <2>2
<1>6. \A t : {i \in DOMAIN fs : t \in TagsOf(fs[i])} = {i \in DOMAIN gs : t \in TagsOf(gs[i])}
  BY <1>1, <1>4
<1>7. byTag(fs) = byTag(gs)
  <2> HIDE DEF tags
  <2> QED BY <1>5, <1>6
<1>8. \A s : /\ DigestOf(s).total = Len(s) /\ DigestOf(s).totalsBySeverity = Totals(s)
             /\ DigestOf(s).byCategory = CountBy(s, "category")
             /\ DigestOf(s).byAgent = CountBy(s, "agent") /\ DigestOf(s).byFile = CountBy(s, "file")
             /\ DigestOf(s).byTag = byTag(s)
  BY DEF DigestOf
<1>9. \A k \in {"category", "agent", "file"} : CountBy(fs, k) = CountBy(gs, k)
  BY RetoldCount DEF FindingFields
<1> HIDE DEF byTag
<1> QED BY <1>3, <1>7, <1>8, <1>9 DEF Retold

\* computeDigestDrift() finds none between two digests that count the same.
LEMMA NoDrift ==
    ASSUME NEW d, NEW e, d.total \in Int, d.total = e.total, d.totalsBySeverity = e.totalsBySeverity,
           d.byCategory = e.byCategory, d.byAgent = e.byAgent, d.byFile = e.byFile, d.byTag = e.byTag
    PROVE  ~HasDrift(DigestDrift(d, e))
<1>1. \A counts : DOMAIN SparseDelta(counts, counts) = {}
  BY DEF SparseDelta
<1>2. e.total - d.total = 0
  OBVIOUS
<1> DEFINE drift == DigestDrift(d, e)
<1>3. /\ drift.total = 0 /\ DOMAIN drift.bySeverity = {} /\ DOMAIN drift.byCategory = {}
      /\ DOMAIN drift.byAgent = {} /\ DOMAIN drift.byFile = {} /\ DOMAIN drift.byTag = {}
  BY <1>1, <1>2 DEF DigestDrift
<1> HIDE DEF drift
<1> QED BY <1>3 DEF HasDrift, drift

-----------------------------------------------------------------------------
(* Exit codes and verdicts.                                                *)

\* The totals know of every severity whether a finding has it.
LEMMA TotalsTell ==
    ASSUME NEW fs, IsSequence(fs)
    PROVE  /\ DOMAIN Totals(fs) = Severities
           /\ \A s \in Severities : /\ Totals(fs)[s] \in Nat
                                    /\ Totals(fs)[s] > 0 <=> \E i \in DOMAIN fs : fs[i].severity = s
<1>1. Len(fs) \in Nat /\ DOMAIN fs = 1 .. Len(fs)
  BY SequenceFacts
<1>2. ASSUME NEW s \in Severities
      PROVE  /\ Totals(fs)[s] \in Nat
             /\ Totals(fs)[s] > 0 <=> \E i \in DOMAIN fs : fs[i].severity = s
  <2> DEFINE S == {i \in DOMAIN fs : fs[i].severity = s}
  <2>1. Totals(fs)[s] = Cardinality(S)
    BY DEF Totals
  <2>2. IsFiniteSet(S)
    BY <1>1, UpToCount, FS_Subset
  <2>3. Cardinality(S) \in Nat /\ (Cardinality(S) = 0 <=> S = {})
    BY <2>2, FS_CardinalityType, FS_EmptySet
  <2>4. S # {} <=> \E i \in DOMAIN fs : fs[i].severity = s
    OBVIOUS
  <2> HIDE DEF S
  <2> QED BY <2>1, <2>3, <2>4
<1> QED BY <1>2 DEF Totals

\* The check run is red or asks for action exactly when `clawreview run' fails.
LEMMA CodesAgree ==
    ASSUME NEW totals
    PROVE  /\ Conclusion(totals) \in {"failure", "action_required"} <=> ExitCode(totals, Nit + 1) # 0
           /\ ExitCode(totals, Nit + 1) = 0 <=> ~(totals[Critical] > 0) /\ ~(totals[High] > 0)
           /\ Conclusion(totals) = "failure" <=> totals[Critical] > 0
<1> DEFINE present == {s \in Severities : totals[s] > 0}
<1>1. /\ Critical = 0 /\ High = 1 /\ Medium = 2 /\ Low = 3 /\ Nit = 4 /\ Severities = 0 .. 4
      /\ Nit + 1 \notin Severities
  BY DEF Critical, High, Medium, Low, Nit, Severities
<1>2. Critical \in present <=> totals[Critical] > 0
  BY <1>1
<1>3. High \in present <=> totals[High] > 0
  BY <1>1
<1>4. present \subseteq {Critical, High, Medium, Low, Nit}
  BY <1>1
<1> HIDE DEF present
<1>5. ExitCode(totals, Nit + 1) = CASE Critical \in present -> 2
                                    [] Critical \notin present -> IF High \in present THEN 1 ELSE 0
  BY <1>1 DEF ExitCode, present
<1>6. Conclusion(totals) =
         CASE present = {} -> "success"
           [] Critical \in present -> "failure"
           [] Critical \notin present /\ High \in present -> "action_required"
           [] present \cap {Critical, High} = {} /\ present \cap {Medium, Low} # {} -> "neutral"
           [] present = {Nit} -> "success"
  BY DEF Conclusion, present
<1>7. CASE Critical \in present
  <2>1. Conclusion(totals) = "failure"
    <3>1. present # {} /\ present # {Nit} /\ present \cap {Critical, High} # {}
      BY <1>1, <1>7
    <3> QED BY <1>6, <1>7, <3>1
  <2>2. ExitCode(totals, Nit + 1) = 2
    BY <1>5, <1>7
  <2> QED BY <1>2, <1>7, <2>1, <2>2
<1>8. CASE Critical \notin present /\ High \in present
  <2>1. Conclusion(totals) = "action_required"
    <3>1. present # {} /\ present # {Nit} /\ present \cap {Critical, High} # {}
      BY <1>1, <1>8
    <3> QED BY <1>6, <1>8, <3>1
  <2>2. ExitCode(totals, Nit + 1) = 1
    BY <1>5, <1>8
  <2> QED BY <1>2, <1>3, <1>8, <2>1, <2>2
<1>9. CASE Critical \notin present /\ High \notin present
  <2>1. Conclusion(totals) \in {"success", "neutral"}
    <3>1. CASE present = {}
      BY <1>6, <3>1
    <3>2. CASE present # {} /\ present \cap {Medium, Low} # {}
      <4>1. present \cap {Critical, High} = {} /\ present # {Nit}
        BY <1>1, <1>9, <3>2
      <4> QED BY <1>6, <1>9, <3>2, <4>1
    <3>3. CASE present # {} /\ present \cap {Medium, Low} = {}
      <4>1. present = {Nit}
        BY <1>1, <1>4, <1>9, <3>3
      <4> QED BY <1>6, <1>9, <3>3, <4>1
    <3> QED BY <3>1, <3>2, <3>3
  <2>2. ExitCode(totals, Nit + 1) = 0
    BY <1>5, <1>9
  <2> QED BY <1>2, <1>3, <1>9, <2>1, <2>2
<1> QED BY <1>7, <1>8, <1>9

-----------------------------------------------------------------------------
(* Counts by severity and by field.                                        *)

\* Of two numbers the smaller, and the greater.
LEMMA OfTwo ==
    ASSUME NEW a \in Int, NEW b \in Int
    PROVE  /\ Min({a, b}) = IF a <= b THEN a ELSE b
           /\ Max({a, b}) = IF a >= b THEN a ELSE b
  BY DEF Min, Max

\* The counts of the severities add up to the findings.
LEMMA SeveritiesAddUp ==
    ASSUME NEW fs, IsFindings(fs)
    PROVE  Total([s \in 1 .. Nit + 1 |-> Totals(fs)[s - 1]]) = Len(fs)
<1> DEFINE ns == [s \in 1 .. Nit + 1 |-> Totals(fs)[s - 1]]
           class == [i \in DOMAIN fs |-> fs[i].severity + 1]
<1>1. Nit + 1 = 5 /\ Severities = 0 .. 4
  BY DEF Nit, Critical, Severities
<1>2. Len(fs) \in Nat /\ DOMAIN fs = 1 .. Len(fs) /\ \A i \in DOMAIN fs : fs[i].severity \in 0 .. 4
  <2>1. /\ Len(fs) \in Nat /\ DOMAIN fs = 1 .. Len(fs)
        /\ \A i \in DOMAIN fs : fs[i] \in ToSet(fs)
    BY SequenceFacts DEF IsFindings
  <2> QED BY <1>1, <2>1 DEF IsFindings, IsFinding
<1>3. IsFiniteSet(DOMAIN fs) /\ Cardinality(DOMAIN fs) = Len(fs)
  BY <1>2, UpToCount
<1>4. \A d \in DOMAIN fs : class[d] \in 1 .. 5
  BY <1>2
<1>5. ns \in Seq(Nat) /\ Len(ns) = 5 /\ \A a \in 1 .. 5 : ns[a] = Totals(fs)[a - 1]
  <2>1. \A a \in 1 .. 5 : a - 1 \in Severities
    BY <1>1
  <2>2. \A s \in Severities : Totals(fs)[s] \in Nat
    BY TotalsTell DEF IsFindings
  <2>3. ns \in [1 .. 5 -> Nat]
    BY <1>1, <2>1, <2>2
  <2> QED BY <1>1, <2>3
<1>6. ASSUME NEW a \in 1 .. 5
      PROVE  ns[a] = Cardinality({d \in DOMAIN fs : class[d] = a})
  <2>1. a - 1 \in Severities
    BY <1>1
  <2>2. {d \in DOMAIN fs : class[d] = a} = {i \in DOMAIN fs : fs[i].severity = a - 1}
    BY <1>2
  <2> HIDE DEF class, ns
  <2> QED BY <1>5, <2>1, <2>2 DEF Totals
<1> DEFINE D == DOMAIN fs
           m == 5
<1>7. /\ m \in Nat /\ \A d \in D : class[d] \in 1 .. m
      /\ \A a \in 1 .. m : ns[a] = Cardinality({d \in D : class[d] = a})
      /\ IsFiniteSet(D) /\ ns \in Seq(Nat) /\ Len(ns) = m
  BY <1>3, <1>4, <1>5, <1>6
<1> HIDE DEF class, ns, D, m
<1>8. Total(ns) = Cardinality(D)
  BY <1>7, CountsAddUp
<1> QED BY <1>3, <1>8 DEF ns, D

\* The values of a field are finitely many.
LEMMA FewValues ==
    ASSUME NEW fs, IsSequence(fs), NEW k
    PROVE  IsFiniteSet(DOMAIN CountBy(fs, k)) /\ Cardinality(DOMAIN CountBy(fs, k)) \in Nat
<1>1. IsFiniteSet(ToSet(fs))
  BY FewElements
<1> DEFINE T == ToSet(fs)
           V == {f[k] : f \in T}
           h == [f \in T |-> f[k]]
<1> HIDE DEF T
<1>2. h \in Surjection(T, V)
  <2>1. h \in [T -> V]
    OBVIOUS
  <2>2. \A v \in V : \E f \in T : h[f] = v
    OBVIOUS
  <2> HIDE DEF h, V
  <2> QED BY <2>1, <2>2, Fun_IsSurj
<1>3. IsFiniteSet(V)
  <2> HIDE DEF h, V
  <2> QED BY <1>1, <1>2, FS_Surjection DEF T
<1>4. DOMAIN CountBy(fs, k) = V
  BY DEF CountBy, T
<1> HIDE DEF V
<1> QED BY <1>3, <1>4, FS_CardinalityType

-----------------------------------------------------------------------------
(* What is told of what was stored.                                        *)

\* The same findings, as far as the store keeps them.
SameGroup(stored, group) ==
    Len(stored) = Len(group) /\ \A i \in DOMAIN stored : SameFinding(group[i], stored[i])

\* The places of the findings of one file.
InFile(fs, p) == {i \in DOMAIN fs : fs[i].file = p}

\* The findings of a file are the same in the comment and in the store.
LEMMA GroupsRetold ==
    ASSUME NEW gs, NEW fs, Retold(gs, fs), NEW p
    PROVE  SameGroup(Selected(gs, InFile(gs, p)), Selected(fs, InFile(fs, p)))
<1> DEFINE S == InFile(gs, p)
           T == InFile(fs, p)
           stored == Selected(gs, S)
           group == Selected(fs, S)
<1>1. /\ DOMAIN gs = DOMAIN fs
      /\ \A i \in DOMAIN gs : SameFinding(fs[i], gs[i]) /\ gs[i].file = fs[i].file
  BY RetoldFields
<1>2. S = T
  BY <1>1 DEF InFile
<1>3. gs \in Seq(ToSet(gs)) /\ fs \in Seq(ToSet(fs)) /\ S \in SUBSET DOMAIN gs /\ S \in SUBSET DOMAIN fs
  BY <1>1 DEF Retold, IsSequence, InFile
<1> HIDE DEF S, T
<1> DEFINE E == ToSet(gs)
           F == ToSet(fs)
<1>4. gs \in Seq(E) /\ fs \in Seq(F)
  BY <1>3
<1> HIDE DEF E, F
<1>5. /\ Cardinality(S) \in Nat /\ stored \in Seq(E) /\ Len(stored) = Cardinality(S)
      /\ \A k \in 1 .. Cardinality(S) : stored[k] = gs[Ascending(S)[k]] /\ Ascending(S)[k] \in S
  BY <1>3, <1>4, SelectedTells
<1>6. /\ group \in Seq(F) /\ Len(group) = Cardinality(S)
      /\ \A k \in 1 .. Cardinality(S) : group[k] = fs[Ascending(S)[k]]
  BY <1>3, <1>4, SelectedTells
<1> HIDE DEF stored, group
<1>7. DOMAIN stored = 1 .. Cardinality(S)
  BY <1>5
<1>8. \A i \in DOMAIN stored : SameFinding(group[i], stored[i])
  BY <1>1, <1>3, <1>5, <1>6, <1>7
<1>9. Len(stored) = Len(group)
  BY <1>5, <1>6
<1>10. SameGroup(stored, group)
  BY <1>8, <1>9 DEF SameGroup
<1> QED BY <1>2, <1>10 DEF stored, group, S, T

\* JUnit counts as failed what the totals count as critical and high.
LEMMA FailuresAddUp ==
    ASSUME NEW fs, IsSequence(fs)
    PROVE  /\ JUnit(fs).failures = Totals(fs)[Critical] + Totals(fs)[High]
           /\ JUnit(fs).tests = Len(fs)
<1> DEFINE A == {i \in DOMAIN fs : fs[i].severity = Critical}
           B == {i \in DOMAIN fs : fs[i].severity = High}
           C == {i \in DOMAIN fs : fs[i].severity \in {Critical, High}}
<1>1. /\ Critical \in Severities /\ High \in Severities /\ Critical # High
  BY DEF Critical, High, Nit, Severities
<1>2. /\ Totals(fs)[Critical] = Cardinality(A) /\ Totals(fs)[High] = Cardinality(B)
      /\ JUnit(fs).failures = Cardinality(C) /\ JUnit(fs).tests = Len(fs)
  BY <1>1 DEF Totals, JUnit
<1>3. A \cap B = {} /\ C = A \cup B
  BY <1>1
<1>4. IsFiniteSet(A) /\ IsFiniteSet(B)
  <2>1. IsFiniteSet(DOMAIN fs)
    BY SequenceFacts, UpToCount
  <2> QED BY <2>1, FS_Subset
<1> HIDE DEF A, B, C
<1>5. Cardinality(A) \in Nat /\ Cardinality(B) \in Nat /\ Cardinality(A \cap B) = 0
  BY <1>3, <1>4, FS_CardinalityType, FS_EmptySet
<1>6. Cardinality(A \cup B) = Cardinality(A) + Cardinality(B) - Cardinality(A \cap B)
  BY <1>4, FS_Union
<1>7. Cardinality(C) = Cardinality(A) + Cardinality(B)
  BY <1>3, <1>5, <1>6
<1> QED BY <1>2, <1>7

\* The open findings of a row are a sequence.
LEMMA OpenTyped ==
    ASSUME NEW gs, IsSequence(gs)
    PROVE  IsSequence(OpenOnes(gs)) /\ Len(OpenOnes(gs)) \in Nat
<1> DEFINE S == {i \in DOMAIN gs : gs[i].state = "open"}
<1>1. S \in SUBSET DOMAIN gs /\ OpenOnes(gs) = Selected(gs, S)
  BY DEF OpenOnes
<1> HIDE DEF S
<1>2. IsSequence(Selected(gs, S))
  BY <1>1, SelectedIsSequence
<1> QED BY <1>1, <1>2, SequenceFacts

\* What passes still does when it is retold.
LEMMA RetoldPasses ==
    ASSUME NEW gs, NEW fs, Retold(gs, fs), NEW floor, NEW threshold,
           \A i \in DOMAIN fs : Passes(fs[i], floor, threshold)
    PROVE  \A i \in DOMAIN gs : Passes(gs[i], floor, threshold)
<1> SUFFICES ASSUME NEW i \in DOMAIN gs PROVE Passes(gs[i], floor, threshold)
  OBVIOUS
<1> DEFINE f == fs[i]
           g == gs[i]
<1>1. i \in DOMAIN fs /\ Passes(f, floor, threshold)
  BY RetoldFields
<1>2. \A k \in FindingFields : g[k] = f[k]
  BY DEF Retold
<1> HIDE DEF f, g
<1>3. g.confidence = f.confidence /\ g.severity = f.severity
  BY <1>2 DEF FindingFields
<1> QED BY <1>1, <1>3 DEF Passes, g

\* Digest, list, Markdown, JUnit and CSV tell alike of the findings gs that the store has
\* kept of what was published, whatever reviewers dismissed of them.
THEOREM ReadsTold ==
    ASSUME NEW gs, NEW fs, Retold(gs, fs), IsFindings(fs), NEW floor, NEW threshold,
           \A i \in DOMAIN fs : Passes(fs[i], floor, threshold)
    PROVE  /\ ~HasDrift(DigestDrift(DigestOf(fs), FindingDigest(gs, 0, Nit)))
           /\ FilterReport(gs, floor, threshold).droppedTotal = 0
           /\ Len(gs) = ReportTotals(gs).open + ReportTotals(gs).dismissed
           /\ Len(OpenOnes(gs)) = JUnitCounts(gs).tests
           /\ Len(OpenOnes(gs)) = Len(CsvRows(gs, FALSE))
           /\ JUnitCounts(gs).failures = ReportTotals(gs).totals[Critical] + ReportTotals(gs).totals[High]
<1>1. IsSequence(gs) /\ IsSequence(fs) /\ Len(gs) \in Nat /\ Len(fs) \in Nat
  BY SequenceFacts DEF Retold
<1>2. FindingDigest(gs, 0, Nit) = DigestOf(gs)
  <2>1. \A i \in DOMAIN fs : fs[i].severity \in Severities /\ fs[i].confidence \in 0 .. 100
    <3>1. \A i \in DOMAIN fs : fs[i] \in ToSet(fs)
      BY <1>1, SequenceFacts
    <3> QED BY <3>1 DEF IsFindings, IsFinding
  <2>2. \A i \in DOMAIN fs : Passes(fs[i], 0, Nit)
    <3>1. Severities = 0 .. 4 /\ Nit = 4
      BY DEF Severities, Critical, Nit
    <3> QED BY <2>1, <3>1 DEF Passes
  <2> DEFINE zero == 0
             nit == Nit
  <2>3. \A i \in DOMAIN fs : Passes(fs[i], zero, nit)
    BY <2>2
  <2> HIDE DEF zero, nit
  <2>4. \A i \in DOMAIN gs : Passes(gs[i], zero, nit)
    BY <2>3, RetoldPasses
  <2>5. FindingDigest(gs, zero, nit) = DigestOf(gs)
    BY <1>1, <2>4, DigestOfAll
  <2> QED BY <2>5 DEF zero, nit
<1>3. ~HasDrift(DigestDrift(DigestOf(fs), DigestOf(gs)))
  <2> DEFINE d == DigestOf(fs)
             e == DigestOf(gs)
  <2>1. /\ e.total = d.total /\ e.totalsBySeverity = d.totalsBySeverity
        /\ e.byCategory = d.byCategory /\ e.byAgent = d.byAgent
        /\ e.byFile = d.byFile /\ e.byTag = d.byTag
    BY RetoldDigest
  <2>2. d.total \in Int
    BY <1>1 DEF DigestOf
  <2> HIDE DEF d, e
  <2>3. ~HasDrift(DigestDrift(d, e))
    BY <2>1, <2>2, NoDrift
  <2> QED BY <2>3 DEF d, e
<1>4. FilterReport(gs, floor, threshold).droppedTotal = 0
  <2>1. \A i \in DOMAIN gs : Passes(gs[i], floor, threshold)
    BY RetoldPasses
  <2>2. FindingDigest(gs, floor, threshold) = DigestOf(gs)
    BY <1>1, <2>1, DigestOfAll
  <2>3. FindingDigest(gs, floor, threshold).total = Len(gs)
    BY <2>2 DEF DigestOf
  <2>4. FilterReport(gs, floor, threshold).droppedTotal = Len(gs) - FindingDigest(gs, floor, threshold).total
    BY DEF FilterReport
  <2> QED BY <1>1, <2>3, <2>4
<1> DEFINE open == OpenOnes(gs)
<1>5. IsSequence(open) /\ Len(open) \in Nat
  BY <1>1, OpenTyped
<1>6. /\ ReportTotals(gs).open = Len(open) /\ ReportTotals(gs).dismissed = Len(gs) - Len(open)
      /\ ReportTotals(gs).totals = Totals(open)
      /\ JUnitCounts(gs) = JUnit(open) /\ CsvRows(gs, FALSE) = open
  BY DEF ReportTotals, JUnitCounts, CsvRows
<1> HIDE DEF open
<1>7. JUnit(open).failures = Totals(open)[Critical] + Totals(open)[High] /\ JUnit(open).tests = Len(open)
  BY <1>5, FailuresAddUp
<1>8. Len(gs) = ReportTotals(gs).open + ReportTotals(gs).dismissed
  BY <1>1, <1>5, <1>6
<1>9. Len(open) = JUnitCounts(gs).tests /\ Len(open) = Len(CsvRows(gs, FALSE))
  BY <1>6, <1>7
<1>10. JUnitCounts(gs).failures = ReportTotals(gs).totals[Critical] + ReportTotals(gs).totals[High]
  BY <1>6, <1>7
<1> QED BY <1>2, <1>3, <1>4, <1>8, <1>9, <1>10 DEF open

\* The baseline of another review knows a finding whose fingerprint it has.
LEMMA BaselineKnows ==
    ASSUME NEW gs, IsSequence(gs), NEW f \in ToSet(gs), NEW hs, NEW h \in ToSet(hs),
           Fingerprint(h) = Fingerprint(f)
    PROVE  \E g \in BaselineDelta(gs, hs).unchanged : Fingerprint(g) = Fingerprint(f)
<1> DEFINE p == Fingerprint(f)
           K == {i \in DOMAIN gs : Fingerprint(gs[i]) = p}
           now == IndexByFingerprint(gs)
           before == IndexByFingerprint(hs)
<1>1. Len(gs) \in Nat /\ DOMAIN gs = 1 .. Len(gs) /\ \E i \in DOMAIN gs : f = gs[i]
  BY SequenceFacts
<1>2. K # {} /\ K \in SUBSET (0 .. Len(gs))
  BY <1>1
<1>3. Max(K) \in K
  <2> HIDE DEF K
  <2> QED BY <1>1, <1>2, MinMax
<1>4. p \in DOMAIN now /\ now[p] = gs[Max(K)]
  BY DEF IndexByFingerprint
<1>5. p \in DOMAIN before
  BY DEF IndexByFingerprint
<1>6. Fingerprint(gs[Max(K)]) = p
  BY <1>3
<1> HIDE DEF now, before, K, p
<1>7. BaselineDelta(gs, hs).unchanged = {now[q] : q \in DOMAIN now \cap DOMAIN before}
  BY DEF BaselineDelta, now, before
<1>8. now[p] \in BaselineDelta(gs, hs).unchanged /\ Fingerprint(now[p]) = p
  BY <1>4, <1>5, <1>6, <1>7
<1> QED BY <1>8 DEF p

-----------------------------------------------------------------------------
(* The statistics of the week.                                             *)

\* The places of the open findings.
OpenIn(s) == {i \in DOMAIN s : s[i].state = "open"}

\* As many findings are open as there are places of open ones.
LEMMA OpenCount ==
    ASSUME NEW V, NEW s \in Seq(V)
    PROVE  /\ IsFiniteSet(OpenIn(s)) /\ Cardinality(OpenIn(s)) \in Nat
           /\ Len(OpenOnes(s)) = Cardinality(OpenIn(s))
<1> DEFINE S == OpenIn(s)
<1>1. OpenOnes(s) = Selected(s, S) /\ S \in SUBSET DOMAIN s
  BY DEF OpenOnes, OpenIn
<1> HIDE DEF S
<1>2. Cardinality(S) \in Nat /\ Len(Selected(s, S)) = Cardinality(S)
  BY <1>1, SelectedTells
<1>3. IsFiniteSet(S)
  <2>1. Len(s) \in Nat /\ DOMAIN s = 1 .. Len(s)
    BY LenProperties
  <2>2. IsFiniteSet(DOMAIN s)
    <3> DEFINE n == Len(s)
    <3> HIDE DEF n
    <3> QED BY <2>1, UpToCount DEF n
  <2> QED BY <1>1, <2>2, FS_Subset
<1> QED BY <1>1, <1>2, <1>3 DEF S

\* What comes of two sequences that are put together.
LEMMA PutTogether ==
    ASSUME NEW V, NEW s \in Seq(V), NEW t \in Seq(V)
    PROVE  /\ s \o t \in Seq(V) /\ Len(s \o t) = Len(s) + Len(t)
           /\ Len(OpenOnes(s \o t)) = Len(OpenOnes(s)) + Len(OpenOnes(t))
<1> DEFINE rest == s \o t
           m == Len(s)
           k == Len(t)
<1>1. rest \in Seq(V) /\ Len(rest) = m + k
  BY ConcatProperties
<1>2. \A i \in 1 .. Len(rest) : rest[i] = IF i <= m THEN s[i] ELSE t[i - m]
  BY ConcatProperties
<1>3. m \in Nat /\ k \in Nat /\ DOMAIN s = 1 .. m /\ DOMAIN t = 1 .. k /\ DOMAIN rest = 1 .. m + k
  BY <1>1, LenProperties
<1> HIDE DEF rest, m, k
<1> DEFINE A == OpenIn(s)
           B == OpenIn(t)
           C == {i \in OpenIn(rest) : i > m}
           shift == [i \in B |-> m + i]
<1>4. OpenIn(rest) = A \cup C /\ A \cap C = {}
  <2>1. \A i : i \in OpenIn(rest) /\ ~(i > m) <=> i \in A
    <3>1. \A i \in 1 .. m : i \in 1 .. m + k /\ i <= m /\ ~(i > m)
      BY <1>3
    <3>2. \A i \in 1 .. m + k : ~(i > m) => i \in 1 .. m
      BY <1>3
    <3> QED BY <1>1, <1>2, <1>3, <3>1, <3>2 DEF OpenIn
  <2> HIDE DEF A
  <2> QED BY <2>1
<1>5. shift \in Bijection(B, C)
  <2>1. \A i \in B : i \in 1 .. k /\ t[i].state = "open"
    BY <1>3 DEF OpenIn
  <2>2. ASSUME NEW i \in B PROVE m + i \in C
    <3> DEFINE j == m + i
    <3>1. j \in 1 .. m + k /\ j > m /\ ~(j <= m) /\ j - m = i
      BY <1>3, <2>1
    <3> HIDE DEF j
    <3>2. rest[j] = t[i]
      BY <1>1, <1>2, <3>1
    <3> QED BY <1>3, <2>1, <3>1, <3>2 DEF OpenIn, j
  <2>3. ASSUME NEW j \in C PROVE \E i \in B : m + i = j
    <3>1. j \in 1 .. m + k /\ j > m /\ rest[j].state = "open"
      BY <1>3 DEF OpenIn
    <3>2. j - m \in 1 .. k /\ m + (j - m) = j /\ ~(j <= m)
      BY <1>3, <3>1
    <3>3. t[j - m].state = "open"
      BY <1>1, <1>2, <3>1, <3>2
    <3>4. j - m \in B
      BY <1>3, <3>2, <3>3 DEF OpenIn
    <3> QED BY <3>2, <3>4
  <2>4. \A i, j \in B : m + i = m + j => i = j
    BY <1>3, <2>1
  <2> HIDE DEF B, C
  <2>5. shift \in [B -> C] /\ \A i \in B : shift[i] = m + i
    BY <2>2
  <2> HIDE DEF shift
  <2>6. shift \in Injection(B, C)
    <3>1. \A i, j \in B : shift[i] = shift[j] => i = j
      BY <2>4, <2>5
    <3> QED BY <2>5, <3>1, Fun_IsInj
  <2>7. shift \in Surjection(B, C)
    BY <2>3, <2>5, Fun_IsSurj
  <2> QED BY <2>6, <2>7 DEF Bijection
<1> HIDE DEF shift
<1>6. /\ IsFiniteSet(A) /\ IsFiniteSet(B) /\ Cardinality(A) \in Nat /\ Cardinality(B) \in Nat
      /\ Len(OpenOnes(s)) = Cardinality(A) /\ Len(OpenOnes(t)) = Cardinality(B)
      /\ Len(OpenOnes(rest)) = Cardinality(OpenIn(rest))
  BY <1>1, OpenCount
<1> HIDE DEF A, B, C
<1>7. IsFiniteSet(C) /\ Cardinality(C) = Cardinality(B)
  BY <1>5, <1>6, FS_Bijection DEF ExistsBijection
<1>8. Cardinality(A \cap C) = 0
  BY <1>4, FS_EmptySet
<1>9. Cardinality(A \cup C) = Cardinality(A) + Cardinality(C) - Cardinality(A \cap C)
  BY <1>6, <1>7, FS_Union
<1>10. Len(OpenOnes(rest)) = Len(OpenOnes(s)) + Len(OpenOnes(t))
  BY <1>4, <1>6, <1>7, <1>8, <1>9
<1> QED BY <1>1, <1>10 DEF rest, m, k

\* The lengths of the findings of some rows, and of those that are open.
Lengths(rs) == [r \in DOMAIN rs |-> Len(rs[r].findings)]

OpenLengths(rs) == [r \in DOMAIN rs |-> Len(OpenOnes(rs[r].findings))]

\* weeklyStats() puts the findings of all rows together, and counts as many as the rows have.
LEMMA StatsTold ==
    ASSUME NEW n \in Nat, NEW rs, rs = [r \in 1 .. n |-> rs[r]],
           \A r \in 1 .. n : IsSequence(rs[r].findings)
    PROVE  /\ WeeklyStats(rs).totalFindings = Total(Lengths(rs))
           /\ WeeklyStats(rs).openFindings = Total(OpenLengths(rs))
<1> DEFINE seq == rs
           E == ToSet(rs)
           V == UNION {ToSet(row.findings) : row \in ToSet(rs)}
           A == Seq(V)
           Add(acc, x) == acc \o x.findings
           O == [p \in A \X E |-> Add(p[1], p[2])]
           Runs(it) == it = [s \in SUBSET DOMAIN seq |->
                                IF s = {} THEN <<>> ELSE Add(it[s \ {Max(s)}], seq[Max(s)])]
           it == CHOOSE i : Runs(i)
           all == FoldLeft(LAMBDA acc, row : acc \o row.findings, <<>>, rs)
           ls == Lengths(rs)
           os == OpenLengths(rs)
<1>0. Len(rs) = n /\ DOMAIN rs = 1 .. n /\ IsSequence(rs)
  BY FunctionIsSequence
<1>1. seq \in Seq(E) /\ <<>> \in A
  BY <1>0 DEF IsSequence
<1>2. \A x \in E : x.findings \in A
  <2> SUFFICES ASSUME NEW x \in E PROVE x.findings \in Seq(V)
    OBVIOUS
  <2>1. PICK r \in 1 .. n : x = rs[r]
    BY <1>0, SequenceFacts
  <2>2. x.findings \in Seq(ToSet(x.findings))
    BY <2>1 DEF IsSequence
  <2> DEFINE T == ToSet(x.findings)
  <2>3. T \subseteq V
    OBVIOUS
  <2> HIDE DEF T, V
  <2> QED BY <2>2, <2>3 DEF T
<1>3. WeeklyStats(rs).totalFindings = Len(all) /\ WeeklyStats(rs).openFindings = Len(OpenOnes(all))
  BY DEF WeeklyStats
<1>4. all = it[DOMAIN seq]
  BY DEF FoldLeft, MapThenFoldSet
<1> HIDE DEF all, V, E
<1>5. ASSUME NEW acc \in A, NEW x \in E
      PROVE  /\ Add(acc, x) \in A /\ Len(Add(acc, x)) = Len(acc) + Len(x.findings)
             /\ Len(OpenOnes(Add(acc, x))) = Len(OpenOnes(acc)) + Len(OpenOnes(x.findings))
  BY <1>2, PutTogether
<1> HIDE DEF Add
<1>6. O \in [A \X E -> A] /\ \A acc \in A, x \in E : O[<<acc, x>>] = Add(acc, x)
  <2> HIDE DEF A
  <2> QED BY <1>5
<1> HIDE DEF A, O, seq
<1>7. ASSUME NEW s \in SUBSET DOMAIN seq, s # {}
      PROVE  seq[Max(s)] \in E /\ s \ {Max(s)} \in SUBSET DOMAIN seq
  BY <1>1, <1>7, LastIsThere
<1>8. Runs(it)
  <2>1. PICK i : IsFold(i, A, O, <<>>, seq)
    BY <1>1, <1>6, FoldExists
  <2>2. ASSUME NEW s \in SUBSET DOMAIN seq
        PROVE  i[s] = IF s = {} THEN <<>> ELSE Add(i[s \ {Max(s)}], seq[Max(s)])
    <3>1. CASE s = {}
      BY <2>1, <3>1 DEF IsFold
    <3>2. CASE s # {}
      <4>1. i[s \ {Max(s)}] \in A /\ seq[Max(s)] \in E
        BY <1>7, <2>1, <3>2 DEF IsFold
      <4> QED BY <1>6, <2>1, <3>2, <4>1 DEF IsFold
    <3> QED BY <3>1, <3>2
  <2>3. Runs(i)
    BY <2>1, <2>2 DEF IsFold
  <2> HIDE DEF Runs
  <2> QED BY <2>3
<1> HIDE DEF it
<1>9. Folds(it, A, O, <<>>, seq)
  <2>1. it[{}] = <<>>
    BY <1>8
  <2>2. ASSUME NEW s \in SUBSET DOMAIN seq, s # {}, it[s \ {Max(s)}] \in A
        PROVE  it[s] = O[<<it[s \ {Max(s)}], seq[Max(s)]>>]
    <3>1. it[s] = Add(it[s \ {Max(s)}], seq[Max(s)])
      BY <1>8, <2>2
    <3> QED BY <1>6, <1>7, <2>2, <3>1
  <2> QED BY <2>1, <2>2 DEF Folds
<1>10. PICK g : AreSteps(g, A, O, <<>>, seq, it[DOMAIN seq])
  BY <1>1, <1>6, <1>9, FoldSteps
<1>11. \A i \in 1 .. n : seq[i] \in E
  BY <1>0, <1>1, SequenceFacts DEF E, seq
<1>12. /\ g[0] = <<>> /\ g[n] = all /\ \A i \in 0 .. n : g[i] \in A
       /\ \A i \in 1 .. n : g[i] = Add(g[i - 1], seq[i])
  <2>1. Len(seq) = n
    BY <1>0 DEF seq
  <2>2. /\ g[0] = <<>> /\ g[n] = all /\ \A i \in 0 .. n : g[i] \in A
        /\ \A i \in 1 .. n : g[i] = O[<<g[i - 1], seq[i]>>]
    BY <1>4, <1>10, <2>1 DEF AreSteps
  <2>3. \A i \in 1 .. n : i - 1 \in 0 .. n
    OBVIOUS
  <2> QED BY <1>6, <1>11, <2>2, <2>3
<1>13. \A i \in 1 .. n : /\ Len(g[i]) = Len(g[i - 1]) + ls[i]
                        /\ Len(OpenOnes(g[i])) = Len(OpenOnes(g[i - 1])) + os[i]
  <2> SUFFICES ASSUME NEW i \in 1 .. n
               PROVE  /\ Len(g[i]) = Len(g[i - 1]) + ls[i]
                      /\ Len(OpenOnes(g[i])) = Len(OpenOnes(g[i - 1])) + os[i]
    OBVIOUS
  <2>1. g[i - 1] \in A /\ seq[i] \in E /\ g[i] = Add(g[i - 1], seq[i])
    BY <1>11, <1>12
  <2>2. ls[i] = Len(seq[i].findings) /\ os[i] = Len(OpenOnes(seq[i].findings))
    BY <1>0 DEF Lengths, OpenLengths, seq
  <2> HIDE DEF ls, os
  <2> QED BY <1>5, <2>1, <2>2
<1>14. Len(g[0]) = 0 /\ Len(OpenOnes(g[0])) = 0
  <2>1. DOMAIN <<>> = {} /\ <<>> \in Seq(V) /\ Len(<<>>) = 0
    OBVIOUS
  <2>2. OpenIn(<<>>) = {}
    BY <2>1 DEF OpenIn
  <2>3. Len(OpenOnes(<<>>)) = 0
    BY <2>1, <2>2, OpenCount, FS_EmptySet
  <2> QED BY <1>12, <2>1, <2>3
<1>15. ls \in Seq(Nat) /\ Len(ls) = n /\ os \in Seq(Nat) /\ Len(os) = n
  <2>1. \A r \in 1 .. n : Len(rs[r].findings) \in Nat /\ Len(OpenOnes(rs[r].findings)) \in Nat
    BY OpenTyped, SequenceFacts
  <2>2. ls \in [1 .. n -> Nat] /\ os \in [1 .. n -> Nat]
    BY <1>0, <2>1 DEF Lengths, OpenLengths
  <2> HIDE DEF ls, os
  <2>3. ls \in Seq(Nat) /\ Len(ls) = n
    BY <2>2
  <2>4. os \in Seq(Nat) /\ Len(os) = n
    BY <2>2
  <2> QED BY <2>3, <2>4
<1> HIDE DEF ls, os
<1>16. PICK h : AddsUp(h, ls)
  BY <1>15, TotalSteps
<1>17. PICK k : AddsUp(k, os)
  BY <1>15, TotalSteps
<1> DEFINE I == {i \in 0 .. n : Len(g[i]) = h[i] /\ Len(OpenOnes(g[i])) = k[i]}
<1>18. 0 \in I
  BY <1>14, <1>16, <1>17 DEF AddsUp
<1>19. ASSUME NEW i \in 0 .. n - 1, i \in I PROVE i + 1 \in I
  <2>1. i + 1 \in 1 .. n /\ i + 1 \in 0 .. n /\ (i + 1) - 1 = i
    OBVIOUS
  <2>2. /\ h[i + 1] = h[i] + ls[i + 1] /\ k[i + 1] = k[i] + os[i + 1]
    BY <1>15, <1>16, <1>17, <2>1 DEF AddsUp
  <2>3. /\ Len(g[i + 1]) = Len(g[i]) + ls[i + 1]
        /\ Len(OpenOnes(g[i + 1])) = Len(OpenOnes(g[i])) + os[i + 1]
    BY <1>13, <2>1
  <2> QED BY <1>19, <2>1, <2>2, <2>3
<1>20. n \in I
  <2> HIDE DEF I
  <2>1. \A i \in 0 .. n : i \in I
    BY <1>18, <1>19, UpTo
  <2> QED BY <2>1
<1>21. h[n] = Total(ls) /\ k[n] = Total(os)
  BY <1>15, <1>16, <1>17 DEF AddsUp
<1> QED BY <1>3, <1>12, <1>20, <1>21 DEF ls, os

-----------------------------------------------------------------------------
(* The store's operations.                                                 *)

\* A row and a stored finding have exactly the fields the store gives them.
IsRow(row) == DOMAIN row = {"status", "findings", "digest", "costUsd", "tokens"}
IsStored(g) ==
    /\ DOMAIN g = {"agent", "category", "severity", "title", "why", "file", "line", "endLine",
                   "confidence", "tags", "state", "auto"}
    /\ g.state \in {"open", "dismissed"}

\* A finding keeps its fingerprint when it is stored, and is dismissed exactly
\* if the memory has it.
LEMMA StoredFacts ==
    ASSUME NEW f, NEW mem
    PROVE  /\ IsStored(Stored(f, mem))
           /\ Fingerprint(Stored(f, mem)) = Fingerprint(f)
           /\ Stored(f, mem).state = "dismissed" <=> Fingerprint(f) \in mem
           /\ Stored(f, mem).state = "open" <=> Fingerprint(f) \notin mem
  BY DEF IsStored, Stored, Fingerprint

\* A reviewer's request changes the state of the findings it is about, and no
\* fingerprint.
LEMMA WithStateFacts ==
    ASSUME NEW row, IsRow(row), NEW S, NEW state \in {"open", "dismissed"},
           \A i \in DOMAIN row.findings : IsStored(row.findings[i])
    PROVE  LET new == WithState(row, S, state) IN
           /\ IsRow(new)
           /\ new.status = row.status
           /\ DOMAIN new.findings = DOMAIN row.findings
           /\ \A i \in DOMAIN row.findings :
                /\ IsStored(new.findings[i])
                /\ Fingerprint(new.findings[i]) = Fingerprint(row.findings[i])
                /\ new.findings[i].state = IF i \in S THEN state ELSE row.findings[i].state
<1> DEFINE Changed(i) == IF i \in S THEN [row.findings[i] EXCEPT !.state = state, !.auto = FALSE]
                                    ELSE row.findings[i]
           new == WithState(row, S, state)
<1>1. new = [row EXCEPT !.findings = [i \in DOMAIN row.findings |-> Changed(i)]]
  BY DEF WithState
<1>2. /\ IsRow(new) /\ new.status = row.status
      /\ new.findings = [i \in DOMAIN row.findings |-> Changed(i)]
  <2> HIDE DEF new, Changed
  <2> QED BY <1>1 DEF IsRow
<1>3. ASSUME NEW i \in DOMAIN row.findings
      PROVE  /\ IsStored(Changed(i))
             /\ Fingerprint(Changed(i)) = Fingerprint(row.findings[i])
             /\ Changed(i).state = IF i \in S THEN state ELSE row.findings[i].state
  <2> DEFINE g == row.findings[i]
  <2>1. IsStored(g)
    OBVIOUS
  <2> HIDE DEF g
  <2>2. LET h == [g EXCEPT !.state = state, !.auto = FALSE]
        IN  IsStored(h) /\ Fingerprint(h) = Fingerprint(g) /\ h.state = state
    BY <2>1 DEF IsStored, Fingerprint
  <2> QED BY <2>1, <2>2 DEF g
<1> QED
  <2> HIDE DEF new, Changed
  <2>1. \A i \in DOMAIN row.findings : new.findings[i] = Changed(i)
    BY <1>2
  <2>2. DOMAIN new.findings = DOMAIN row.findings
    BY <1>2
  <2>3. \A i \in DOMAIN row.findings :
             /\ IsStored(new.findings[i])
             /\ Fingerprint(new.findings[i]) = Fingerprint(row.findings[i])
             /\ new.findings[i].state = IF i \in S THEN state ELSE row.findings[i].state
    BY <1>3, <2>1
  <2> QED BY <1>2, <2>2, <2>3 DEF new

\* What is stored is told of as it was found.
LEMMA StoredRetold ==
    ASSUME NEW fs, IsSequence(fs), NEW mem
    PROVE  Retold([i \in DOMAIN fs |-> Stored(fs[i], mem)], fs)
<1> DEFINE gs == [i \in DOMAIN fs |-> Stored(fs[i], mem)]
<1>1. Len(fs) \in Nat /\ DOMAIN fs = 1 .. Len(fs)
  BY SequenceFacts
<1>2. ASSUME NEW i \in DOMAIN fs PROVE \A k \in FindingFields : gs[i][k] = fs[i][k]
  <2> DEFINE f == fs[i]
             g == Stored(f, mem)
  <2>1. /\ g.agent = f.agent /\ g.category = f.category /\ g.severity = f.severity
        /\ g.title = f.title /\ g.why = f.why /\ g.file = f.file /\ g.line = f.line
        /\ g.endLine = f.endLine /\ g.confidence = f.confidence /\ g.tags = f.tags
    BY DEF Stored
  <2>2. gs[i] = g
    OBVIOUS
  <2> HIDE DEF f, g, gs
  <2>3. \A k \in FindingFields : g[k] = f[k]
    BY <2>1 DEF FindingFields
  <2> QED BY <2>2, <2>3 DEF f
<1>3. gs = [i \in 1 .. Len(fs) |-> gs[i]] /\ DOMAIN gs = DOMAIN fs
  BY <1>1
<1> HIDE DEF gs
<1>4. IsSequence(gs) /\ Len(gs) = Len(fs)
  BY <1>1, <1>3, FunctionIsSequence
<1>5. Retold(gs, fs)
  BY <1>2, <1>3, <1>4 DEF Retold
<1> QED BY <1>5 DEF gs

\* A request changes nothing of that.
LEMMA TriagedRetold ==
    ASSUME NEW row, IsRow(row), NEW S, NEW state, \A i \in DOMAIN row.findings : IsStored(row.findings[i]),
           NEW fs, Retold(row.findings, fs), NEW new, new = WithState(row, S, state)
    PROVE  Retold(new.findings, fs) /\ new.status = row.status /\ new.digest = row.digest
<1> DEFINE old == row.findings
           Changed(i) == IF i \in S THEN [old[i] EXCEPT !.state = state, !.auto = FALSE] ELSE old[i]
           gs == [i \in DOMAIN old |-> Changed(i)]
<1>1. new = [row EXCEPT !.findings = gs]
  BY DEF WithState
<1> HIDE DEF gs
<1>2. new.findings = gs /\ new.status = row.status /\ new.digest = row.digest
  BY <1>1 DEF IsRow
<1>3. IsSequence(old) /\ IsSequence(fs) /\ Len(old) = Len(fs)
      /\ \A i \in DOMAIN old : \A k \in FindingFields : old[i][k] = fs[i][k]
  BY DEF Retold
<1>4. \A i \in DOMAIN old : IsStored(old[i])
  OBVIOUS
<1> HIDE DEF old
<1>5. Len(old) \in Nat /\ DOMAIN old = 1 .. Len(old)
  BY <1>3, SequenceFacts
<1>6. gs = [i \in 1 .. Len(old) |-> gs[i]] /\ DOMAIN gs = DOMAIN old
  BY <1>5 DEF gs
<1>7. IsSequence(gs) /\ Len(gs) = Len(old)
  BY <1>5, <1>6, FunctionIsSequence
<1>8. ASSUME NEW i \in DOMAIN old PROVE \A k \in FindingFields : gs[i][k] = fs[i][k]
  <2> DEFINE f == old[i]
             g == [f EXCEPT !.state = state, !.auto = FALSE]
  <2>1. gs[i] = f \/ gs[i] = g
    BY DEF gs
  <2>2. IsStored(f) /\ \A k \in FindingFields : f[k] = fs[i][k]
    BY <1>3, <1>4
  <2>3. \A k \in FindingFields : g[k] = f[k]
    <3> HIDE DEF f
    <3> QED BY <2>2 DEF IsStored, FindingFields
  <2> HIDE DEF f, g
  <2> QED BY <2>1, <2>2, <2>3
<1> QED BY <1>2, <1>3, <1>6, <1>7, <1>8 DEF Retold
=============================================================================
