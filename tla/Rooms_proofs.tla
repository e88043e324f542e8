---------------------------- MODULE Rooms_proofs -----------------------------
(***************************************************************************)
(* Proofs about what a console that looks for a room is shown: the list of *)
(* rooms, and the URL of the host it joins.                                *)
(*                                                                         *)
(* Browsing, for any rooms, rows and result ranges: ListFitsAlways and     *)
(* BrowseStableAlways.  A row's place in the sorted list is the number of  *)
(* rows before it (Rank), and ranks are a bijection to 1..n, shown with    *)
(* the least rank that is missing.  The invariant (BrowsingInv) says that  *)
(* an answer is ascending by gathering ID and lists what the query found;  *)
(* two ascending lists of the same sessions are equal (AscendingSame).     *)
(*                                                                         *)
(* StationURLs, for any URLs and setter calls: HostKeepsURLAlways and      *)
(* JoinerReadsAlways.  The invariant (URLInv) says where the maps of the   *)
(* three URLs are, that no two share one, what the relay's copy shows, and *)
(* what the joiner reads of it (ParseFormatted: whatever the order in      *)
(* which Format visits the map).                                           *)
(***************************************************************************)
EXTENDS Browsing, StationURLs, FiniteSetTheorems, TLAPS

------------------------------------------------------------------------------
(* The list of rooms *)

\* How many elements of S are before x
Rank(S, before, x) == Cardinality({y \in S : <<y, x>> \in before})

\* before orders S strictly and totally.
Orders(before, S) ==
    /\ \A x \in S : <<x, x>> \notin before
    /\ \A x, y \in S : x = y \/ <<x, y>> \in before \/ <<y, x>> \in before
    /\ \A x, y, z \in S : <<x, y>> \in before /\ <<y, z>> \in before => <<x, z>> \in before

\* Of two elements the one before the other has fewer before it.
LEMMA RankGrows ==
    ASSUME NEW S, IsFiniteSet(S), NEW before, Orders(before, S),
           NEW x \in S, NEW y \in S, <<x, y>> \in before
    PROVE  Rank(S, before, x) < Rank(S, before, y)
<1> DEFINE A == {z \in S : <<z, x>> \in before}
           B == {z \in S : <<z, y>> \in before}
<1>1. A \in SUBSET B /\ x \in B /\ x \notin A
  BY DEF Orders
<1>2. B \in SUBSET S
  OBVIOUS
<1> HIDE DEF A, B
<1>3. IsFiniteSet(B) BY <1>2, FS_Subset
<1>4. Cardinality(A) <= Cardinality(B) /\ (Cardinality(B) = Cardinality(A) => A = B)
  BY <1>1, <1>3, FS_Subset
<1>5. Cardinality(A) \in Nat /\ Cardinality(B) \in Nat
  BY <1>1, <1>3, FS_Subset, FS_CardinalityType
<1>6. Cardinality(A) < Cardinality(B) BY <1>1, <1>4, <1>5
<1> QED BY <1>6 DEF Rank, A, B

\* Every number below the size of the set is the rank of one of its elements.
LEMMA RankOnto ==
    ASSUME NEW S, IsFiniteSet(S), NEW before, Orders(before, S)
    PROVE  /\ Cardinality(S) \in Nat
           /\ \A x \in S : Rank(S, before, x) \in 0..(Cardinality(S) - 1)
           /\ \A x, y \in S : Rank(S, before, x) = Rank(S, before, y) => x = y
           /\ \A i \in 0..(Cardinality(S) - 1) : \E x \in S : Rank(S, before, x) = i
<1> DEFINE n == Cardinality(S)
           f == [x \in S |-> Rank(S, before, x)]
<1>1. n \in Nat BY FS_CardinalityType
<1>2. ASSUME NEW x \in S PROVE Rank(S, before, x) \in 0..(n - 1)
  <2> DEFINE A == {y \in S : <<y, x>> \in before}
  <2>1. A \in SUBSET S /\ x \notin A BY DEF Orders
  <2> HIDE DEF A
  <2>2. IsFiniteSet(A) /\ Cardinality(A) <= n /\ (n = Cardinality(A) => S = A)
    BY <2>1, FS_Subset
  <2>3. Cardinality(A) \in Nat BY <2>2, FS_CardinalityType
  <2>4. Cardinality(A) # n BY <2>1, <2>2
  <2> HIDE DEF n
  <2>5. Cardinality(A) \in 0..(n - 1) BY <1>1, <2>2, <2>3, <2>4
  <2> QED BY <2>5 DEF Rank, A
<1>3. ASSUME NEW x \in S, NEW y \in S, Rank(S, before, x) = Rank(S, before, y) PROVE x = y
  <2>1. Rank(S, before, x) \in Nat /\ Rank(S, before, y) \in Nat BY <1>1, <1>2
  <2>2. <<x, y>> \notin before BY <1>3, <2>1, RankGrows
  <2>3. <<y, x>> \notin before BY <1>3, <2>1, RankGrows
  <2> QED BY <2>2, <2>3 DEF Orders
<1>4. f \in Injection(S, 0..(n - 1))
  BY <1>2, <1>3 DEF Injection, IsInjective
<1>5. IsFiniteSet(0..(n - 1)) /\ Cardinality(0..(n - 1)) = n
  <2> HIDE DEF n
  <2>1. 0 \in Int /\ n - 1 \in Int BY <1>1
  <2>2. IsFiniteSet(0..(n - 1)) /\ Cardinality(0..(n - 1)) = IF 0 > n - 1 THEN 0 ELSE n - 1 - 0 + 1
    BY <2>1, FS_Interval
  <2> QED BY <1>1, <2>2
<1> HIDE DEF f
<1>6. f \in Surjection(S, 0..(n - 1)) BY <1>4, <1>5, FS_Injection
<1>7. \A i \in 0..(n - 1) : \E x \in S : Rank(S, before, x) = i
  BY <1>6 DEF Surjection, f
<1> QED BY <1>1, <1>2, <1>3, <1>7

\* Arranged lists every element of the set once, in the order of the relation.
LEMMA ArrangedFacts ==
    ASSUME NEW S, IsFiniteSet(S), NEW before, Orders(before, S)
    PROVE  /\ Arranged(S, before) \in [1..Cardinality(S) -> S]
           /\ \A x \in S : \E i \in 1..Cardinality(S) : Arranged(S, before)[i] = x
           /\ \A i, j \in 1..Cardinality(S) :
                 i < j => <<Arranged(S, before)[i], Arranged(S, before)[j]>> \in before
<1> DEFINE n == Cardinality(S)
           a == Arranged(S, before)
<1>1. n \in Nat BY RankOnto
<1>2. ASSUME NEW i \in 1..n
      PROVE  a[i] \in S /\ Rank(S, before, a[i]) = i - 1
  <2>1. i - 1 \in 0..(n - 1) BY <1>1
  <2>2. \E x \in S : Rank(S, before, x) = i - 1 BY <2>1, RankOnto
  <2>3. a[i] = CHOOSE x \in S : Rank(S, before, x) = i - 1 BY DEF Arranged, Rank
  <2> HIDE DEF a
  <2> QED BY <2>2, <2>3
<1>3. a \in [1..n -> S]
  <2>1. \A i \in 1..n :
          (CHOOSE x \in S : Cardinality({y \in S : <<y, x>> \in before}) = i - 1) \in S
    BY <1>2 DEF Arranged
  <2> QED BY <2>1 DEF Arranged
<1> HIDE DEF a
<1>4. ASSUME NEW x \in S PROVE \E i \in 1..n : a[i] = x
  <2>1. Rank(S, before, x) \in 0..(n - 1) BY RankOnto
  <2> DEFINE i == Rank(S, before, x) + 1
  <2>2. i \in 1..n /\ i - 1 = Rank(S, before, x) BY <1>1, <2>1
  <2>3. a[i] \in S /\ Rank(S, before, a[i]) = Rank(S, before, x) BY <1>2, <2>2
  <2>4. a[i] = x BY <2>3, RankOnto
  <2> QED BY <2>2, <2>4
<1>5. ASSUME NEW i \in 1..n, NEW j \in 1..n, i < j PROVE <<a[i], a[j]>> \in before
  <2>1. a[i] \in S /\ a[j] \in S /\ Rank(S, before, a[i]) = i - 1 /\ Rank(S, before, a[j]) = j - 1
    BY <1>2
  <2>2. a[i] # a[j] BY <1>5, <2>1
  <2>3. ASSUME <<a[j], a[i]>> \in before PROVE FALSE
    <3>1. Rank(S, before, a[j]) < Rank(S, before, a[i]) BY <2>1, <2>3, RankGrows
    <3> QED BY <1>5, <2>1, <3>1
  <2> QED BY <2>1, <2>2, <2>3 DEF Orders
<1> QED BY <1>3, <1>4, <1>5 DEF a

\* Positions are ordered by Earlier.
LEMMA PositionsOrdered ==
    ASSUME NEW m \in Nat, NEW T \in SUBSET (1..m)
    PROVE  Orders(Earlier, T)
<1>1. \A x, y \in T : <<x, y>> \in Earlier <=> x < y BY DEF Earlier
<1> QED BY <1>1 DEF Orders

\* A non-empty set of positions has a first one.
LEMMA FirstPosition ==
    ASSUME NEW m \in Nat, NEW T \in SUBSET (1..m), T # {}
    PROVE  \E x \in T : \A y \in T : ~(y < x)
<1>1. IsFiniteSet(T) /\ Cardinality(T) \in Nat /\ Cardinality(T) # 0
  <2>1. IsFiniteSet(1..m) BY FS_Interval
  <2>2. IsFiniteSet(T) BY <2>1, FS_Subset
  <2> QED BY <2>2, FS_CardinalityType, FS_EmptySet
<1>2. Orders(Earlier, T) BY PositionsOrdered
<1> DEFINE n == Cardinality(T)
           a == Arranged(T, Earlier)
<1>3. /\ a \in [1..n -> T]
      /\ \A x \in T : \E i \in 1..n : a[i] = x
      /\ \A i, j \in 1..n : i < j => <<a[i], a[j]>> \in Earlier
  BY <1>1, <1>2, ArrangedFacts, Zenon
<1> HIDE DEF n, a
<1>4. 1 \in 1..n BY <1>1 DEF n
<1>5. ASSUME NEW y \in T, y < a[1] PROVE FALSE
  <2>1. PICK i \in 1..n : a[i] = y BY <1>3
  <2>2. a[1] \in Nat /\ y \in Nat
    <3>1. \A x \in T : x \in Nat OBVIOUS
    <3>2. a[1] \in T BY <1>3, <1>4
    <3> QED BY <3>1, <3>2
  <2>3. i # 1 BY <1>5, <2>1, <2>2
  <2>4. 1 < i BY <1>4, <2>1, <2>3
  <2>5. a[1] < a[i] BY <1>3, <1>4, <2>4 DEF Earlier
  <2> QED BY <1>5, <2>1, <2>2, <2>5
<1>6. a[1] \in T BY <1>3, <1>4
<1> QED BY <1>5, <1>6

------------------------------------------------------------------------------
(* Sorting *)

\* The sessions there can be
Sessions == [id : GatheringIDs, locked : BOOLEAN]

\* The list is in the order of the gathering IDs, with none twice.
Ascending(seq) == \A i, j \in DOMAIN seq : i < j => seq[i].id < seq[j].id

\* A session is known by its ID.
UniqueIDs(S) == \A s, t \in S : s.id = t.id => s = t

\* The IDs of sessions are numbers.
LEMMA SessionIDs ==
    ASSUME NEW S \in SUBSET Sessions, NEW s \in S
    PROVE  s.id \in Nat
<1>1. s \in Sessions OBVIOUS
<1>2. s.id \in GatheringIDs BY <1>1 DEF Sessions
<1> QED BY <1>2, BrowsingAssumption

\* SliceStable keeps the rows and puts them in the order of their IDs.
LEMMA SortedFacts ==
    ASSUME NEW S \in SUBSET Sessions, NEW m \in Nat, NEW rows \in [1..m -> S]
    PROVE  /\ Sorted(rows) \in [1..m -> S]
           /\ \A k \in 1..m : \E i \in 1..m : Sorted(rows)[i] = rows[k]
           /\ \A i \in 1..m : \E k \in 1..m : Sorted(rows)[i] = rows[k]
           /\ \A i, j \in 1..m : i < j => Sorted(rows)[i].id <= Sorted(rows)[j].id
<1> DEFINE order == Arranged(1..m, Sooner(rows))
<1>1. IsFiniteSet(1..m) /\ Cardinality(1..m) = m BY FS_Interval
<1>2. \A i \in 1..m : rows[i].id \in Nat BY SessionIDs
<1>3. Orders(Sooner(rows), 1..m)
  <2>1. \A i, j \in 1..m : <<i, j>> \in Sooner(rows)
                              <=> \/ rows[i].id < rows[j].id
                                  \/ rows[i].id = rows[j].id /\ i < j
    BY DEF Sooner
  <2>2. \A i \in 1..m : <<i, i>> \notin Sooner(rows) BY <1>2, <2>1
  <2>3. \A i, j \in 1..m : i = j \/ <<i, j>> \in Sooner(rows) \/ <<j, i>> \in Sooner(rows)
    <3> SUFFICES ASSUME NEW i \in 1..m, NEW j \in 1..m, i # j
                 PROVE  <<i, j>> \in Sooner(rows) \/ <<j, i>> \in Sooner(rows)
      OBVIOUS
    <3>1. rows[i].id \in Nat /\ rows[j].id \in Nat BY <1>2
    <3>2. i < j \/ j < i OBVIOUS
    <3> QED BY <2>1, <3>1, <3>2
  <2>4. ASSUME NEW i \in 1..m, NEW j \in 1..m, NEW k \in 1..m,
               <<i, j>> \in Sooner(rows), <<j, k>> \in Sooner(rows)
        PROVE  <<i, k>> \in Sooner(rows)
    <3>1. rows[i].id \in Nat /\ rows[j].id \in Nat /\ rows[k].id \in Nat BY <1>2
    <3>2. /\ rows[i].id < rows[j].id \/ (rows[i].id = rows[j].id /\ i < j)
          /\ rows[j].id < rows[k].id \/ (rows[j].id = rows[k].id /\ j < k)
      BY <2>1, <2>4
    <3>3. rows[i].id < rows[k].id \/ (rows[i].id = rows[k].id /\ i < k) BY <3>1, <3>2
    <3> QED BY <2>1, <3>3
  <2> QED BY <2>2, <2>3, <2>4, Zenon DEF Orders
<1>4. /\ order \in [1..m -> 1..m]
      /\ \A x \in 1..m : \E i \in 1..m : order[i] = x
      /\ \A i, j \in 1..m : i < j => <<order[i], order[j]>> \in Sooner(rows)
  <2>1. /\ order \in [1..Cardinality(1..m) -> 1..m]
        /\ \A x \in 1..m : \E i \in 1..Cardinality(1..m) : order[i] = x
        /\ \A i, j \in 1..Cardinality(1..m) : i < j => <<order[i], order[j]>> \in Sooner(rows)
    BY <1>1, <1>3, ArrangedFacts, Zenon
  <2> QED BY <1>1, <2>1
<1>5. Sorted(rows) = [i \in 1..m |-> rows[order[i]]]
  BY <1>4 DEF Sorted
<1> HIDE DEF order
<1>6. \A i, j \in 1..m : i < j => rows[order[i]].id <= rows[order[j]].id
  <2> SUFFICES ASSUME NEW i \in 1..m, NEW j \in 1..m, i < j
               PROVE  rows[order[i]].id <= rows[order[j]].id
    OBVIOUS
  <2>1. order[i] \in 1..m /\ order[j] \in 1..m /\ <<order[i], order[j]>> \in Sooner(rows)
    BY <1>4
  <2>2. rows[order[i]].id < rows[order[j]].id \/ rows[order[i]].id = rows[order[j]].id
    BY <2>1 DEF Sooner
  <2>3. rows[order[i]].id \in Nat /\ rows[order[j]].id \in Nat BY <1>2, <2>1
  <2> QED BY <2>2, <2>3
<1>7. Sorted(rows) \in [1..m -> S] BY <1>4, <1>5
<1>8. \A k \in 1..m : \E i \in 1..m : Sorted(rows)[i] = rows[k] BY <1>4, <1>5
<1>9. \A i \in 1..m : \E k \in 1..m : Sorted(rows)[i] = rows[k] BY <1>4, <1>5
<1>10. \A i, j \in 1..m : i < j => Sorted(rows)[i].id <= Sorted(rows)[j].id BY <1>5, <1>6
<1> QED BY <1>7, <1>8, <1>9, <1>10

\* Of a sorted list, Deduped keeps one row of each ID, in their order.
LEMMA DedupedFacts ==
    ASSUME NEW S \in SUBSET Sessions, UniqueIDs(S), NEW m \in Nat, NEW rows \in [1..m -> S],
           \A i, j \in 1..m : i < j => rows[i].id <= rows[j].id
    PROVE  \E n \in 0..m :
              /\ Deduped(rows) \in [1..n -> S]
              /\ \A k \in 1..m : \E i \in 1..n : Deduped(rows)[i] = rows[k]
              /\ \A i \in 1..n : \E k \in 1..m : Deduped(rows)[i] = rows[k]
              /\ \A i, j \in 1..n : i < j => Deduped(rows)[i].id < Deduped(rows)[j].id
<1> DEFINE kept == {i \in 1..m : \A j \in 1..(i - 1) : rows[j].id # rows[i].id}
           n == Cardinality(kept)
           order == Arranged(kept, Earlier)
<1>1. kept \in SUBSET (1..m) OBVIOUS
<1>2. \A i \in 1..m : rows[i].id \in Nat BY SessionIDs
<1>3. ASSUME NEW k \in 1..m PROVE \E x \in kept : rows[x] = rows[k]
  <2> DEFINE T == {i \in 1..m : rows[i].id = rows[k].id}
  <2>1. T \in SUBSET (1..m) /\ T # {} OBVIOUS
  <2> HIDE DEF T
  <2>2. PICK x \in T : \A y \in T : ~(y < x) BY <2>1, FirstPosition
  <2>3. x \in 1..m /\ rows[x].id = rows[k].id BY <2>1 DEF T
  <2>4. \A j \in 1..(x - 1) : rows[j].id # rows[x].id
    <3>1. ASSUME NEW j \in 1..(x - 1), rows[j].id = rows[x].id PROVE FALSE
      <4>1. j \in 1..m /\ j < x BY <2>3
      <4>2. j \in T BY <2>3, <3>1, <4>1 DEF T
      <4> QED BY <2>2, <4>1, <4>2
    <3> QED BY <3>1
  <2>5. rows[x] = rows[k] BY <2>3 DEF UniqueIDs
  <2> QED BY <2>3, <2>4, <2>5
<1>4. ASSUME NEW x \in kept, NEW y \in kept, x < y PROVE rows[x].id < rows[y].id
  <2>1. x \in 1..m /\ y \in 1..m /\ x \in 1..(y - 1) BY <1>4
  <2>2. rows[x].id # rows[y].id BY <2>1
  <2>3. rows[x].id <= rows[y].id BY <2>1, <1>4
  <2> QED BY <1>2, <2>1, <2>2, <2>3
<1>5. Deduped(rows) = [i \in DOMAIN order |-> rows[order[i]]]
  BY DEF Deduped, Kept
<1> HIDE DEF kept
<1>6. IsFiniteSet(kept) /\ n \in 0..m
  <2>1. IsFiniteSet(1..m) /\ Cardinality(1..m) = m BY FS_Interval
  <2>2. IsFiniteSet(kept) /\ Cardinality(kept) <= Cardinality(1..m)
    BY <1>1, <2>1, FS_Subset, Zenon
  <2>3. n \in Nat BY <2>2, FS_CardinalityType
  <2> QED BY <2>1, <2>2, <2>3
<1>7. Orders(Earlier, kept) BY <1>1, PositionsOrdered
<1>8. /\ order \in [1..n -> kept]
      /\ \A x \in kept : \E i \in 1..n : order[i] = x
      /\ \A i, j \in 1..n : i < j => <<order[i], order[j]>> \in Earlier
  BY <1>6, <1>7, ArrangedFacts
<1> HIDE DEF order, n
<1>9. Deduped(rows) = [i \in 1..n |-> rows[order[i]]] BY <1>5, <1>8
<1>10. \A i \in 1..n : order[i] \in 1..m BY <1>1, <1>8
<1>11. Deduped(rows) \in [1..n -> S] BY <1>9, <1>10
<1>12. \A k \in 1..m : \E i \in 1..n : Deduped(rows)[i] = rows[k] BY <1>3, <1>8, <1>9
<1>13. \A i \in 1..n : \E k \in 1..m : Deduped(rows)[i] = rows[k] BY <1>9, <1>10
<1>14. ASSUME NEW i \in 1..n, NEW j \in 1..n, i < j
       PROVE  Deduped(rows)[i].id < Deduped(rows)[j].id
  <2>1. <<order[i], order[j]>> \in Earlier BY <1>8, <1>14
  <2>2. order[i] \in kept /\ order[j] \in kept /\ order[i] < order[j] BY <1>8, <2>1 DEF Earlier
  <2>3. rows[order[i]].id < rows[order[j]].id BY <1>4, <2>2
  <2> QED BY <1>9, <2>3
<1> QED BY <1>6, <1>11, <1>12, <1>13, <1>14

\* What is listed: the rows, each once and in the order of their IDs.
LEMMA SortedUniqueFacts ==
    ASSUME NEW S \in SUBSET Sessions, UniqueIDs(S), NEW m \in Nat, NEW rows \in [1..m -> S]
    PROVE  \E n \in 0..m :
              /\ SortedUnique(rows) \in [1..n -> S]
              /\ Ascending(SortedUnique(rows))
              /\ Range(SortedUnique(rows)) = Range(rows)
<1> DEFINE sorted == Sorted(rows)
           list_ == Deduped(sorted)
<1>1. /\ sorted \in [1..m -> S]
      /\ \A k \in 1..m : \E i \in 1..m : sorted[i] = rows[k]
      /\ \A i \in 1..m : \E k \in 1..m : sorted[i] = rows[k]
      /\ \A i, j \in 1..m : i < j => sorted[i].id <= sorted[j].id
  BY SortedFacts, Zenon
<1> HIDE DEF sorted
<1>2. PICK n \in 0..m :
        /\ list_ \in [1..n -> S]
        /\ \A k \in 1..m : \E i \in 1..n : list_[i] = sorted[k]
        /\ \A i \in 1..n : \E k \in 1..m : list_[i] = sorted[k]
        /\ \A i, j \in 1..n : i < j => list_[i].id < list_[j].id
  BY <1>1, DedupedFacts, Zenon
<1> HIDE DEF list_
<1>3. Ascending(list_) BY <1>2 DEF Ascending
<1>4. DOMAIN list_ = 1..n /\ DOMAIN rows = 1..m BY <1>2
<1>5. ASSUME NEW r \in Range(list_) PROVE r \in Range(rows)
  <2>1. PICK i \in 1..n : r = list_[i] BY <1>4 DEF Range
  <2>2. PICK k \in 1..m : r = rows[k] BY <1>1, <1>2, <2>1
  <2> QED BY <1>4, <2>2 DEF Range
<1>6. ASSUME NEW r \in Range(rows) PROVE r \in Range(list_)
  <2>1. PICK k \in 1..m : r = rows[k] BY <1>4 DEF Range
  <2>2. PICK j \in 1..m : sorted[j] = r BY <1>1, <2>1
  <2>3. PICK i \in 1..n : list_[i] = r BY <1>2, <2>2
  <2> QED BY <1>4, <2>3 DEF Range
<1>7. Range(list_) = Range(rows) BY <1>5, <1>6
<1>8. SortedUnique(rows) = list_ BY DEF SortedUnique, sorted, list_
<1> QED BY <1>2, <1>3, <1>7, <1>8

\* The rooms with a smaller ID than the i-th of an ascending list are the i - 1 before it.
LEMMA AscendingPosition ==
    ASSUME NEW S \in SUBSET Sessions, NEW n \in Nat, NEW s \in [1..n -> S], Ascending(s),
           NEW i \in 1..n
    PROVE  Cardinality({r \in Range(s) : r.id < s[i].id}) = i - 1
<1> DEFINE T == {r \in Range(s) : r.id < s[i].id}
           f == [j \in 1..(i - 1) |-> s[j]]
<1>1. \A j \in 1..n : s[j].id \in Nat BY SessionIDs
<1>2. \A j, k \in 1..n : j < k => s[j].id < s[k].id BY DEF Ascending
<1>3. ASSUME NEW j \in 1..(i - 1) PROVE s[j] \in T
  BY <1>2 DEF Range
<1>4. ASSUME NEW r \in T PROVE \E j \in 1..(i - 1) : s[j] = r
  <2>1. PICK j \in 1..n : r = s[j] BY DEF Range
  <2>2. s[j].id < s[i].id BY <2>1
  <2>3. ~(i < j) /\ i # j
    <3>1. s[j].id \in Nat /\ s[i].id \in Nat BY <1>1
    <3>2. i < j => s[i].id < s[j].id BY <1>2
    <3> QED BY <2>2, <3>1, <3>2
  <2>4. j \in 1..(i - 1) BY <2>3
  <2> QED BY <2>1, <2>4
<1>5. ASSUME NEW j \in 1..(i - 1), NEW k \in 1..(i - 1), s[j] = s[k] PROVE j = k
  <2>1. j \in 1..n /\ k \in 1..n OBVIOUS
  <2>2. s[j].id \in Nat BY <1>1, <2>1
  <2>3. ~(j < k) /\ ~(k < j) BY <1>2, <1>5, <2>1, <2>2
  <2> QED BY <2>1, <2>3
<1> HIDE DEF T
<1>6. f \in Bijection(1..(i - 1), T)
  <2>1. f \in [1..(i - 1) -> T] BY <1>3
  <2>2. IsInjective(f) BY <1>5 DEF IsInjective
  <2>3. \A r \in T : \E j \in 1..(i - 1) : f[j] = r BY <1>4
  <2> HIDE DEF f
  <2> QED BY <2>1, <2>2, <2>3, Zenon DEF Bijection, Injection, Surjection
<1>7. ExistsBijection(1..(i - 1), T) BY <1>6, Zenon DEF ExistsBijection
<1>8. i - 1 \in Nat OBVIOUS
<1>9. Cardinality(T) = i - 1 BY <1>7, <1>8, FS_CountingElements
<1> QED BY <1>9 DEF T

\* A set of rooms is listed in one way only.
LEMMA AscendingSame ==
    ASSUME NEW S \in SUBSET Sessions, NEW m \in Nat, NEW n \in Nat,
           NEW s \in [1..m -> S], NEW t \in [1..n -> S],
           Ascending(s), Ascending(t), Range(s) = Range(t)
    PROVE  s = t
<1>1. ASSUME NEW i \in 1..m PROVE i \in 1..n /\ t[i] = s[i]
  <2>1. s[i] \in Range(t) BY DEF Range
  <2>2. PICK j \in 1..n : t[j] = s[i] BY <2>1 DEF Range
  <2>3. Cardinality({r \in Range(s) : r.id < s[i].id}) = i - 1 BY AscendingPosition
  <2>4. Cardinality({r \in Range(t) : r.id < t[j].id}) = j - 1 BY AscendingPosition
  <2>5. i - 1 = j - 1 BY <2>2, <2>3, <2>4
  <2>6. i = j BY <2>5
  <2> QED BY <2>2, <2>6
<1>2. ASSUME NEW j \in 1..n PROVE j \in 1..m
  <2>1. t[j] \in Range(s) BY DEF Range
  <2>2. PICK i \in 1..m : s[i] = t[j] BY <2>1 DEF Range
  <2>3. Cardinality({r \in Range(s) : r.id < s[i].id}) = i - 1 BY AscendingPosition
  <2>4. Cardinality({r \in Range(t) : r.id < t[j].id}) = j - 1 BY AscendingPosition
  <2>5. i - 1 = j - 1 BY <2>2, <2>3, <2>4
  <2>6. i = j BY <2>5
  <2> QED BY <2>2, <2>6
<1>3. 1..m = 1..n BY <1>1, <1>2
<1>4. DOMAIN s = DOMAIN t BY <1>3
<1>5. s = [i \in 1..m |-> s[i]] /\ t = [i \in 1..m |-> t[i]] BY <1>3
<1> QED BY <1>1, <1>5

------------------------------------------------------------------------------
(* The list of rooms *)

\* What an answer says of the query it was made for
Answers(seq, q) ==
    /\ \E n \in Nat : seq \in [1..n -> q.sessions] /\ n <= q.size
    /\ Ascending(seq)
    /\ q.all => Range(seq) = {s \in q.sessions : Matches(s)}

\* A query that a session may have been found by
Asked(q) == q.sessions \in SUBSET Sessions /\ UniqueIDs(q.sessions)

BrowsingInv ==
    /\ sessions \in SUBSET Sessions /\ UniqueIDs(sessions)
    /\ Asked(query.now) /\ Answers(list, query.now)
    /\ Asked(query.last) /\ Answers(query.lastList, query.last)

\* There are no rooms and no answer yet.
LEMMA BrowsingInitInv == BrowsingInit => BrowsingInv
<1> SUFFICES ASSUME BrowsingInit PROVE BrowsingInv OBVIOUS
<1>1. /\ sessions = {} /\ list = <<>>
      /\ query.now = NoQuery /\ query.last = NoQuery /\ query.lastList = <<>>
  BY DEF BrowsingInit
<1>2. Asked(NoQuery) BY DEF Asked, NoQuery, UniqueIDs
<1>3. Answers(<<>>, NoQuery)
  <2>1. NoQuery.sessions = {} /\ NoQuery.size = 0 /\ NoQuery.all = FALSE BY DEF NoQuery
  <2>2. << >> \in [1..0 -> NoQuery.sessions] /\ 0 \in Nat /\ 0 <= 0 OBVIOUS
  <2>3. Ascending(<<>>) BY DEF Ascending
  <2> QED BY <2>1, <2>2, <2>3 DEF Answers
<1> QED BY <1>1, <1>2, <1>3 DEF BrowsingInv, UniqueIDs

\* A query answers with what it found.
LEMMA BrowseAnswers ==
    ASSUME BrowsingInv, NEW size \in Nat, Browse(size)
    PROVE  Asked(query.now)' /\ Answers(list, query.now)'
<1>1. PICK rows \in Rows(size) :
        /\ list' = SortedUnique(rows)
        /\ query' = [last |-> query.now, lastList |-> list,
                     now |-> [size |-> size, all |-> Range(rows) = Matching, sessions |-> sessions]]
        /\ UNCHANGED <<blanked, sessions, roomChanges>>
  BY DEF Browse
<1>2. /\ query'.now.sessions = sessions /\ query'.now.size = size
      /\ query'.now.all = (Range(rows) = Matching)
  BY <1>1
<1>3. PICK m \in 0..MaxRows : rows \in [1..m -> Matching] BY DEF Rows
<1>4. m \in Nat /\ m <= size
  <2>1. m \in Nat BY BrowsingAssumption
  <2>2. Len(rows) = m BY <1>3, <2>1
  <2>3. Len(rows) <= size BY <1>1 DEF Rows
  <2> QED BY <2>1, <2>2, <2>3
<1>5. /\ sessions \in SUBSET Sessions /\ UniqueIDs(sessions)
      /\ rows \in [1..m -> sessions]
  BY <1>3 DEF BrowsingInv, Matching
<1>6. PICK n \in 0..m :
        /\ list' \in [1..n -> sessions] /\ Ascending(list')
        /\ Range(list') = Range(rows)
  BY <1>1, <1>4, <1>5, SortedUniqueFacts
<1>7. n \in Nat /\ n <= m BY <1>4
<1>8. Ascending(list)' BY <1>6 DEF Ascending
<1>9. \A s : Matches(s)' <=> Matches(s) BY <1>1 DEF Matches
<1>10. Range(rows) = Matching => Range(list') = {s \in sessions : Matches(s)'}
  BY <1>6, <1>9 DEF Matching
<1>11. \E k \in Nat : list' \in [1..k -> query'.now.sessions] /\ k <= query'.now.size
  <2>1. n \in Nat /\ list' \in [1..n -> query'.now.sessions] /\ n <= query'.now.size
    <3>1. list' \in [1..n -> query'.now.sessions] BY <1>2, <1>6
    <3> QED BY <1>2, <1>4, <1>7, <3>1
  <2> QED BY <2>1
<1> QED BY <1>2, <1>5, <1>8, <1>10, <1>11 DEF Asked, Answers, UniqueIDs

\* Rooms that come and go and browseMatchmakeSessionStable keep BrowsingInv.
LEMMA BrowsingNextInv == BrowsingInv /\ [BrowsingNext]_bvars => BrowsingInv'
<1> SUFFICES ASSUME BrowsingInv, [BrowsingNext]_bvars PROVE BrowsingInv' OBVIOUS
<1>a. ASSUME UNCHANGED <<blanked, list, query>>
      PROVE  /\ Asked(query.now)' /\ Answers(list, query.now)'
             /\ Asked(query.last)' /\ Answers(query.lastList, query.last)'
  BY <1>a DEF BrowsingInv, Asked, Answers, Matches, Ascending, UniqueIDs
<1>1. ASSUME NEW id \in GatheringIDs, NEW locked \in BOOLEAN, MakeSession(id, locked)
      PROVE  BrowsingInv'
  <2>1. /\ \A s \in sessions : s.id # id
        /\ sessions' = sessions \cup {[id |-> id, locked |-> locked]}
        /\ UNCHANGED <<blanked, list, query>>
    BY <1>1 DEF MakeSession, ChangeRooms
  <2>2. sessions \in SUBSET Sessions /\ UniqueIDs(sessions) BY DEF BrowsingInv
  <2>3. sessions' \in SUBSET Sessions BY <2>1, <2>2 DEF Sessions
  <2>4. UniqueIDs(sessions') BY <2>1, <2>2 DEF UniqueIDs
  <2> QED BY <1>a, <2>1, <2>3, <2>4 DEF BrowsingInv, UniqueIDs
<1>2. ASSUME NEW s \in sessions, CloseSession(s) PROVE BrowsingInv'
  <2>1. sessions' = sessions \ {s} /\ UNCHANGED <<blanked, list, query>>
    BY <1>2 DEF CloseSession, ChangeRooms
  <2>2. sessions' \in SUBSET Sessions /\ UniqueIDs(sessions')
    BY <2>1 DEF BrowsingInv, UniqueIDs
  <2> QED BY <1>a, <2>1, <2>2 DEF BrowsingInv, UniqueIDs
<1>3. ASSUME NEW size \in AskedFor, Browse(size) PROVE BrowsingInv'
  <2>1. Asked(query.now)' /\ Answers(list, query.now)'
    BY <1>3, BrowseAnswers, BrowsingAssumption
  <2>2. query'.last = query.now /\ query'.lastList = list /\ UNCHANGED <<blanked, sessions>>
    BY <1>3 DEF Browse
  <2>3. Asked(query.last)' /\ Answers(query.lastList, query.last)'
    BY <2>2 DEF BrowsingInv, Asked, Answers, Matches, Ascending, UniqueIDs
  <2> QED BY <2>1, <2>2, <2>3 DEF BrowsingInv, UniqueIDs
<1>4. CASE UNCHANGED bvars
  <2>1. UNCHANGED <<blanked, list, query, sessions>> BY <1>4 DEF bvars
  <2> QED BY <1>a, <2>1 DEF BrowsingInv, UniqueIDs
<1> QED BY <1>1, <1>2, <1>3, <1>4 DEF BrowsingNext

\* An ascending list has no room twice.
LEMMA AscendingInjective ==
    ASSUME NEW S \in SUBSET Sessions, NEW n \in Nat, NEW seq \in [1..n -> S], Ascending(seq)
    PROVE  IsInjective(seq)
<1> SUFFICES ASSUME NEW i \in 1..n, NEW j \in 1..n, seq[i] = seq[j], i # j PROVE FALSE
  BY DEF IsInjective
<1>1. seq[i].id \in Nat BY SessionIDs
<1>2. i < j \/ j < i OBVIOUS
<1> QED BY <1>1, <1>2 DEF Ascending

\* browseMatchmakeSessionStable: for any rooms and rows of the query, the console is never
\* sent more rooms than it asked for nor one twice, and locked rooms are listed.
THEOREM ListFitsAlways == BrowsingSpec => []ListFits
<1>1. BrowsingInv => ListFits
  <2> SUFFICES ASSUME BrowsingInv PROVE ListFits OBVIOUS
  <2>1. /\ query.now.sessions \in SUBSET Sessions /\ Ascending(list)
        /\ query.now.all => Range(list) = {s \in query.now.sessions : Matches(s)}
    BY DEF BrowsingInv, Asked, Answers
  <2>2. PICK n \in Nat : list \in [1..n -> query.now.sessions] /\ n <= query.now.size
    BY DEF BrowsingInv, Answers
  <2>3. Len(list) <= query.now.size BY <2>2
  <2>4. IsInjective(list) BY <2>1, <2>2, AscendingInjective
  <2>5. query.now.all /\ blanked => Range(list) = query.now.sessions
    BY <2>1 DEF Matches
  <2> QED BY <2>3, <2>4, <2>5 DEF ListFits
<1> QED BY <1>1, BrowsingInitInv, BrowsingNextInv, PTL DEF BrowsingSpec

\* browseMatchmakeSessionStable: two queries of the same rooms are answered with the same
\* list, in whatever order and how often the database returns the rows.
THEOREM BrowseStableAlways == BrowsingSpec => []BrowseStable
<1>1. BrowsingInv => BrowseStable
  <2> SUFFICES ASSUME BrowsingInv, query.now.sessions = query.last.sessions,
                      query.now.all, query.last.all
               PROVE  list = query.lastList
    BY DEF BrowseStable
  <2> DEFINE S == query.now.sessions
  <2>1. /\ S \in SUBSET Sessions /\ Ascending(list) /\ Ascending(query.lastList)
        /\ Range(list) = Range(query.lastList)
    BY DEF BrowsingInv, Asked, Answers
  <2>2. PICK m \in Nat : list \in [1..m -> S] BY DEF BrowsingInv, Answers
  <2>3. PICK n \in Nat : query.lastList \in [1..n -> S] BY DEF BrowsingInv, Answers
  <2> QED BY <2>1, <2>2, <2>3, AscendingSame
<1> QED BY <1>1, BrowsingInitInv, BrowsingNextInv, PTL DEF BrowsingSpec

------------------------------------------------------------------------------
(* Station URLs *)

\* The parameters of a URL are a map from names to values.
IsMap(m) == m = [name \in DOMAIN m |-> m[name]]

\* The URL the relay shows for the host: the host's, or with the relay's address and port
Shown == SetIn(SetIn(heap[1], "address", Text("relay")), "port", Digits(7000))

\* What the joiner reads of a URL that can be written
ReadBack ==
    /\ peer.type = ru.type
    /\ \A name \in DOMAIN heap[5] : name \in DOMAIN heap[3] /\ heap[3][name] = heap[5][name]
    /\ NumberParamValue(heap[5], "type", 8) # <<>> =>
          peer.flags = NumberParamValue(heap[5], "type", 8)[1]

\* Where the maps are: no two URLs share one.
Placed ==
    /\ IsMap(heap) /\ DOMAIN heap = 1..(IF phase = "register" THEN 4 ELSE 6)
    /\ host.std = 1 /\ host.custom = 2 /\ peer.std = 3 /\ peer.custom = 4
    /\ host = [type |-> host.type, text |-> host.text, flags |-> host.flags,
               std |-> host.std, custom |-> host.custom]
    /\ peer = [type |-> peer.type, text |-> peer.text, flags |-> peer.flags,
               std |-> peer.std, custom |-> peer.custom]
    /\ phase # "register" => ru.std = 5 /\ ru.custom = 6
    /\ phase \in {"register", "copied", "rewritten", "sent", "read"}

URLInv ==
    /\ Placed
    /\ IsMap(heap[1]) /\ IsMap(heap[2])
    /\ phase # "register" /\ Speakable(host) =>
          /\ ru.type = host.type
          /\ heap[6] = heap[2]
          /\ heap[5] \in {heap[1], Shown}
          /\ phase = "copied" => heap[5] = heap[1]
          /\ IsMap(heap[5])
    /\ phase = "sent" => text \in Formats(ru)
    /\ phase = "read" /\ Speakable(host) /\ Speakable(ru) => ReadBack

\* SetParamValue leaves a map.
LEMMA SetInFacts ==
    ASSUME NEW m, NEW name, NEW value
    PROVE  /\ IsMap(SetIn(m, name, value))
           /\ DOMAIN SetIn(m, name, value) = DOMAIN m \cup {name}
           /\ SetIn(m, name, value)[name] = value
           /\ \A other \in DOMAIN m : other # name => SetIn(m, name, value)[other] = m[other]
BY DEF SetIn, IsMap

\* Parse reads of a listing what was in the map it lists, and keeps what else there was.
LEMMA SetAllListing ==
    ASSUME NEW params, NEW m, NEW fields \in Listings(m)
    PROVE  /\ DOMAIN SetAll(params, fields) = DOMAIN params \cup DOMAIN m
           /\ \A name \in DOMAIN m : SetAll(params, fields)[name] = m[name]
           /\ IsMap(SetAll(params, fields))
<1>1. PICK o \in Bijection(1..Cardinality(DOMAIN m), DOMAIN m) :
         fields = [i \in DOMAIN o |-> <<o[i], m[o[i]]>>]
  BY DEF Listings
<1> DEFINE N == 1..Cardinality(DOMAIN m)
           names == {fields[i][1] : i \in DOMAIN fields}
           Latest(name) == CHOOSE i \in DOMAIN fields :
                             /\ fields[i][1] = name
                             /\ \A j \in DOMAIN fields : fields[j][1] = name => j <= i
<1>2. /\ o \in [N -> DOMAIN m]
      /\ \A a, b \in N : o[a] = o[b] => a = b
      /\ \A name \in DOMAIN m : \E i \in N : o[i] = name
  BY DEF Bijection, Injection, Surjection, IsInjective
<1>3. N \subseteq Int OBVIOUS
<1> HIDE DEF N
<1>4. DOMAIN fields = N /\ \A i \in N : fields[i] = <<o[i], m[o[i]]>>
  BY <1>1, <1>2
<1>a. \A i \in DOMAIN fields : fields[i][1] = o[i] /\ fields[i][2] = m[o[i]] BY <1>4
<1>5. names = DOMAIN m
  <2>1. names = {o[i] : i \in DOMAIN fields} BY <1>a
  <2> HIDE DEF names
  <2>2. \A x : x \in names <=> x \in DOMAIN m BY <1>2, <1>4, <2>1
  <2> QED BY <2>2
<1>6. ASSUME NEW name \in DOMAIN m PROVE fields[Latest(name)][2] = m[name]
  <2>1. PICK i \in N : o[i] = name BY <1>2
  <2>2. i \in DOMAIN fields /\ fields[i][1] = name BY <2>1, <1>4
  <2>3. \A j \in DOMAIN fields : fields[j][1] = name => j = i BY <1>2, <1>4, <2>1
  <2>4. i <= i BY <1>3
  <2>5. Latest(name) = i BY <2>2, <2>3, <2>4
  <2> HIDE DEF Latest
  <2> QED BY <2>5, <2>1, <2>2, <1>a
<1>7. SetAll(params, fields) =
        [name \in DOMAIN params \cup names |->
            IF name \in names THEN fields[Latest(name)][2] ELSE params[name]]
  BY DEF SetAll
<1> HIDE DEF names, Latest
<1> QED BY <1>5, <1>6, <1>7 DEF IsMap

\* A listing is empty when the map is, and lists nothing that is refused if the map has not.
LEMMA ListingFacts ==
    ASSUME NEW m, NEW fields \in Listings(m)
    PROVE  /\ fields = <<>> => DOMAIN m = {}
           /\ DOMAIN m = {} => fields = <<>>
           /\ (\A name \in DOMAIN m : ~BadParam(name, m[name])) => Accepted(fields) = fields
<1>1. PICK o \in Bijection(1..Cardinality(DOMAIN m), DOMAIN m) :
         fields = [i \in DOMAIN o |-> <<o[i], m[o[i]]>>]
  BY DEF Listings
<1> DEFINE N == 1..Cardinality(DOMAIN m)
<1>2. /\ o \in [N -> DOMAIN m]
      /\ \A name \in DOMAIN m : \E i \in N : o[i] = name
  BY DEF Bijection, Injection, Surjection, IsInjective
<1> HIDE DEF N
<1>3. fields = [i \in N |-> <<o[i], m[o[i]]>>] BY <1>1, <1>2
<1>4. fields = <<>> => DOMAIN m = {} BY <1>2, <1>3
<1>5. ASSUME DOMAIN m = {} PROVE fields = <<>>
  <2>1. N = {} BY <1>2, <1>5
  <2> QED BY <2>1, <1>3
<1>6. ASSUME \A name \in DOMAIN m : ~BadParam(name, m[name]) PROVE Accepted(fields) = fields
  <2>1. \A i \in DOMAIN fields : ~BadParam(fields[i][1], fields[i][2]) BY <1>2, <1>3, <1>6
  <2> QED BY <2>1 DEF Accepted
<1> QED BY <1>4, <1>5, <1>6

\* A map without names is the empty one.
LEMMA EmptyMap ==
    /\ IsMap(Empty) /\ DOMAIN Empty = {}
    /\ \A m : IsMap(m) /\ DOMAIN m = {} => m = Empty
BY DEF IsMap, Empty

\* p, read into a variable that held std and custom, has the type, the parameters and
\* the flags of the URL u.
ReadsAs(p, u, std, custom) ==
    /\ p.type = u.type
    /\ IsMap(p.std)
    /\ DOMAIN p.std = DOMAIN std \cup DOMAIN heap[u.std]
    /\ \A name \in DOMAIN heap[u.std] : p.std[name] = heap[u.std][name]
    /\ custom = Empty => p.custom = heap[u.custom]
    /\ NumberParamValue(heap[u.std], "type", 8) # <<>> =>
          p.flags = NumberParamValue(heap[u.std], "type", 8)[1]

\* Parse after Format: the URL's own parameters and flags, whatever the variable held.
LEMMA ParseFormatted ==
    ASSUME NEW u, IsMap(heap[u.std]), IsMap(heap[u.custom]), Speakable(u),
           NEW t \in Formats(u), NEW v, NEW std, NEW custom
    PROVE  ReadsAs(Parsed(v, std, custom, t), u, std, custom)
<1> DEFINE p == Parsed(v, std, custom, t)
           S == heap[u.std]
           C == heap[u.custom]
<1>1. ~Refused(S, C) /\ u.type \in Schemes /\ (S # Empty \/ C = Empty) BY DEF Speakable
<1>2. PICK s \in Listings(S), c \in Listings(C) : t = Written(u.type, s, c)
  BY <1>1 DEF Formats
<1>3. /\ s = <<>> <=> DOMAIN S = {}
      /\ c = <<>> <=> DOMAIN C = {}
      /\ Accepted(s) = s
  BY <1>1, ListingFacts DEF Refused
<1>4. s = <<>> => S = Empty /\ C = Empty /\ c = <<>>
  BY <1>1, <1>3, EmptyMap
<1>5. t.scheme = u.type /\ t.std = s /\ t.custom = c BY <1>2, <1>4 DEF Written
<1>6. /\ DOMAIN SetAll(std, s) = DOMAIN std \cup DOMAIN S
      /\ \A name \in DOMAIN S : SetAll(std, s)[name] = S[name]
      /\ IsMap(SetAll(std, s))
  BY SetAllListing
<1>7. ASSUME custom = Empty PROVE SetAll(custom, c) = C
  <2>1. /\ DOMAIN SetAll(custom, c) = DOMAIN custom \cup DOMAIN C
        /\ \A name \in DOMAIN C : SetAll(custom, c)[name] = C[name]
        /\ IsMap(SetAll(custom, c))
    BY SetAllListing
  <2>2. DOMAIN SetAll(custom, c) = DOMAIN C BY <2>1, <1>7, EmptyMap
  <2> QED BY <2>1, <2>2 DEF IsMap
<1> DEFINE whole == s # <<>> \/ c # <<>>
           flags == NumberParamValue(SetAll(std, s), "type", 8)
<1>8. /\ p.type = u.type
      /\ p.std = SetAll(std, s)
      /\ p.custom = IF whole THEN SetAll(custom, c) ELSE custom
      /\ p.flags = IF whole /\ flags # <<>> THEN flags[1] ELSE v.flags
  BY <1>1, <1>3, <1>5 DEF Parsed
<1>9. ASSUME custom = Empty PROVE p.custom = C
  BY <1>4, <1>7, <1>8, <1>9
<1>10. ASSUME NumberParamValue(S, "type", 8) # <<>>
       PROVE  p.flags = NumberParamValue(S, "type", 8)[1]
  <2>1. "type" \in DOMAIN S BY <1>10 DEF NumberParamValue
  <2>2. "type" \in DOMAIN SetAll(std, s) /\ SetAll(std, s)["type"] = S["type"]
    BY <2>1, <1>6
  <2>3. flags = NumberParamValue(S, "type", 8) BY <2>1, <2>2 DEF NumberParamValue
  <2>4. whole BY <2>1, <1>3
  <2> QED BY <2>3, <2>4, <1>8, <1>10
<1> HIDE DEF p
<1>11. /\ p.type = u.type
       /\ IsMap(p.std)
       /\ DOMAIN p.std = DOMAIN std \cup DOMAIN S
       /\ \A name \in DOMAIN S : p.std[name] = S[name]
  BY <1>6, <1>8
<1>12. ReadsAs(p, u, std, custom) BY <1>9, <1>10, <1>11 DEF ReadsAs
<1> QED BY <1>12 DEF p

\* A getter sees of the map only whether its name is there, and its value.
LEMMA GetterSame ==
    ASSUME NEW m, NEW n, NEW name,
           name \in DOMAIN m <=> name \in DOMAIN n,
           name \in DOMAIN m => m[name] = n[name]
    PROVE  Getter(m, name) = Getter(n, name)
<1>1. \A bits : NumberParamValue(m, name, bits) = NumberParamValue(n, name, bits)
  BY DEF NumberParamValue
<1> QED BY <1>1 DEF Getter

\* Parse leaves maps.
LEMMA ParsedMaps ==
    ASSUME NEW u, NEW std, NEW custom, NEW t, IsMap(std), IsMap(custom)
    PROVE  IsMap(Parsed(u, std, custom, t).std) /\ IsMap(Parsed(u, std, custom, t).custom)
<1>1. \A params, fields : IsMap(SetAll(params, fields)) BY DEF SetAll, IsMap
<1> QED BY <1>1 DEF Parsed

\* The URLs as the clients registered them.
LEMMA URLInitInv == UInit => URLInv
<1> SUFFICES ASSUME UInit PROVE URLInv OBVIOUS
<1> DEFINE blank == [type |-> "none", flags |-> 0]
<1>1. PICK t \in Texts, used \in {NoText} \cup Texts :
        LET p == Parsed(blank, Empty, Empty, t)
            q == Parsed(blank, Empty, Empty, used)
        IN  /\ heap = <<p.std, p.custom, q.std, q.custom>>
            /\ host = [type |-> p.type, text |-> t, flags |-> p.flags, std |-> 1, custom |-> 2]
            /\ peer = [type |-> q.type, text |-> used, flags |-> q.flags, std |-> 3, custom |-> 4]
            /\ phase = "register"
  BY DEF UInit
<1> DEFINE p == Parsed(blank, Empty, Empty, t)
           q == Parsed(blank, Empty, Empty, used)
<1>2. IsMap(p.std) /\ IsMap(p.custom) BY ParsedMaps, EmptyMap
<1>3. /\ heap = <<p.std, p.custom, q.std, q.custom>>
      /\ host = [type |-> p.type, text |-> t, flags |-> p.flags, std |-> 1, custom |-> 2]
      /\ peer = [type |-> q.type, text |-> used, flags |-> q.flags, std |-> 3, custom |-> 4]
      /\ phase = "register"
  BY <1>1
<1> HIDE DEF p, q
<1>4. IsMap(heap) /\ DOMAIN heap = 1..4 BY <1>3 DEF IsMap
<1>5. Placed BY <1>3, <1>4 DEF Placed
<1>6. heap[1] = p.std /\ heap[2] = p.custom BY <1>3
<1> QED BY <1>2, <1>3, <1>5, <1>6 DEF URLInv

\* While a URL is registered, nothing is said of the copy.
LEMMA RegisterStep ==
    ASSUME URLInv, phase = "register", phase' = "register", UNCHANGED <<ru, peer, text>>,
           IsMap(heap') , DOMAIN heap' = DOMAIN heap, IsMap(heap'[1]), heap'[2] = heap[2],
           NEW type, NEW flags, host' = [host EXCEPT !.type = type, !.flags = flags]
    PROVE  URLInv'
<1>1. Placed' BY DEF URLInv, Placed
<1> QED BY <1>1 DEF URLInv

\* SetParamValue, RemoveParam, SetURLType and SetType on the host's URL keep URLInv.
LEMMA EditInv ==
    ASSUME URLInv,
           \/ \E e \in Edits : Edit(e[1], e[2])
           \/ \E type \in {"none", "prudps"} : SetURLType(type)
           \/ \E flags \in {0, 3} : EditType(flags)
    PROVE  URLInv'
<1>0. /\ IsMap(heap) /\ host.std = 1
      /\ host = [type |-> host.type, text |-> host.text, flags |-> host.flags,
                 std |-> host.std, custom |-> host.custom]
      /\ phase = "register" => DOMAIN heap = 1..4
      /\ IsMap(heap[1])
  BY DEF URLInv, Placed
<1>a. ASSUME NEW m, IsMap(m), phase = "register", heap' = [heap EXCEPT ![1] = m]
      PROVE  IsMap(heap') /\ DOMAIN heap' = DOMAIN heap /\ IsMap(heap'[1]) /\ heap'[2] = heap[2]
  <2>1. DOMAIN heap' = DOMAIN heap BY <1>a
  <2>2. heap'[1] = m /\ heap'[2] = heap[2] BY <1>0, <1>a
  <2>3. IsMap(heap') BY <1>a DEF IsMap
  <2> QED BY <1>a, <2>1, <2>2, <2>3
<1>1. ASSUME NEW e \in Edits, Edit(e[1], e[2]) PROVE URLInv'
  <2> DEFINE name == e[1]
             value == e[2]
             m == IF value = <<>> THEN [n \in DOMAIN heap[1] \ {name} |-> heap[1][n]]
                  ELSE SetIn(heap[1], name, value)
  <2>1. /\ phase = "register" /\ phase' = "register" /\ UNCHANGED <<ru, peer, text, host>>
        /\ heap' = [heap EXCEPT ![1] = m]
    BY <1>0, <1>1 DEF Edit
  <2>2. IsMap(m)
    <3>1. CASE value = <<>> BY <3>1 DEF IsMap
    <3>2. CASE value # <<>>
      <4>1. m = SetIn(heap[1], name, value) BY <3>2
      <4> HIDE DEF m
      <4> QED BY <4>1, SetInFacts
    <3> QED BY <3>1, <3>2
  <2> HIDE DEF m
  <2>3. host' = [host EXCEPT !.type = host.type, !.flags = host.flags] BY <2>1, <1>0
  <2> QED BY <1>a, <2>1, <2>2, <2>3, RegisterStep
<1>2. ASSUME NEW type \in {"none", "prudps"}, SetURLType(type) PROVE URLInv'
  <2>1. /\ phase = "register" /\ phase' = "register" /\ UNCHANGED <<ru, peer, text, heap>>
        /\ host' = [host EXCEPT !.type = type]
    BY <1>2 DEF SetURLType
  <2>2. host' = [host EXCEPT !.type = type, !.flags = host.flags] BY <2>1, <1>0
  <2> QED BY <1>0, <2>1, <2>2, RegisterStep
<1>3. ASSUME NEW flags \in {0, 3}, EditType(flags) PROVE URLInv'
  <2> DEFINE m == SetIn(heap[1], "type", Digits(flags))
  <2>1. /\ phase = "register" /\ phase' = "register" /\ UNCHANGED <<ru, peer, text>>
        /\ heap' = [heap EXCEPT ![1] = m]
        /\ host' = [host EXCEPT !.flags = flags]
    BY <1>0, <1>3 DEF EditType, SetType
  <2>2. IsMap(m) BY SetInFacts
  <2> HIDE DEF m
  <2>3. host' = [host EXCEPT !.type = host.type, !.flags = flags] BY <2>1, <1>0
  <2> QED BY <1>a, <2>1, <2>2, <2>3, RegisterStep
<1> QED BY <1>1, <1>2, <1>3

\* StationURL.Copy, which formats the URL and parses the text, keeps URLInv.
LEMMA CopyInv == URLInv /\ CopyHost => URLInv'
<1> SUFFICES ASSUME URLInv, CopyHost PROVE URLInv' OBVIOUS
<1>0. /\ IsMap(heap) /\ DOMAIN heap = 1..4 /\ IsMap(heap[1]) /\ IsMap(heap[2])
      /\ host.std = 1 /\ host.custom = 2
      /\ phase' = "copied" /\ UNCHANGED <<host, peer, text>>
  BY DEF URLInv, Placed, CopyHost
<1>1. PICK t \in Formats(host) : ru' = CopyURL(host, t)[1] /\ heap' = CopyURL(host, t)[2]
  BY DEF CopyHost
<1> DEFINE blank == [type |-> "none", flags |-> 0]
           p == Parsed(blank, Empty, Empty, t)
           n == Cardinality(DOMAIN heap)
<1>a. n = 4 /\ n + 1 = 5 /\ n + 2 = 6
  <2>1. n = 4
    <3>1. PICK b \in Nat : b = 4 OBVIOUS
    <3>2. \A k \in Nat : k >= 1 => Cardinality(1..k) = k BY FS_Interval
    <3>3. b >= 1 BY <3>1
    <3>4. Cardinality(1..b) = b BY <3>2, <3>3, Zenon
    <3> QED BY <1>0, <3>1, <3>4
  <2> HIDE DEF n
  <2> QED BY <2>1
<1>2. /\ ru' = [type |-> p.type, text |-> t, flags |-> p.flags, std |-> n + 1, custom |-> n + 2]
      /\ heap' = [r \in DOMAIN heap \cup {n + 1, n + 2} |->
                    IF r = n + 1 THEN p.std ELSE IF r = n + 2 THEN p.custom ELSE heap[r]]
  BY <1>1 DEF CopyURL
<1> HIDE DEF n
<1>3. Speakable(host) =>
        /\ p.type = host.type /\ IsMap(p.std)
        /\ DOMAIN p.std = DOMAIN Empty \cup DOMAIN heap[1]
        /\ \A name \in DOMAIN heap[1] : p.std[name] = heap[1][name]
        /\ p.custom = heap[2]
  <2> SUFFICES ASSUME Speakable(host)
               PROVE  /\ p.type = host.type /\ IsMap(p.std)
                      /\ DOMAIN p.std = DOMAIN Empty \cup DOMAIN heap[1]
                      /\ \A name \in DOMAIN heap[1] : p.std[name] = heap[1][name]
                      /\ p.custom = heap[2]
    OBVIOUS
  <2>1. IsMap(heap[host.std]) /\ IsMap(heap[host.custom]) BY <1>0
  <2>2. ReadsAs(p, host, Empty, Empty)
    <3> HIDE DEF blank
    <3> QED BY <1>1, <2>1, ParseFormatted, Zenon
  <2> HIDE DEF p
  <2> QED BY <1>0, <2>2 DEF ReadsAs
<1> HIDE DEF p
<1>4. heap' = [r \in 1..6 |-> IF r = 5 THEN p.std ELSE IF r = 6 THEN p.custom ELSE heap[r]]
  <2>1. DOMAIN heap \cup {5, 6} = 1..6 BY <1>0
  <2> QED BY <1>a, <1>2, <2>1
<1>6. /\ \A r \in 1..4 : heap'[r] = heap[r]
      /\ heap'[5] = p.std /\ heap'[6] = p.custom
  BY <1>4
<1>7. IsMap(heap') /\ DOMAIN heap' = 1..6 BY <1>4 DEF IsMap
<1>8. ru'.std = 5 /\ ru'.custom = 6 /\ ru'.type = p.type BY <1>2, <1>a
<1>9. Placed' BY <1>0, <1>7, <1>8 DEF URLInv, Placed
<1>10. heap'[1] = heap[1] /\ heap'[2] = heap[2] BY <1>6
<1>11. Speakable(host)' => Speakable(host) BY <1>0, <1>10 DEF Speakable
<1>12. Speakable(host) => p.std = heap[1]
  <2> SUFFICES ASSUME Speakable(host) PROVE p.std = heap[1] OBVIOUS
  <2>1. DOMAIN p.std = DOMAIN heap[1] BY <1>3, EmptyMap
  <2> QED BY <2>1, <1>0, <1>3 DEF IsMap
<1> QED BY <1>0, <1>3, <1>6, <1>8, <1>9, <1>10, <1>11, <1>12 DEF URLInv

\* SetAddress and SetPortNumber on the relay's copy keep URLInv.
LEMMA RewriteInv == URLInv /\ Rewrite => URLInv'
<1> SUFFICES ASSUME URLInv, Rewrite PROVE URLInv' OBVIOUS
<1>0. /\ IsMap(heap) /\ DOMAIN heap = 1..6 /\ IsMap(heap[1]) /\ IsMap(heap[2])
      /\ host.std = 1 /\ host.custom = 2 /\ ru.std = 5 /\ ru.custom = 6
      /\ phase = "copied" /\ phase' = "rewritten" /\ UNCHANGED <<host, peer, text, ru>>
  BY DEF URLInv, Placed, Rewrite
<1> DEFINE m == SetIn(SetIn(heap[5], "address", Text("relay")), "port", Digits(7000))
<1>1. heap' = [heap EXCEPT ![5] = m] \/ heap' = heap BY <1>0 DEF Rewrite
<1>2. IsMap(m) BY DEF SetIn, IsMap
<1>3. heap[5] = heap[1] => m = Shown BY DEF Shown
<1> HIDE DEF m
<1>4. /\ DOMAIN heap' = 1..6
      /\ \A r \in 1..6 : r # 5 => heap'[r] = heap[r]
      /\ heap'[5] \in {heap[5], m}
  BY <1>0, <1>1
<1>5. IsMap(heap') BY <1>0, <1>1 DEF IsMap
<1>6. Placed' BY <1>0, <1>4, <1>5 DEF URLInv, Placed
<1>7. heap'[1] = heap[1] /\ heap'[2] = heap[2] /\ heap'[6] = heap[6] BY <1>4
<1>8. Speakable(host)' => Speakable(host) BY <1>0, <1>7 DEF Speakable
<1>9. Shown' = Shown BY <1>7 DEF Shown
<1>10. Speakable(host) => /\ ru.type = host.type /\ heap[6] = heap[2]
                          /\ heap[5] = heap[1]
  BY <1>0 DEF URLInv
<1>11. ASSUME Speakable(host)' PROVE heap'[5] \in {heap'[1], Shown'} /\ IsMap(heap'[5])
  BY <1>0, <1>2, <1>3, <1>4, <1>7, <1>8, <1>9, <1>10, <1>11
<1> QED BY <1>0, <1>6, <1>7, <1>8, <1>10, <1>11 DEF URLInv

\* WriteTo keeps URLInv.
LEMMA SendInv == URLInv /\ SendURL => URLInv'
<1> SUFFICES ASSUME URLInv, SendURL PROVE URLInv' OBVIOUS
<1>0. /\ phase = "rewritten" /\ phase' = "sent" /\ UNCHANGED <<heap, host, ru, peer>>
      /\ text' \in Formats(ru)
  BY DEF SendURL
<1>1. Placed' BY <1>0 DEF URLInv, Placed
<1>2. Formats(ru)' = Formats(ru) /\ Shown' = Shown BY <1>0 DEF Formats, Shown
<1>3. Speakable(host)' => Speakable(host) BY <1>0 DEF Speakable
<1> QED BY <1>0, <1>1, <1>2, <1>3 DEF URLInv

\* ExtractFrom into the joiner's variable keeps URLInv.
LEMMA ReadInv == URLInv /\ ReadURL => URLInv'
<1> SUFFICES ASSUME URLInv, ReadURL PROVE URLInv' OBVIOUS
<1>0. /\ IsMap(heap) /\ DOMAIN heap = 1..6 /\ IsMap(heap[1]) /\ IsMap(heap[2])
      /\ host.std = 1 /\ host.custom = 2 /\ ru.std = 5 /\ ru.custom = 6
      /\ peer.std = 3 /\ peer.custom = 4
      /\ peer = [type |-> peer.type, text |-> peer.text, flags |-> peer.flags,
                 std |-> peer.std, custom |-> peer.custom]
      /\ phase = "sent" /\ phase' = "read" /\ UNCHANGED <<host, ru, text>>
      /\ text \in Formats(ru)
  BY DEF URLInv, Placed, ReadURL
<1> DEFINE p == Parsed(peer, heap[3], heap[4], text)
<1>1. /\ peer' = [peer EXCEPT !.type = p.type, !.flags = p.flags, !.text = text]
      /\ heap' = [heap EXCEPT ![3] = p.std, ![4] = p.custom]
  BY <1>0 DEF ReadURL
<1>2. Speakable(host) =>
        /\ ru.type = host.type /\ heap[6] = heap[2]
        /\ heap[5] \in {heap[1], Shown} /\ IsMap(heap[5])
  BY <1>0 DEF URLInv
<1>3. Speakable(host) /\ Speakable(ru) =>
        /\ p.type = ru.type
        /\ DOMAIN p.std = DOMAIN heap[3] \cup DOMAIN heap[5]
        /\ \A name \in DOMAIN heap[5] : p.std[name] = heap[5][name]
        /\ NumberParamValue(heap[5], "type", 8) # <<>> =>
              p.flags = NumberParamValue(heap[5], "type", 8)[1]
  <2> SUFFICES ASSUME Speakable(host), Speakable(ru)
               PROVE  /\ p.type = ru.type
                      /\ DOMAIN p.std = DOMAIN heap[3] \cup DOMAIN heap[5]
                      /\ \A name \in DOMAIN heap[5] : p.std[name] = heap[5][name]
                      /\ NumberParamValue(heap[5], "type", 8) # <<>> =>
                            p.flags = NumberParamValue(heap[5], "type", 8)[1]
    OBVIOUS
  <2>1. IsMap(heap[ru.std]) /\ IsMap(heap[ru.custom]) BY <1>0, <1>2
  <2>2. ReadsAs(p, ru, heap[3], heap[4]) BY <1>0, <2>1, ParseFormatted, Zenon
  <2> HIDE DEF p
  <2> QED BY <1>0, <2>2 DEF ReadsAs
<1> HIDE DEF p
<1>4. /\ heap'[1] = heap[1] /\ heap'[2] = heap[2] /\ heap'[5] = heap[5] /\ heap'[6] = heap[6]
      /\ heap'[3] = p.std /\ DOMAIN heap' = 1..6
  BY <1>0, <1>1
<1>5. IsMap(heap') BY <1>1 DEF IsMap
<1>6. /\ peer'.type = p.type /\ peer'.flags = p.flags /\ peer'.std = 3 /\ peer'.custom = 4
      /\ peer' = [type |-> peer'.type, text |-> peer'.text, flags |-> peer'.flags,
                  std |-> peer'.std, custom |-> peer'.custom]
  BY <1>0, <1>1
<1>7. Placed' BY <1>0, <1>4, <1>5, <1>6 DEF URLInv, Placed
<1>8. /\ Speakable(host)' => Speakable(host)
      /\ Speakable(ru)' => Speakable(ru)
  BY <1>0, <1>4 DEF Speakable
<1>9. Shown' = Shown BY <1>4 DEF Shown
<1>10. ASSUME Speakable(host)', Speakable(ru)' PROVE ReadBack'
  <2>1. /\ p.type = ru.type
        /\ DOMAIN p.std = DOMAIN heap[3] \cup DOMAIN heap[5]
        /\ \A name \in DOMAIN heap[5] : p.std[name] = heap[5][name]
        /\ NumberParamValue(heap[5], "type", 8) # <<>> =>
              p.flags = NumberParamValue(heap[5], "type", 8)[1]
    BY <1>3, <1>8, <1>10
  <2> QED BY <1>0, <1>4, <1>6, <2>1 DEF ReadBack
<1> QED BY <1>0, <1>2, <1>4, <1>7, <1>8, <1>9, <1>10 DEF URLInv

\* Every step from registration to the joiner keeps URLInv.
LEMMA URLNextInv == URLInv /\ [UNext]_uvars => URLInv'
<1> SUFFICES ASSUME URLInv, [UNext]_uvars PROVE URLInv' OBVIOUS
<1>1. CASE UNCHANGED uvars
  <2>1. UNCHANGED <<heap, host, ru, peer, text, phase>> BY <1>1 DEF uvars
  <2>2. /\ Placed' = Placed /\ Shown' = Shown /\ Formats(ru)' = Formats(ru)
        /\ Speakable(host)' = Speakable(host) /\ Speakable(ru)' = Speakable(ru)
        /\ ReadBack' = ReadBack
    BY <2>1, SMTT(30) DEF Placed, Shown, Formats, Speakable, ReadBack
  <2> QED BY <2>1, <2>2 DEF URLInv
<1> QED BY <1>1, EditInv, CopyInv, RewriteInv, SendInv, ReadInv DEF UNext

\* relayGetSessionURLs: for any URLs and setter calls, rewriting the copy for one joiner
\* and the joiner's reading leave the URL on the host's connection as it is.
THEOREM HostKeepsURLAlways == USpec => HostKeepsURL
<1> DEFINE Registered == phase # "register" =>
                     /\ host' = host
                     /\ heap'[host.std] = heap[host.std]
                     /\ heap'[host.custom] = heap[host.custom]
<1>1. URLInv /\ [UNext]_uvars => [Registered]_uvars
  <2> SUFFICES ASSUME URLInv, UNext, phase # "register"
               PROVE  /\ host' = host /\ heap'[1] = heap[1] /\ heap'[2] = heap[2]
                      /\ host.std = 1 /\ host.custom = 2
    OBVIOUS
  <2>1. /\ DOMAIN heap = 1..6 /\ host.std = 1 /\ host.custom = 2
        /\ peer.std = 3 /\ peer.custom = 4 /\ ru.std = 5
    BY DEF URLInv, Placed
  <2>2. CASE Rewrite BY <2>1, <2>2 DEF Rewrite
  <2>3. CASE SendURL BY <2>1, <2>3 DEF SendURL
  <2>4. CASE ReadURL
    <3>1. PICK s, c : heap' = [heap EXCEPT ![3] = s, ![4] = c] BY <2>1, <2>4 DEF ReadURL
    <3> QED BY <2>1, <2>4, <3>1 DEF ReadURL
  <2> QED BY <2>1, <2>2, <2>3, <2>4 DEF UNext, Edit, SetURLType, EditType, CopyHost
<1> QED BY <1>1, URLInitInv, URLNextInv, PTL DEF USpec, HostKeepsURL

\* The URL shown has the host's parameters but the address and the port.
LEMMA ShownFacts ==
    /\ DOMAIN Shown = DOMAIN heap[1] \cup {"address", "port"}
    /\ \A name \in DOMAIN heap[1] \ {"address", "port"} : Shown[name] = heap[1][name]
    /\ Shown["address"] = Text("relay") /\ Shown["port"] = Digits(7000)
<1> DEFINE addressed == SetIn(heap[1], "address", Text("relay"))
<1>1. /\ DOMAIN addressed = DOMAIN heap[1] \cup {"address"}
      /\ \A name \in DOMAIN heap[1] \ {"address"} : addressed[name] = heap[1][name]
      /\ addressed["address"] = Text("relay")
  BY DEF SetIn
<1>2. Shown = SetIn(addressed, "port", Digits(7000)) BY DEF Shown
<1> HIDE DEF addressed
<1> QED BY <1>1, <1>2, SMTT(30) DEF SetIn

\* relayGetSessionURLs, WriteTo and ExtractFrom: for any URLs and setter calls, the joiner
\* reads the host's scheme and parameters with the address and port of the relay, or with
\* both of the host's, and the flags of the type it was sent.
THEOREM JoinerReadsAlways == USpec => []JoinerReads
<1>1. URLInv => JoinerReads
  <2> SUFFICES ASSUME URLInv, phase \in {"sent", "read"}, Speakable(host)
               PROVE  CopyShows /\ (phase = "read" /\ Speakable(ru) => PeerShows)
    BY Zenon DEF JoinerReads
  <2>1. /\ host.std = 1 /\ host.custom = 2 /\ ru.std = 5 /\ ru.custom = 6 /\ peer.std = 3
        /\ ru.type = host.type /\ heap[6] = heap[2] /\ heap[5] \in {heap[1], Shown}
        /\ phase = "read" /\ Speakable(ru) => ReadBack
    BY DEF URLInv, Placed
  <2>2. ASSUME NEW name \in DOMAIN TypedParams \ {"address", "port"}
        PROVE  Getter(heap[5], name) = Getter(heap[1], name)
    <3>1. CASE heap[5] = heap[1] BY <3>1
    <3>2. CASE heap[5] = Shown
      <4>1. /\ name \in DOMAIN Shown <=> name \in DOMAIN heap[1]
            /\ name \in DOMAIN Shown => Shown[name] = heap[1][name]
        BY ShownFacts
      <4> QED BY <3>2, <4>1, GetterSame
    <3> QED BY <2>1, <3>1, <3>2
  <2>3. \/ \A name \in {"address", "port"} : Getter(heap[5], name) = Getter(heap[1], name)
        \/ /\ {"address", "port"} \subseteq DOMAIN heap[5]
           /\ heap[5]["address"] = Text("relay") /\ heap[5]["port"] = Digits(7000)
    BY <2>1, ShownFacts
  <2>4. CopyShows BY <2>1, <2>2, <2>3 DEF CopyShows
  <2>5. ASSUME phase = "read", Speakable(ru) PROVE PeerShows
    <3>1. ReadBack BY <2>1, <2>5
    <3>2. \A name \in DOMAIN heap[5] \cap DOMAIN TypedParams :
            Getter(heap[3], name) = Getter(heap[5], name)
      BY <3>1, GetterSame DEF ReadBack
    <3>3. NumberParamValue(heap[5], "type", 8) # <<>> =>
             peer.flags = NumberParamValue(heap[5], "type", 8)[1]
      BY <3>1 DEF ReadBack
    <3>4. peer.type = host.type BY <2>1, <3>1 DEF ReadBack
    <3> QED BY <2>1, <3>2, <3>3, <3>4 DEF PeerShows
  <2> QED BY <2>4, <2>5
<1> QED BY <1>1, URLInitInv, URLNextInv, PTL DEF USpec
==============================================================================
