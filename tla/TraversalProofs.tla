-------------------------- MODULE TraversalProofs --------------------------
(***************************************************************************)
(* Machine-checked theorems about Listing, Selection and Traversal: a      *)
(* paginated listing that nobody disturbs is exact for every size of the   *)
(* page, none runs into the end of its folder, an empty one has overlooked *)
(* nothing; a glob and a recursive listing that nobody disturbs are exact, *)
(* and a walk lists each folder once, whatever is moved where meanwhile.   *)
(***************************************************************************)
EXTENDS Traversal, TLAPS, FiniteSetTheorems, WellFoundedInduction

Rows == Entries \X Names

LEMMA RowFacts ==
    ASSUME NEW r \in Rows
    PROVE  r[1] \in Entries /\ r[2] \in Names /\ r[2] \in Int /\ r = <<r[1], r[2]>>
<1>1. r[1] \in Entries /\ r[2] \in Names /\ r = <<r[1], r[2]>>
  BY DEF Rows
<1>2. Names \subseteq Int
  BY ListingAssumption
<1>3. QED
  BY <1>1, <1>2

-----------------------------------------------------------------------------
(* Sorting.                                                                *)

\* Rows with different names are sorted by InOrder into a sequence that has
\* each of them once (state.go, sort.Slice in folderEntries).
NamesApart(rows) == \A d, e \in rows : d[2] = e[2] => d = e
Ahead(rows, e) == {d \in rows : d[2] < e[2]}

LEMMA AheadGrows ==
    ASSUME NEW rows \in SUBSET Rows, IsFiniteSet(rows), NEW d \in rows, NEW e \in rows, d[2] < e[2]
    PROVE  Cardinality(Ahead(rows, d)) < Cardinality(Ahead(rows, e))
<1>1. \A x \in rows : x[2] \in Int
  BY RowFacts
<1>2. Ahead(rows, d) \in SUBSET Ahead(rows, e) /\ Ahead(rows, e) \in SUBSET rows
  BY <1>1 DEF Ahead
<1>3. d \in Ahead(rows, e) /\ d \notin Ahead(rows, d)
  BY <1>1 DEF Ahead
<1>4. IsFiniteSet(Ahead(rows, e))
  BY <1>2, FS_Subset
<1>5. /\ Cardinality(Ahead(rows, d)) <= Cardinality(Ahead(rows, e))
      /\ Cardinality(Ahead(rows, d)) # Cardinality(Ahead(rows, e))
      /\ IsFiniteSet(Ahead(rows, d))
  BY <1>2, <1>3, <1>4, FS_Subset
<1>6. Cardinality(Ahead(rows, d)) \in Nat /\ Cardinality(Ahead(rows, e)) \in Nat
  BY <1>4, <1>5, FS_CardinalityType
<1>7. QED
  BY <1>5, <1>6

LEMMA AheadBound ==
    ASSUME NEW rows \in SUBSET Rows, IsFiniteSet(rows), NEW e \in rows
    PROVE  Cardinality(Ahead(rows, e)) \in 0 .. (Cardinality(rows) - 1)
<1>1. e[2] \in Int
  BY RowFacts
<1>2. Ahead(rows, e) \in SUBSET rows /\ e \notin Ahead(rows, e)
  BY <1>1 DEF Ahead
<1>3. /\ Cardinality(Ahead(rows, e)) <= Cardinality(rows) /\ IsFiniteSet(Ahead(rows, e))
      /\ Cardinality(Ahead(rows, e)) # Cardinality(rows)
  BY <1>2, FS_Subset
<1>4. Cardinality(Ahead(rows, e)) \in Nat /\ Cardinality(rows) \in Nat
  BY <1>3, FS_CardinalityType
<1>5. QED
  BY <1>3, <1>4

\* Each place has a row, and each row its place.
LEMMA InOrderSorts ==
    ASSUME NEW rows \in SUBSET Rows, IsFiniteSet(rows), NamesApart(rows)
    PROVE  LET s == InOrder(rows, LAMBDA d, e : d[2] < e[2])
               n == Cardinality(rows)
           IN  /\ s \in [1 .. n -> rows]
               /\ \A i, j \in 1 .. n : i < j => s[i][2] < s[j][2]
               /\ \A e \in rows : \E i \in 1 .. n : s[i] = e
<1> DEFINE s == InOrder(rows, LAMBDA d, e : d[2] < e[2])
           n == Cardinality(rows)
           rank == [e \in rows |-> Cardinality(Ahead(rows, e))]
<1>1. n \in Nat
  BY FS_CardinalityType
<1>2. rank \in [rows -> 0 .. (n - 1)]
  BY AheadBound
<1>3. \A e \in rows : e[2] \in Int
  BY RowFacts
<1>4. ASSUME NEW d \in rows, NEW e \in rows, d[2] < e[2] PROVE rank[d] < rank[e]
  BY <1>4, AheadGrows
<1>5. ASSUME NEW d \in rows, NEW e \in rows, rank[d] = rank[e] PROVE d = e
  <2>1. rank[d] \in Int /\ rank[e] \in Int
    BY <1>1, <1>2
  <2>2. ~(d[2] < e[2]) /\ ~(e[2] < d[2])
    <3>1. d[2] < e[2] => rank[d] < rank[e]
      BY <1>4
    <3>2. e[2] < d[2] => rank[e] < rank[d]
      BY <1>4
    <3> HIDE DEF rank
    <3>3. QED
      BY <1>5, <2>1, <3>1, <3>2
  <2>3. d[2] = e[2]
    BY <1>3, <2>2
  <2>4. QED
    BY <2>3 DEF NamesApart
<1> HIDE DEF rank
<1>6. rank \in Surjection(rows, 0 .. (n - 1))
  <2>1. rank \in Injection(rows, 0 .. (n - 1))
    BY <1>2, <1>5 DEF Injection, IsInjective
  <2>2. IsFiniteSet(0 .. (n - 1)) /\ Cardinality(0 .. (n - 1)) = n
    BY <1>1, FS_Interval
  <2>3. QED
    BY <2>1, <2>2, FS_Injection
<1>7. ASSUME NEW i \in 1 .. n PROVE s[i] \in rows /\ rank[s[i]] = i - 1
  <2>1. i - 1 \in 0 .. (n - 1)
    BY <1>1
  <2>2. \E e \in rows : rank[e] = i - 1
    BY <1>6, <2>1 DEF Surjection
  <2>3. \E e \in rows : Cardinality(Ahead(rows, e)) = i - 1
    BY <2>2 DEF rank
  <2>4. s[i] = CHOOSE e \in rows : Cardinality(Ahead(rows, e)) = i - 1
    BY DEF InOrder, Ahead
  <2> HIDE DEF s
  <2>5. s[i] \in rows /\ Cardinality(Ahead(rows, s[i])) = i - 1
    BY <2>3, <2>4
  <2>6. QED
    BY <2>5 DEF rank
<1>8. s \in [1 .. n -> rows]
  <2> DEFINE At(i) == CHOOSE e \in rows : Cardinality(Ahead(rows, e)) = i - 1
  <2>1. s = [i \in 1 .. n |-> At(i)]
    BY DEF InOrder, Ahead
  <2> HIDE DEF s, At
  <2>2. QED
    BY <1>7, <2>1
<1> HIDE DEF s
<1>9. ASSUME NEW i \in 1 .. n, NEW j \in 1 .. n, i < j PROVE s[i][2] < s[j][2]
  <2>1. /\ s[i] \in rows /\ s[j] \in rows /\ i \in Int /\ j \in Int
        /\ rank[s[i]] = i - 1 /\ rank[s[j]] = j - 1
    BY <1>1, <1>7
  <2>2. s[i] # s[j] /\ ~(rank[s[j]] < rank[s[i]])
    BY <1>9, <2>1
  <2>3. ~(s[j][2] < s[i][2])
    BY <1>4, <2>1, <2>2
  <2>4. s[i][2] # s[j][2]
    BY <2>1, <2>2 DEF NamesApart
  <2>5. QED
    BY <1>3, <2>1, <2>3, <2>4
<1>10. ASSUME NEW e \in rows PROVE \E i \in 1 .. n : s[i] = e
  <2>1. rank[e] \in 0 .. (n - 1)
    BY <1>2
  <2>2. rank[e] + 1 \in 1 .. n
    BY <1>1, <2>1
  <2>3. s[rank[e] + 1] \in rows /\ rank[s[rank[e] + 1]] = rank[e]
    BY <1>7, <2>1, <2>2
  <2>4. QED
    BY <1>5, <2>2, <2>3
<1>11. QED
  BY <1>8, <1>9, <1>10 DEF s

-----------------------------------------------------------------------------
(* What a page holds.                                                      *)

\* What the pages are made of is not needed, only that they are sequences.
IsSeq(s) == Len(s) \in Nat /\ s = [i \in 1 .. Len(s) |-> s[i]]
Elements(s) == {s[i] : i \in 1 .. Len(s)}

LEMMA IsSeqIsSeq == ASSUME NEW s, IsSeq(s), NEW T, Elements(s) \subseteq T PROVE s \in Seq(T)
<1>1. \A i \in 1 .. Len(s) : s[i] \in T
  BY DEF Elements
<1>2. s \in [1 .. Len(s) -> T] /\ Len(s) \in Nat
  BY <1>1 DEF IsSeq
<1>3. QED
  BY <1>2

LEMMA AppendingPages ==
    ASSUME NEW s, IsSeq(s), NEW t, IsSeq(t)
    PROVE  /\ IsSeq(s \o t) /\ Len(s \o t) = Len(s) + Len(t)
           /\ \A i \in 1 .. Len(s) : (s \o t)[i] = s[i]
           /\ \A i \in 1 .. Len(t) : (s \o t)[Len(s) + i] = t[i]
<1> DEFINE T == Elements(s) \cup Elements(t)
<1>1. s \in Seq(T) /\ t \in Seq(T)
  BY IsSeqIsSeq
<1> HIDE DEF T
<1>2. s \o t \in Seq(T)
  BY <1>1
<1>3. Len(s \o t) = Len(s) + Len(t) /\ Len(s \o t) \in Nat
  BY <1>1
<1>4. s \o t = [i \in 1 .. Len(s \o t) |-> (s \o t)[i]]
  <2> DEFINE st == s \o t
  <2>1. st \in Seq(T)
    BY <1>2
  <2> HIDE DEF st
  <2>2. st = [i \in 1 .. Len(st) |-> st[i]]
    BY <2>1
  <2>3. QED
    BY <2>2 DEF st
<1>5. ASSUME NEW i \in 1 .. Len(s) PROVE (s \o t)[i] = s[i]
  BY <1>1
<1>6. ASSUME NEW i \in 1 .. Len(t) PROVE (s \o t)[Len(s) + i] = t[i]
  BY <1>1
<1>7. QED
  BY <1>3, <1>4, <1>5, <1>6 DEF IsSeq

LEMMA PageFacts ==
    ASSUME NEW entries, IsSeq(entries), offset \in Nat
    PROVE  LET page == Page(entries) IN
           /\ IsSeq(page)
           /\ offset >= Len(entries) => Len(page) = 0
           /\ offset < Len(entries) => Len(page) > 0 /\ offset + Len(page) <= Len(entries)
           /\ \A i \in 1 .. Len(page) : page[i] = entries[offset + i]
<1> DEFINE T == Elements(entries)
           last == IF offset + PageSize > Len(entries) THEN Len(entries) ELSE offset + PageSize
           page == SubSeq(entries, offset + 1, last)
<1>1. entries \in Seq(T) /\ Len(entries) \in Nat
  BY IsSeqIsSeq DEF IsSeq
<1>2. PageSize \in Nat \ {0}
  BY ListingAssumption
<1>3. last \in Nat /\ last <= Len(entries) /\ (offset < Len(entries) => offset < last)
  BY <1>1, <1>2
<1>4. Page(entries) = page
  BY DEF Page
<1> HIDE DEF T, last
<1>5. page \in Seq(T)
  BY <1>1, <1>3
<1>6. Len(page) = IF offset + 1 <= last THEN last - offset ELSE 0
  BY <1>1, <1>3
<1>7. ASSUME NEW i \in 1 .. Len(page) PROVE page[i] = entries[offset + i]
  BY <1>1, <1>3, <1>6
<1> HIDE DEF page
<1>8. IsSeq(page)
  BY <1>5 DEF IsSeq
<1>9. QED
  BY <1>1, <1>3, <1>4, <1>6, <1>7, <1>8

LEMMA InOrderIsSeq ==
    ASSUME IsFiniteSet(Sections), NEW documentsFirst
    PROVE  IsSeq(Listed(documentsFirst)) /\ Len(Listed(documentsFirst)) = Cardinality(Sections)
<1> DEFINE n == Cardinality(Sections)
           s == Listed(documentsFirst)
           At(i) == CHOOSE e \in Sections : Cardinality({d \in Sections :
                        \/ d[2] < e[2]
                        \/ d[2] = e[2] /\ d[1] # e[1] /\ (d[1] \in Documents) = documentsFirst}) = i - 1
<1>1. n \in Nat
  BY FS_CardinalityType
<1>2. s = [i \in 1 .. n |-> At(i)]
  BY DEF Listed, InOrder
<1> HIDE DEF n, s, At
<1>3. s \in [1 .. n -> {At(i) : i \in 1 .. n}]
  BY <1>2
<1>4. Len(s) = n
  BY <1>1, <1>3
<1>5. QED
  BY <1>1, <1>2, <1>3, <1>4 DEF IsSeq, s, n

-----------------------------------------------------------------------------
(* Parts of a sequence.                                                    *)

\* In a total order of finitely many elements each place has one element.
TotalOrder(S, R) ==
    /\ \A d \in S : <<d, d>> \notin R
    /\ \A c, d, e \in S : <<c, d>> \in R /\ <<d, e>> \in R => <<c, e>> \in R
    /\ \A d, e \in S : d # e => <<d, e>> \in R \/ <<e, d>> \in R
Less(S, R, e) == {d \in S : <<d, e>> \in R}
Ranked(S, R) == [i \in 1 .. Cardinality(S) |-> CHOOSE e \in S : Cardinality(Less(S, R, e)) = i - 1]

LEMMA LessGrows ==
    ASSUME NEW S, IsFiniteSet(S), NEW R, TotalOrder(S, R), NEW d \in S, NEW e \in S, <<d, e>> \in R
    PROVE  Cardinality(Less(S, R, d)) < Cardinality(Less(S, R, e))
<1>1. Less(S, R, d) \in SUBSET Less(S, R, e) /\ Less(S, R, e) \in SUBSET S
  BY DEF Less, TotalOrder
<1>2. d \in Less(S, R, e) /\ d \notin Less(S, R, d)
  BY DEF Less, TotalOrder
<1>3. IsFiniteSet(Less(S, R, e))
  BY <1>1, FS_Subset
<1>4. /\ Cardinality(Less(S, R, d)) <= Cardinality(Less(S, R, e))
      /\ Cardinality(Less(S, R, d)) # Cardinality(Less(S, R, e))
      /\ IsFiniteSet(Less(S, R, d))
  BY <1>1, <1>2, <1>3, FS_Subset
<1>5. Cardinality(Less(S, R, d)) \in Nat /\ Cardinality(Less(S, R, e)) \in Nat
  BY <1>3, <1>4, FS_CardinalityType
<1>6. QED
  BY <1>4, <1>5

LEMMA LessBound ==
    ASSUME NEW S, IsFiniteSet(S), NEW R, TotalOrder(S, R), NEW e \in S
    PROVE  Cardinality(Less(S, R, e)) \in 0 .. (Cardinality(S) - 1)
<1>1. Less(S, R, e) \in SUBSET S /\ e \notin Less(S, R, e)
  BY DEF Less, TotalOrder
<1>2. /\ Cardinality(Less(S, R, e)) <= Cardinality(S) /\ IsFiniteSet(Less(S, R, e))
      /\ Cardinality(Less(S, R, e)) # Cardinality(S)
  BY <1>1, FS_Subset
<1>3. Cardinality(Less(S, R, e)) \in Nat /\ Cardinality(S) \in Nat
  BY <1>2, FS_CardinalityType
<1>4. QED
  BY <1>2, <1>3

LEMMA RankedIsBijection ==
    ASSUME NEW S, IsFiniteSet(S), NEW R, TotalOrder(S, R)
    PROVE  Ranked(S, R) \in Bijection(1 .. Cardinality(S), S)
<1> DEFINE n == Cardinality(S)
           rank == [e \in S |-> Cardinality(Less(S, R, e))]
           at == Ranked(S, R)
<1>1. n \in Nat
  BY FS_CardinalityType
<1>2. rank \in [S -> 0 .. (n - 1)]
  BY LessBound
<1>3. ASSUME NEW d \in S, NEW e \in S, rank[d] = rank[e] PROVE d = e
  <2>1. rank[d] \in Int /\ rank[e] \in Int
    BY <1>1, <1>2
  <2>2. <<d, e>> \in R => rank[d] < rank[e]
    BY LessGrows
  <2>3. <<e, d>> \in R => rank[e] < rank[d]
    BY LessGrows
  <2> HIDE DEF rank
  <2>4. QED
    BY <1>3, <2>1, <2>2, <2>3 DEF TotalOrder
<1> HIDE DEF rank
<1>4. rank \in Surjection(S, 0 .. (n - 1))
  <2>1. rank \in Injection(S, 0 .. (n - 1))
    BY <1>2, <1>3 DEF Injection, IsInjective
  <2>2. IsFiniteSet(0 .. (n - 1)) /\ Cardinality(0 .. (n - 1)) = n
    BY <1>1, FS_Interval
  <2>3. QED
    BY <2>1, <2>2, FS_Injection
<1>5. ASSUME NEW i \in 1 .. n PROVE at[i] \in S /\ rank[at[i]] = i - 1
  <2>1. i - 1 \in 0 .. (n - 1)
    BY <1>1
  <2>2. \E e \in S : rank[e] = i - 1
    BY <1>4, <2>1 DEF Surjection
  <2>3. \E e \in S : Cardinality(Less(S, R, e)) = i - 1
    BY <2>2 DEF rank
  <2>4. at[i] = CHOOSE e \in S : Cardinality(Less(S, R, e)) = i - 1
    BY DEF Ranked
  <2> HIDE DEF at
  <2>5. at[i] \in S /\ Cardinality(Less(S, R, at[i])) = i - 1
    BY <2>3, <2>4
  <2>6. QED
    BY <2>5 DEF rank
<1>6. at \in [1 .. n -> S]
  <2> DEFINE At(i) == CHOOSE e \in S : Cardinality(Less(S, R, e)) = i - 1
  <2>1. at = [i \in 1 .. n |-> At(i)]
    BY DEF Ranked
  <2> HIDE DEF at, At
  <2>2. QED
    BY <1>5, <2>1
<1> HIDE DEF at
<1>7. ASSUME NEW i \in 1 .. n, NEW j \in 1 .. n, at[i] = at[j] PROVE i = j
  <2>1. i - 1 = j - 1
    BY <1>5, <1>7
  <2>2. QED
    BY <1>1, <2>1
<1>8. ASSUME NEW e \in S PROVE \E i \in 1 .. n : at[i] = e
  <2>1. rank[e] \in 0 .. (n - 1)
    BY <1>2
  <2>2. rank[e] + 1 \in 1 .. n /\ (rank[e] + 1) - 1 = rank[e]
    BY <1>1, <2>1
  <2>3. at[rank[e] + 1] \in S /\ rank[at[rank[e] + 1]] = rank[e]
    BY <1>5, <2>2
  <2>4. QED
    BY <1>3, <2>2, <2>3
<1>9. QED
  BY <1>6, <1>7, <1>8 DEF Bijection, Injection, Surjection, IsInjective, at, n

\* A sequence has the elements that another one has at some positions.
Picks(t, s, I) ==
    \E at \in Bijection(1 .. Cardinality(I), I) : t = [n \in 1 .. Cardinality(I) |-> s[at[n]]]

LEMMA KeepPicks ==
    ASSUME NEW s, NEW I \in SUBSET Nat, IsFiniteSet(I)
    PROVE  Picks(Keep(s, I), s, I)
<1> DEFINE R == {p \in I \X I : p[1] < p[2]}
           at1 == InOrder(I, LAMBDA i, j : i < j)
           Nth1(i) == CHOOSE e \in I : Cardinality({d \in I : d < e}) = i - 1
           Nth2(i) == CHOOSE e \in I : Cardinality(Less(I, R, e)) = i - 1
<1>1. \A e \in I : Less(I, R, e) = {d \in I : d < e}
  BY DEF Less
<1>2. TotalOrder(I, R)
  BY DEF TotalOrder
<1>3. Ranked(I, R) \in Bijection(1 .. Cardinality(I), I)
  BY <1>2, RankedIsBijection
<1> HIDE DEF R
<1>4. ASSUME NEW i \in 1 .. Cardinality(I) PROVE Nth1(i) = Nth2(i)
  <2>1. \A e \in I : (Cardinality({d \in I : d < e}) = i - 1) <=> (Cardinality(Less(I, R, e)) = i - 1)
    BY <1>1
  <2>2. QED
    BY <2>1, Zenon
<1>5. /\ at1 = [i \in 1 .. Cardinality(I) |-> Nth1(i)]
      /\ Ranked(I, R) = [i \in 1 .. Cardinality(I) |-> Nth2(i)]
  BY DEF InOrder, Ranked
<1> HIDE DEF Nth1, Nth2
<1>6. at1 = Ranked(I, R)
  BY <1>4, <1>5
<1>7. Keep(s, I) = [n \in DOMAIN at1 |-> s[at1[n]]]
  BY DEF Keep, Arranged
<1> HIDE DEF at1
<1>8. DOMAIN at1 = 1 .. Cardinality(I)
  BY <1>5
<1>9. QED
  BY <1>3, <1>6, <1>7, <1>8 DEF Picks

\* What that comes to: all of those elements, each once.
Cut(t, s, I) ==
    /\ IsSeq(t) /\ Len(t) = Cardinality(I)
    /\ \A n \in 1 .. Len(t) : \E i \in I : t[n] = s[i]
    /\ \A i \in I : \E n \in 1 .. Len(t) : t[n] = s[i]
    /\ \A m, n \in 1 .. Len(t) : m # n => \E i, j \in I : i # j /\ t[m] = s[i] /\ t[n] = s[j]

LEMMA PicksAreCut ==
    ASSUME NEW t, NEW s, NEW I, IsFiniteSet(I), Picks(t, s, I)
    PROVE  Cut(t, s, I)
<1>1. PICK k \in Nat : k = Cardinality(I)
  BY FS_CardinalityType
<1>2. PICK at \in Bijection(1 .. k, I) : t = [n \in 1 .. k |-> s[at[n]]]
  BY <1>1 DEF Picks
<1>3. /\ at \in [1 .. k -> I] /\ \A m, n \in 1 .. k : at[m] = at[n] => m = n
      /\ \A i \in I : \E n \in 1 .. k : at[n] = i
  BY <1>2 DEF Bijection, Injection, Surjection, IsInjective
<1>4. \A n \in 1 .. k : t[n] = s[at[n]] /\ at[n] \in I
  BY <1>2, <1>3
<1>5. Len(t) = k /\ IsSeq(t)
  <2> DEFINE T == {s[i] : i \in I}
  <2>1. t \in [1 .. k -> T]
    BY <1>2, <1>3
  <2> HIDE DEF T
  <2>2. Len(t) = k
    BY <1>1, <2>1
  <2>3. t = [n \in 1 .. k |-> t[n]]
    BY <2>1
  <2>4. QED
    BY <1>1, <2>2, <2>3 DEF IsSeq
<1>6. QED
  BY <1>1, <1>3, <1>4, <1>5 DEF Cut

LEMMA KeepCuts ==
    ASSUME NEW s, NEW I \in SUBSET Nat, IsFiniteSet(I)
    PROVE  Cut(Keep(s, I), s, I)
  BY KeepPicks, PicksAreCut

LEMMA ByNameIsSeq ==
    ASSUME NEW rows, IsSeq(rows)
    PROVE  IsSeq(ByName(rows)) /\ Len(ByName(rows)) = Len(rows)
<1> DEFINE Precedes(i, j) == rows[i][2] < rows[j][2] \/ (rows[i][2] = rows[j][2] /\ i < j)
           At(i) == CHOOSE e \in DOMAIN rows : Cardinality({d \in DOMAIN rows : Precedes(d, e)}) = i - 1
           T == {rows[At(i)] : i \in 1 .. Len(rows)}
<1>1. Len(rows) \in Nat /\ DOMAIN rows = 1 .. Len(rows)
  BY DEF IsSeq
<1>2. Cardinality(DOMAIN rows) = Len(rows)
  <2>1. PICK k \in Nat : k = Len(rows)
    BY <1>1
  <2>2. Cardinality(1 .. k) = k
    BY FS_Interval
  <2>3. QED
    BY <1>1, <2>1, <2>2
<1>3. ByName(rows) = [i \in 1 .. Len(rows) |-> rows[At(i)]]
  BY <1>2 DEF ByName, Arranged, InOrder
<1> HIDE DEF At
<1>4. ByName(rows) \in [1 .. Len(rows) -> T]
  BY <1>3
<1> HIDE DEF T
<1>5. Len(ByName(rows)) = Len(rows)
  BY <1>1, <1>4
<1>6. QED
  BY <1>1, <1>4, <1>5 DEF IsSeq

\* sortDeviceEntries puts each entry in one place.
LEMMA ByNamePicks ==
    ASSUME NEW rows, IsSeq(rows), \A i \in 1 .. Len(rows) : rows[i][2] \in Int
    PROVE  Picks(ByName(rows), rows, 1 .. Len(rows))
<1> DEFINE Precedes(i, j) == rows[i][2] < rows[j][2] \/ (rows[i][2] = rows[j][2] /\ i < j)
           At1(i) == CHOOSE e \in DOMAIN rows : Cardinality({d \in DOMAIN rows : Precedes(d, e)}) = i - 1
           S == 1 .. Len(rows)
           R == {p \in S \X S : Precedes(p[1], p[2])}
           At2(i) == CHOOSE e \in S : Cardinality(Less(S, R, e)) = i - 1
<1>1. Len(rows) \in Nat /\ DOMAIN rows = S
  BY DEF IsSeq
<1>2. IsFiniteSet(S)
  BY <1>1, FS_Interval
<1>3. \A d, e \in S : <<d, e>> \in R <=> Precedes(d, e)
  OBVIOUS
<1>4. TotalOrder(S, R)
  <2> HIDE DEF R
  <2>1. \A d \in S : d \in Int
    BY <1>1
  <2>2. \A d \in S : <<d, d>> \notin R
    BY <1>3, <2>1
  <2>3. \A c, d, e \in S : <<c, d>> \in R /\ <<d, e>> \in R => <<c, e>> \in R
    BY <1>3, <2>1
  <2>4. \A d, e \in S : d # e => <<d, e>> \in R \/ <<e, d>> \in R
    BY <1>3, <2>1
  <2>5. QED
    BY <2>2, <2>3, <2>4 DEF TotalOrder
<1>5. \A e \in S : Less(S, R, e) = {d \in S : Precedes(d, e)}
  BY <1>3 DEF Less
<1>6. Ranked(S, R) \in Bijection(1 .. Cardinality(S), S)
  BY <1>2, <1>4, RankedIsBijection
<1> HIDE DEF R, S, Precedes
<1>7. ASSUME NEW i \in 1 .. Cardinality(S) PROVE At1(i) = At2(i)
  <2>1. \A e \in S : (Cardinality({d \in S : Precedes(d, e)}) = i - 1)
                 <=> (Cardinality(Less(S, R, e)) = i - 1)
    BY <1>5
  <2>2. At1(i) = CHOOSE e \in S : Cardinality({d \in S : Precedes(d, e)}) = i - 1
    BY <1>1
  <2>3. QED
    BY <2>1, <2>2, Zenon
<1>8. ByName(rows) = [i \in 1 .. Cardinality(S) |-> rows[At1(i)]]
  BY <1>1 DEF ByName, Arranged, InOrder, Precedes
<1>9. Ranked(S, R) = [i \in 1 .. Cardinality(S) |-> At2(i)]
  BY DEF Ranked
<1> HIDE DEF At1, At2
<1>10. ByName(rows) = [i \in 1 .. Cardinality(S) |-> rows[Ranked(S, R)[i]]]
  BY <1>7, <1>8, <1>9
<1>11. Picks(ByName(rows), rows, S)
  BY <1>6, <1>10 DEF Picks
<1>12. QED
  BY <1>11 DEF S

LEMMA EntriesInFacts ==
    ASSUME NEW rows, IsSeq(rows)
    PROVE  /\ IsSeq(EntriesIn(rows)) /\ Len(EntriesIn(rows)) = Len(rows)
           /\ \A i \in 1 .. Len(rows) : EntriesIn(rows)[i] = rows[i][1]
<1> DEFINE t == EntriesIn(rows)
           T == {rows[i][1] : i \in 1 .. Len(rows)}
<1>1. Len(rows) \in Nat /\ DOMAIN rows = 1 .. Len(rows)
  BY DEF IsSeq
<1>2. t = [i \in 1 .. Len(rows) |-> rows[i][1]]
  BY <1>1 DEF EntriesIn
<1> HIDE DEF t
<1>3. t \in [1 .. Len(rows) -> T]
  BY <1>2
<1> HIDE DEF T
<1>4. Len(t) = Len(rows)
  BY <1>1, <1>3
<1>5. QED
  BY <1>1, <1>2, <1>3, <1>4 DEF IsSeq, t

LEMMA OfTypeCuts ==
    ASSUME NEW rows, IsSeq(rows), NEW entries
    PROVE  LET I == {i \in 1 .. Len(rows) : rows[i][1] \in entries} IN
           /\ I \in SUBSET (1 .. Len(rows)) /\ IsFiniteSet(I) /\ Cardinality(I) <= Len(rows)
           /\ Cut(OfType(rows, entries), rows, I)
<1> DEFINE I == {i \in 1 .. Len(rows) : rows[i][1] \in entries}
<1>1. Len(rows) \in Nat /\ DOMAIN rows = 1 .. Len(rows)
  BY DEF IsSeq
<1>2. I \in SUBSET (1 .. Len(rows)) /\ IsFiniteSet(1 .. Len(rows)) /\ Cardinality(1 .. Len(rows)) = Len(rows)
  <2>1. PICK k \in Nat : k = Len(rows)
    BY <1>1
  <2>2. IsFiniteSet(1 .. k) /\ Cardinality(1 .. k) = k
    BY FS_Interval
  <2>3. QED
    BY <2>1, <2>2
<1>3. IsFiniteSet(I) /\ I \in SUBSET Nat /\ Cardinality(I) <= Len(rows)
  BY <1>1, <1>2, FS_Subset
<1>4. OfType(rows, entries) = Keep(rows, I)
  BY <1>1 DEF OfType
<1> HIDE DEF I
<1>5. Cut(OfType(rows, entries), rows, I)
  BY <1>3, <1>4, KeepCuts
<1>6. QED
  BY <1>2, <1>3, <1>5 DEF I

\* The documents or the folders among rows, sorted by name.
Named(rows) == {rows[i][1] : i \in 1 .. Len(rows)}
Typed(rows, entries) == EntriesIn(OfType(ByName(rows), entries))

LEMMA TypedFacts ==
    ASSUME NEW rows, IsSeq(rows), NEW entries
    PROVE  /\ IsSeq(Typed(rows, entries)) /\ Len(Typed(rows, entries)) <= Len(rows)
           /\ (\A i \in 1 .. Len(rows) : rows[i][2] \in Int) =>
                 Elements(Typed(rows, entries)) = Named(rows) \cap entries
<1> DEFINE I(s) == {i \in 1 .. Len(s) : s[i][1] \in entries}
<1>1. PICK s : s = ByName(rows) /\ IsSeq(s) /\ Len(s) = Len(rows)
  BY ByNameIsSeq
<1>2. PICK t : t = OfType(s, entries) /\ Cut(t, s, I(s)) /\ Cardinality(I(s)) <= Len(s)
  BY <1>1, OfTypeCuts
<1>3. /\ IsSeq(t) /\ Len(t) <= Len(rows)
      /\ \A n \in 1 .. Len(t) : \E i \in I(s) : t[n] = s[i]
      /\ \A i \in I(s) : \E n \in 1 .. Len(t) : t[n] = s[i]
  BY <1>1, <1>2 DEF Cut
<1>4. PICK u : u = EntriesIn(t) /\ IsSeq(u) /\ Len(u) = Len(t) /\ \A n \in 1 .. Len(t) : u[n] = t[n][1]
  BY <1>3, EntriesInFacts
<1>5. Typed(rows, entries) = u
  BY <1>1, <1>2, <1>4 DEF Typed
<1>6. ASSUME \A i \in 1 .. Len(rows) : rows[i][2] \in Int
      PROVE  Elements(u) = Named(rows) \cap entries
  <2>1. Cut(s, rows, 1 .. Len(rows))
    <3>1. IsFiniteSet(1 .. Len(rows))
      <4>1. PICK k \in Nat : k = Len(rows)
        BY DEF IsSeq
      <4>2. IsFiniteSet(1 .. k)
        BY FS_Interval
      <4>3. QED
        BY <4>1, <4>2
    <3>2. Picks(s, rows, 1 .. Len(rows))
      BY <1>1, <1>6, ByNamePicks
    <3>3. QED
      BY <3>1, <3>2, PicksAreCut
  <2>2. /\ \A n \in 1 .. Len(s) : \E i \in 1 .. Len(rows) : s[n] = rows[i]
        /\ \A i \in 1 .. Len(rows) : \E n \in 1 .. Len(s) : s[n] = rows[i]
    BY <2>1 DEF Cut
  <2>3. ASSUME NEW n \in 1 .. Len(t) PROVE u[n] \in Named(rows) \cap entries
    <3>1. PICK k \in I(s) : t[n] = s[k]
      BY <1>3
    <3>2. PICK i \in 1 .. Len(rows) : s[k] = rows[i]
      BY <2>2
    <3>3. u[n] = rows[i][1] /\ rows[i][1] \in entries
      BY <1>4, <3>1, <3>2
    <3>4. QED
      BY <3>3 DEF Named
  <2>4. ASSUME NEW i \in 1 .. Len(rows), rows[i][1] \in entries PROVE rows[i][1] \in Elements(u)
    <3>1. PICK n \in 1 .. Len(s) : s[n] = rows[i]
      BY <2>2
    <3>2. PICK k \in 1 .. Len(t) : t[k] = s[n]
      BY <1>3, <2>4, <3>1
    <3>3. k \in 1 .. Len(u) /\ u[k] = rows[i][1]
      BY <1>4, <3>1, <3>2
    <3>4. QED
      BY <3>3 DEF Elements
  <2>5. QED
    BY <1>4, <2>3, <2>4 DEF Named, Elements
<1>7. QED
  BY <1>3, <1>4, <1>5, <1>6

\* Documents that are known are those that were printed or have come before.
Distinct(s) == \A i, j \in 1 .. Len(s) : s[i] = s[j] => i = j
FirstOf(printed, documents) ==
    {i \in 1 .. Len(documents) :
        /\ documents[i] \notin Elements(printed)
        /\ \A j \in 1 .. Len(documents) : j < i => documents[j] # documents[i]}

LEMMA KnownMeans ==
    ASSUME NEW printed, IsSeq(printed), NEW documents, IsSeq(documents), NEW i \in 1 .. Len(documents)
    PROVE  Known(documents[i], printed \o SubSeq(documents, 1, i - 1)) <=>
              \/ documents[i] \in Elements(printed)
              \/ \E j \in 1 .. Len(documents) : j < i /\ documents[j] = documents[i]
<1> DEFINE T == Elements(documents)
           start == SubSeq(documents, 1, i - 1)
<1>1. documents \in Seq(T) /\ Len(documents) \in Nat
  BY IsSeqIsSeq DEF IsSeq
<1> HIDE DEF T
<1>2. start \in Seq(T) /\ Len(start) = i - 1 /\ \A j \in 1 .. (i - 1) : start[j] = documents[j]
  BY <1>1
<1> HIDE DEF start
<1>3. IsSeq(start)
  BY <1>2 DEF IsSeq
<1> DEFINE row == printed \o start
<1>4. /\ IsSeq(row) /\ Len(row) = Len(printed) + Len(start)
      /\ \A j \in 1 .. Len(printed) : row[j] = printed[j]
      /\ \A j \in 1 .. Len(start) : row[Len(printed) + j] = start[j]
  BY <1>3, AppendingPages
<1>5. Len(printed) \in Nat /\ Len(start) \in Nat /\ DOMAIN row = 1 .. Len(row)
  BY <1>1, <1>2, <1>4 DEF IsSeq
<1>6. Known(documents[i], row) <=> \E j \in 1 .. Len(row) : row[j] = documents[i]
  BY <1>5 DEF Known
<1> HIDE DEF row
<1>7. ASSUME NEW j \in 1 .. Len(row), row[j] = documents[i]
      PROVE  \/ documents[i] \in Elements(printed)
             \/ \E k \in 1 .. Len(documents) : k < i /\ documents[k] = documents[i]
  <2>1. CASE j <= Len(printed)
    BY <1>4, <1>5, <1>7, <2>1 DEF Elements
  <2>2. CASE j > Len(printed)
    <3>1. PICK k \in 1 .. Len(start) : j = Len(printed) + k
      <4>1. j - Len(printed) \in 1 .. Len(start) /\ j = Len(printed) + (j - Len(printed))
        BY <1>4, <1>5, <2>2
      <4>2. QED
        BY <4>1
    <3>2. k \in 1 .. Len(documents) /\ k < i /\ documents[k] = documents[i]
      BY <1>1, <1>2, <1>4, <1>7, <3>1
    <3>3. QED
      BY <3>2
  <2>3. QED
    BY <1>4, <1>5, <2>1, <2>2
<1>8. ASSUME documents[i] \in Elements(printed)
      PROVE  \E j \in 1 .. Len(row) : row[j] = documents[i]
  <2>1. PICK j \in 1 .. Len(printed) : printed[j] = documents[i]
    BY <1>8 DEF Elements
  <2>2. j \in 1 .. Len(row) /\ row[j] = documents[i]
    BY <1>4, <1>5, <2>1
  <2>3. QED
    BY <2>2
<1>9. ASSUME NEW k \in 1 .. Len(documents), k < i, documents[k] = documents[i]
      PROVE  \E j \in 1 .. Len(row) : row[j] = documents[i]
  <2>1. k \in 1 .. Len(start) /\ start[k] = documents[i]
    BY <1>1, <1>2, <1>9
  <2>2. Len(printed) + k \in 1 .. Len(row) /\ row[Len(printed) + k] = documents[i]
    BY <1>4, <1>5, <2>1
  <2>3. QED
    BY <2>2
<1>10. QED
  BY <1>6, <1>7, <1>8, <1>9 DEF row, start

LEMMA LeastNumber ==
    ASSUME NEW T \in SUBSET Nat, T # {}
    PROVE  \E m \in T : \A k \in T : m <= k
<1>1. PICK m \in T : \A k \in T : ~(<<k, m>> \in OpToRel(<, Nat))
  BY NatLessThanWellFounded, WFMin
<1>2. \A k \in T : ~(k < m)
  BY <1>1 DEF OpToRel
<1>3. QED
  BY <1>2

LEMMA FirstExists ==
    ASSUME NEW printed, NEW documents, IsSeq(documents), NEW i \in 1 .. Len(documents),
           documents[i] \notin Elements(printed)
    PROVE  \E j \in FirstOf(printed, documents) : documents[j] = documents[i]
<1> DEFINE T == {k \in 1 .. Len(documents) : documents[k] = documents[i]}
<1>1. T \in SUBSET Nat /\ T # {} /\ \A k \in T : documents[k] = documents[i]
  BY DEF IsSeq
<1>2. PICK j \in T : \A k \in T : j <= k
  <2> HIDE DEF T
  <2>1. QED
    BY <1>1, LeastNumber
<1>3. \A k \in 1 .. Len(documents) : k < j => documents[k] # documents[j]
  BY <1>1, <1>2
<1>4. j \in FirstOf(printed, documents)
  BY <1>3 DEF FirstOf
<1>5. QED
  BY <1>4

\* What is shown after some documents have been met: no more of them, and in
\* the flat mode none twice.
LEMMA ShownFacts ==
    ASSUME NEW m, NEW printed, IsSeq(printed), NEW documents, IsSeq(documents)
    PROVE  LET s == Shown(m, printed, documents) IN
           /\ IsSeq(s) /\ Len(s) <= Len(printed) + Len(documents)
           /\ Elements(s) = Elements(printed) \cup Elements(documents)
           /\ m = "flat" /\ Distinct(printed) => Distinct(s)
<1> DEFINE I == FirstOf(printed, documents)
           more == IF m = "flat" THEN Keep(documents, I) ELSE documents
           s == printed \o more
<1>1. /\ Len(documents) \in Nat /\ DOMAIN documents = 1 .. Len(documents)
      /\ Len(printed) \in Nat
  BY DEF IsSeq
<1>2. Shown(m, printed, documents) = s
  <2>1. {i \in DOMAIN documents : ~Known(documents[i], printed \o SubSeq(documents, 1, i - 1))} = I
    BY <1>1, KnownMeans DEF FirstOf
  <2>2. QED
    BY <2>1 DEF Shown
<1>3. I \in SUBSET (1 .. Len(documents)) /\ IsFiniteSet(1 .. Len(documents))
      /\ Cardinality(1 .. Len(documents)) = Len(documents)
  <2>1. PICK k \in Nat : k = Len(documents)
    BY <1>1
  <2>2. IsFiniteSet(1 .. k) /\ Cardinality(1 .. k) = k
    BY FS_Interval
  <2>3. QED
    BY <2>1, <2>2 DEF FirstOf
<1>4. IsFiniteSet(I) /\ Cardinality(I) <= Len(documents) /\ I \in SUBSET Nat
  BY <1>1, <1>3, FS_Subset
<1>5. ASSUME m = "flat" PROVE Cut(more, documents, I)
  <2> HIDE DEF I
  <2>1. QED
    BY <1>4, <1>5, KeepCuts
<1>6. /\ IsSeq(more) /\ Len(more) \in Nat /\ Len(more) <= Len(documents)
      /\ \A n \in 1 .. Len(more) : more[n] \in Elements(documents)
  <2>1. CASE m = "flat"
    <3>1. /\ IsSeq(more) /\ Len(more) = Cardinality(I)
          /\ \A n \in 1 .. Len(more) : \E i \in I : more[n] = documents[i]
      <4> HIDE DEF I, more
      <4>1. QED
        BY <1>5, <2>1 DEF Cut
    <3>2. \A i \in I : documents[i] \in Elements(documents)
      BY <1>3 DEF Elements
    <3> HIDE DEF I, more
    <3>3. QED
      BY <1>4, <3>1, <3>2 DEF IsSeq
  <2>2. CASE m # "flat"
    <3>1. more = documents
      BY <2>2
    <3> HIDE DEF more
    <3>2. QED
      BY <1>1, <3>1 DEF Elements
  <2>3. QED
    BY <2>1, <2>2
<1>7. ASSUME NEW i \in 1 .. Len(documents)
      PROVE  documents[i] \in Elements(printed) \/ documents[i] \in Elements(more)
  <2>1. CASE m = "flat" /\ documents[i] \notin Elements(printed)
    <3>1. PICK j \in I : documents[j] = documents[i]
      BY <2>1, FirstExists
    <3>2. \A k \in I : \E n \in 1 .. Len(more) : more[n] = documents[k]
      <4> HIDE DEF I, more
      <4>1. QED
        BY <1>5, <2>1 DEF Cut
    <3> HIDE DEF I, more
    <3>3. PICK n \in 1 .. Len(more) : more[n] = documents[j]
      BY <3>1, <3>2
    <3>4. QED
      BY <3>1, <3>3 DEF Elements
  <2>2. CASE m # "flat"
    <3>1. more = documents
      BY <2>2
    <3> HIDE DEF more
    <3>2. QED
      BY <3>1 DEF Elements
  <2>3. QED
    BY <2>1, <2>2
<1>8. ASSUME m = "flat"
      PROVE  Distinct(more) /\ \A n \in 1 .. Len(more) : more[n] \notin Elements(printed)
  <2>1. \A i, j \in I : documents[i] = documents[j] => i = j
    <3> SUFFICES ASSUME NEW i \in I, NEW j \in I, documents[i] = documents[j] PROVE i = j
      OBVIOUS
    <3>1. i \in Int /\ j \in Int /\ ~(i < j) /\ ~(j < i)
      BY <1>1 DEF FirstOf
    <3>2. QED
      BY <3>1
  <2>2. \A i \in I : documents[i] \notin Elements(printed)
    BY DEF FirstOf
  <2> HIDE DEF I, more
  <2>3. /\ \A n \in 1 .. Len(more) : \E i \in I : more[n] = documents[i]
        /\ \A n, k \in 1 .. Len(more) : more[n] = more[k] => n = k
    BY <1>5, <1>8, <2>1 DEF Cut
  <2>4. QED
    BY <2>2, <2>3 DEF Distinct
<1> HIDE DEF I, more
<1>9. /\ IsSeq(s) /\ Len(s) = Len(printed) + Len(more)
      /\ \A i \in 1 .. Len(printed) : s[i] = printed[i]
      /\ \A i \in 1 .. Len(more) : s[Len(printed) + i] = more[i]
  BY <1>6, AppendingPages
<1> HIDE DEF s
<1>10. ASSUME NEW n \in 1 .. Len(s)
       PROVE  \/ n \in 1 .. Len(printed) /\ s[n] = printed[n]
              \/ \E i \in 1 .. Len(more) : n = Len(printed) + i /\ s[n] = more[i]
  <2>1. CASE n <= Len(printed)
    BY <1>1, <1>9, <2>1
  <2>2. CASE n > Len(printed)
    <3>1. n - Len(printed) \in 1 .. Len(more) /\ n = Len(printed) + (n - Len(printed))
      BY <1>1, <1>6, <1>9, <2>2
    <3>2. QED
      BY <1>9, <3>1
  <2>3. QED
    BY <1>1, <2>1, <2>2
<1>11. Elements(s) = Elements(printed) \cup Elements(documents)
  <2>1. \A n \in 1 .. Len(s) : s[n] \in Elements(printed) \cup Elements(documents)
    BY <1>6, <1>10 DEF Elements
  <2>2. \A n \in 1 .. Len(printed) : n \in 1 .. Len(s) /\ s[n] = printed[n]
    BY <1>1, <1>6, <1>9
  <2>3. \A n \in 1 .. Len(more) : Len(printed) + n \in 1 .. Len(s) /\ s[Len(printed) + n] = more[n]
    BY <1>1, <1>6, <1>9
  <2>4. Elements(printed) \subseteq Elements(s) /\ Elements(more) \subseteq Elements(s)
    BY <2>2, <2>3 DEF Elements
  <2>5. Elements(documents) \subseteq Elements(s)
    BY <1>7, <2>4 DEF Elements
  <2>6. QED
    BY <2>1, <2>4, <2>5 DEF Elements
<1>12. ASSUME m = "flat", Distinct(printed) PROVE Distinct(s)
  <2> SUFFICES ASSUME NEW i \in 1 .. Len(s), NEW j \in 1 .. Len(s), s[i] = s[j] PROVE i = j
    BY DEF Distinct
  <2>1. \A n \in 1 .. Len(printed) : printed[n] \in Elements(printed)
    BY DEF Elements
  <2>2. CASE i \in 1 .. Len(printed) /\ j \in 1 .. Len(printed)
    BY <1>9, <1>12, <2>2 DEF Distinct
  <2>3. CASE i \in 1 .. Len(printed) /\ j \notin 1 .. Len(printed)
    <3>1. PICK b \in 1 .. Len(more) : s[j] = more[b]
      BY <1>10, <2>3
    <3>2. s[i] \in Elements(printed)
      BY <1>9, <2>1, <2>3
    <3>3. QED
      BY <1>8, <1>12, <3>1, <3>2
  <2>4. CASE i \notin 1 .. Len(printed) /\ j \in 1 .. Len(printed)
    <3>1. PICK b \in 1 .. Len(more) : s[i] = more[b]
      BY <1>10, <2>4
    <3>2. s[j] \in Elements(printed)
      BY <1>9, <2>1, <2>4
    <3>3. QED
      BY <1>8, <1>12, <3>1, <3>2
  <2>5. CASE i \notin 1 .. Len(printed) /\ j \notin 1 .. Len(printed)
    <3>1. PICK a \in 1 .. Len(more) : i = Len(printed) + a /\ s[i] = more[a]
      BY <1>10, <2>5
    <3>2. PICK b \in 1 .. Len(more) : j = Len(printed) + b /\ s[j] = more[b]
      BY <1>10, <2>5
    <3>3. a = b
      BY <1>8, <1>12, <3>1, <3>2 DEF Distinct
    <3>4. QED
      BY <3>1, <3>2, <3>3
  <2>6. QED
    BY <2>2, <2>3, <2>4, <2>5
<1>13. QED
  BY <1>1, <1>2, <1>6, <1>9, <1>11, <1>12 DEF s

-----------------------------------------------------------------------------
(* The rows of a folder.                                                   *)

RowsOf(f, entries) == {Row(e) : e \in In(f, entries)}

PlacesInv == place \in [Entries -> Nowhere \cup Places] /\ Apart(place)

LEMMA RowsOfFolder ==
    ASSUME PlacesInv, NEW f, NEW entries \in SUBSET Entries
    PROVE  /\ RowsOf(f, entries) \in SUBSET Rows /\ IsFiniteSet(RowsOf(f, entries))
           /\ NamesApart(RowsOf(f, entries))
           /\ \A e \in In(f, entries) : place[e] \in Places /\ Row(e) \in Rows /\ Row(e)[1] = e
<1>1. ASSUME NEW e \in In(f, entries)
      PROVE  /\ e \in Entries /\ place[e] \in Places /\ place[e].parent = f /\ place[e].name \in Names
             /\ Row(e) \in Rows /\ Row(e)[1] = e /\ Row(e)[2] = place[e].name
  <2>1. e \in Entries /\ place[e] \in Places /\ place[e].parent = f
    BY DEF In, Exists, PlacesInv
  <2>2. place[e].name \in Names
    BY <2>1 DEF Places
  <2>3. QED
    BY <2>1, <2>2 DEF Row, Rows
<1>2. RowsOf(f, entries) \in SUBSET Rows
  BY <1>1 DEF RowsOf
<1>3. NamesApart(RowsOf(f, entries))
  <2> SUFFICES ASSUME NEW d \in In(f, entries), NEW e \in In(f, entries), Row(d)[2] = Row(e)[2]
               PROVE  Row(d) = Row(e)
    BY DEF NamesApart, RowsOf
  <2>1. place[d].name = place[e].name
    BY <1>1
  <2>2. d = e
    BY <1>1, <2>1 DEF PlacesInv, Apart
  <2>3. QED
    BY <2>2
<1>4. IsFiniteSet(RowsOf(f, entries))
  <2>1. IsFiniteSet(In(f, entries))
    BY ListingAssumption, FS_Subset DEF In
  <2> DEFINE row == [e \in In(f, entries) |-> Row(e)]
  <2>2. row \in Surjection(In(f, entries), RowsOf(f, entries))
    BY DEF Surjection, RowsOf
  <2>3. QED
    BY <2>1, <2>2, FS_Surjection
<1>5. QED
  BY <1>1, <1>2, <1>3, <1>4

\* A folder stays as it is while nothing is changed.
Sorted(rows) == InOrder(rows, LAMBDA d, e : d[2] < e[2])

LEMMA FoldersStay ==
    ASSUME UNCHANGED place, NEW f
    PROVE  /\ \A entries : In(f, entries)' = In(f, entries) /\ RowsOf(f, entries)' = RowsOf(f, entries)
           /\ EntriesOf(f)' = EntriesOf(f)
<1>1. ASSUME NEW entries PROVE In(f, entries)' = In(f, entries) /\ RowsOf(f, entries)' = RowsOf(f, entries)
  BY DEF In, Exists, RowsOf, Row
<1>2. EntriesOf(f) = Sorted(RowsOf(f, Entries)) /\ EntriesOf(f)' = Sorted(RowsOf(f, Entries)')
  BY DEF EntriesOf, RowsOf, Sorted, InOrder
<1>3. QED
  BY <1>1, <1>2

\* What folderEntries returns while nothing changes between its two critical
\* sections is the folder, whichever of two equal paths would come first.
LEMMA UndisturbedPage ==
    ASSUME PlacesInv, found = RowsOf(folder, Documents), NEW documentsFirst
    PROVE  /\ Listed(documentsFirst) = EntriesOf(folder)
           /\ Cardinality(Sections) = Len(EntriesOf(folder))
<1> DEFINE rows == RowsOf(folder, Entries)
           Before(d, e) == \/ d[2] < e[2]
                           \/ d[2] = e[2] /\ d[1] # e[1] /\ (d[1] \in Documents) = documentsFirst
           Listing1(i) == CHOOSE e \in rows : Cardinality({d \in rows : Before(d, e)}) = i - 1
           Listing2(i) == CHOOSE e \in rows : Cardinality({d \in rows : d[2] < e[2]}) = i - 1
<1>1. Sections = rows
  BY DEF Sections, RowsOf, In, Entries
<1>2. rows \in SUBSET Rows /\ IsFiniteSet(rows) /\ NamesApart(rows)
  BY RowsOfFolder
<1>3. /\ Listed(documentsFirst) = [i \in 1 .. Cardinality(rows) |-> Listing1(i)]
      /\ EntriesOf(folder) = [i \in 1 .. Cardinality(rows) |-> Listing2(i)]
  BY <1>1 DEF Listed, EntriesOf, InOrder, RowsOf
<1> HIDE DEF rows
<1>4. ASSUME NEW e \in rows
      PROVE  {d \in rows : Before(d, e)} = {d \in rows : d[2] < e[2]}
  <2>1. ASSUME NEW d \in rows, d[2] = e[2] PROVE d[1] = e[1]
    BY <1>2, <2>1 DEF NamesApart
  <2>2. QED
    BY <2>1
<1> HIDE DEF Before
<1>5. ASSUME NEW i \in 1 .. Cardinality(rows) PROVE Listing1(i) = Listing2(i)
  <2>1. \A e \in rows : (Cardinality({d \in rows : Before(d, e)}) = i - 1)
                    <=> (Cardinality({d \in rows : d[2] < e[2]}) = i - 1)
    BY <1>4
  <2>2. QED
    BY <2>1, Zenon
<1> HIDE DEF Listing1, Listing2
<1>6. Listed(documentsFirst) = EntriesOf(folder)
  BY <1>3, <1>5
<1>7. Len(Listed(documentsFirst)) = Cardinality(Sections)
  BY <1>1, <1>2, InOrderIsSeq
<1>8. QED
  BY <1>6, <1>7

-----------------------------------------------------------------------------
(* The invariant of a listing.                                             *)

\* What has been collected is as long as the offset says, and while nobody
\* has changed anything, it is the beginning of the folder.
PagesInv ==
    /\ state = "ok" => IsSeq(got)
    /\ state \in {"asked", "half"} =>
          /\ IsSeq(got) /\ offset = Len(got)
          /\ stayed \subseteq In(folder, Entries)
          /\ before # None => /\ before = EntriesOf(folder) /\ offset <= Len(before)
                              /\ \A i \in 1 .. offset : got[i] = before[i]

\* The half-made page has the documents that were in the folder, and so all
\* that have stayed there.
HalfInv ==
    state = "half" =>
        /\ IsFiniteSet(found)
        /\ \A e \in stayed \cap Documents : \E r \in found : r[1] = e
        /\ before # None => found = RowsOf(folder, Documents)

ListingInv == PlacesInv /\ PagesInv /\ HalfInv /\ UndisturbedListingIsExact /\ EmptyListingMissesNothing

\* Where a listing starts.
LEMMA StartKeeps ==
    ASSUME ListingInv, NEW f, Start(f), UNCHANGED device
    PROVE  ListingInv'
<1> USE DEF device, Start
<1>1. PlacesInv'
  BY DEF ListingInv, PlacesInv, Apart
<1>2. In(f, Entries)' = In(f, Entries) /\ EntriesOf(f)' = EntriesOf(f)
  BY FoldersStay
<1>3. IsSeq(got') /\ Len(got') = 0
  BY DEF IsSeq
<1>4. Len(EntriesOf(f)) \in Nat
  <2>1. EntriesOf(f) = InOrder(RowsOf(f, Entries), LAMBDA d, e : d[2] < e[2])
    BY DEF EntriesOf, RowsOf
  <2>2. /\ EntriesOf(f) \in [1 .. Cardinality(RowsOf(f, Entries)) -> RowsOf(f, Entries)]
        /\ Cardinality(RowsOf(f, Entries)) \in Nat
    BY <2>1, RowsOfFolder, InOrderSorts, FS_CardinalityType DEF ListingInv
  <2>3. QED
    BY <2>2
<1>5. PagesInv'
  BY <1>2, <1>3, <1>4 DEF PagesInv
<1>6. HalfInv' /\ UndisturbedListingIsExact' /\ EmptyListingMissesNothing'
  BY DEF HalfInv, UndisturbedListingIsExact, EmptyListingMissesNothing
<1>7. QED
  BY <1>1, <1>5, <1>6 DEF ListingInv

\* The handler copies the documents.
LEMMA TakeDocumentsKeeps ==
    ASSUME ListingInv, TakeDocuments, UNCHANGED device
    PROVE  ListingInv'
<1> USE DEF device, TakeDocuments
<1>1. PlacesInv'
  BY DEF ListingInv, PlacesInv, Apart
<1>2. PagesInv'
  <2> DEFINE Same(f) == In(f, Entries)' = In(f, Entries) /\ EntriesOf(f)' = EntriesOf(f)
  <2>1. \A f : Same(f)
    BY FoldersStay
  <2>2. QED
    BY <2>1 DEF ListingInv, PagesInv
<1>3. HalfInv'
  <2>1. found' = RowsOf(folder, Documents) /\ RowsOf(folder, Documents)' = RowsOf(folder, Documents)
    BY DEF RowsOf, In, Exists, Row
  <2>2. IsFiniteSet(found')
    BY <2>1, RowsOfFolder DEF ListingInv, Entries
  <2>3. ASSUME NEW e \in stayed' \cap Documents PROVE \E r \in found' : r[1] = e
    <3>1. e \in In(folder, Documents)
      BY <2>3 DEF ListingInv, PagesInv, In
    <3>2. Row(e) \in found' /\ Row(e)[1] = e
      BY <2>1, <3>1 DEF RowsOf, Row
    <3>3. QED
      BY <3>2
  <2>4. QED
    BY <2>1, <2>2, <2>3 DEF HalfInv
<1>4. UndisturbedListingIsExact' /\ EmptyListingMissesNothing'
  BY DEF UndisturbedListingIsExact, EmptyListingMissesNothing
<1>5. QED
  BY <1>1, <1>2, <1>3, <1>4 DEF ListingInv

\* The handler copies the folders and answers; the client takes the page.
LEMMA TakePageKeeps ==
    ASSUME ListingInv, TakePage, UNCHANGED device
    PROVE  ListingInv'
<1>1. PICK documentsFirst \in BOOLEAN :
          LET page == Page(Listed(documentsFirst))
              count == Cardinality(Sections)
          IN  /\ state = "half"
              /\ got' = got \o page
              /\ IF Enough(got', count)
                 THEN state' = "ok" /\ UNCHANGED offset
                 ELSE /\ state' = IF page = << >> THEN "stopped" ELSE "asked"
                      /\ offset' = Advance(page)
              /\ found' = {}
              /\ UNCHANGED <<folder, stayed, before>>
  BY DEF TakePage
<1> DEFINE entries == Listed(documentsFirst)
           page == Page(entries)
           count == Cardinality(Sections)
<1>2. /\ IsSeq(got) /\ offset = Len(got) /\ offset \in Nat /\ stayed \subseteq In(folder, Entries)
      /\ IsFiniteSet(found) /\ \A e \in stayed \cap Documents : \E r \in found : r[1] = e
  BY <1>1 DEF ListingInv, PagesInv, HalfInv, IsSeq
<1>3. IsFiniteSet(Sections) /\ Sections = found \cup RowsOf(folder, Folders)
  <2>1. Sections = found \cup RowsOf(folder, Folders)
    BY DEF Sections, RowsOf
  <2>2. IsFiniteSet(RowsOf(folder, Folders))
    BY RowsOfFolder DEF ListingInv, Entries
  <2>3. QED
    BY <1>2, <2>1, <2>2, FS_Union
<1>4. IsSeq(entries) /\ Len(entries) = count /\ count \in Nat
  BY <1>3, InOrderIsSeq, FS_CardinalityType
<1> HIDE DEF entries
<1>5. /\ IsSeq(page) /\ Len(page) \in Nat
      /\ offset >= Len(entries) => Len(page) = 0
      /\ offset < Len(entries) => Len(page) > 0 /\ offset + Len(page) <= Len(entries)
      /\ \A i \in 1 .. Len(page) : page[i] = entries[offset + i]
  BY <1>2, <1>4, PageFacts DEF IsSeq
<1> HIDE DEF page, count
<1>6. /\ state = "half" /\ got' = got \o page /\ found' = {} /\ UNCHANGED <<folder, stayed, before>>
      /\ IF Enough(got', count)
         THEN state' = "ok" /\ UNCHANGED offset
         ELSE state' = (IF page = << >> THEN "stopped" ELSE "asked") /\ offset' = Advance(page)
  BY <1>1 DEF entries, page, count
<1>7. /\ IsSeq(got') /\ Len(got') = offset + Len(page)
      /\ \A i \in 1 .. offset : got'[i] = got[i]
      /\ \A i \in 1 .. Len(page) : got'[offset + i] = page[i]
  BY <1>2, <1>5, <1>6, AppendingPages
<1>8. state' \in {"ok", "asked"}
  <2>1. CASE page = << >> /\ ~Enough(got', count)
    <3>1. Len(page) = 0 /\ Len(got') < count
      BY <1>2, <1>4, <1>5, <1>7, <2>1 DEF Enough
    <3>2. QED
      BY <1>2, <1>4, <1>5, <1>7, <3>1
  <2>2. QED
    BY <1>6, <2>1
<1>9. ASSUME before # None
      PROVE  /\ before = entries /\ Len(got') <= Len(before)
             /\ \A i \in 1 .. Len(got') : got'[i] = before[i]
  <2>1. /\ found = RowsOf(folder, Documents) /\ before = EntriesOf(folder)
        /\ offset <= Len(before) /\ \A i \in 1 .. offset : got[i] = before[i]
    BY <1>6, <1>9 DEF ListingInv, PagesInv, HalfInv
  <2>2. before = entries
    BY <2>1, UndisturbedPage DEF ListingInv, entries
  <2>3. Len(got') <= Len(before)
    BY <1>2, <1>4, <1>5, <1>7, <2>1, <2>2
  <2>4. ASSUME NEW i \in 1 .. Len(got') PROVE got'[i] = before[i]
    <3>1. CASE i <= offset
      BY <1>2, <1>7, <2>1, <3>1
    <3>2. CASE i > offset
      <4>1. PICK j \in 1 .. Len(page) : i = offset + j
        <5>1. i - offset \in 1 .. Len(page) /\ i = offset + (i - offset)
          BY <1>2, <1>5, <1>7, <3>2
        <5>2. QED
          BY <5>1
      <4>2. QED
        BY <1>5, <1>7, <2>2, <4>1
    <3>3. QED
      BY <1>2, <1>5, <1>7, <3>1, <3>2
  <2>5. QED
    BY <2>2, <2>3, <2>4
<1>10. PlacesInv'
  BY DEF device, ListingInv, PlacesInv, Apart
<1>11. PagesInv'
  <2> SUFFICES ASSUME state' = "asked" PROVE PagesInv'
    BY <1>7, <1>8 DEF PagesInv
  <2>1. offset' = Len(got')
    BY <1>6, <1>7 DEF Advance
  <2> DEFINE Same(f) == In(f, Entries)' = In(f, Entries) /\ EntriesOf(f)' = EntriesOf(f)
  <2>2. \A f : Same(f)
    BY FoldersStay DEF device
  <2>3. stayed' \subseteq In(folder, Entries)'
    BY <1>2, <1>6, <2>2
  <2>4. before # None => before = EntriesOf(folder)'
    BY <1>6, <2>2 DEF ListingInv, PagesInv
  <2>5. QED
    BY <1>6, <1>7, <1>9, <2>1, <2>3, <2>4 DEF PagesInv
<1>12. HalfInv'
  BY <1>8 DEF HalfInv
<1>13. UndisturbedListingIsExact'
  <2>1. ASSUME before # None, state' = "ok" PROVE got' = before
    <3>1. Len(got') >= count
      BY <1>6, <2>1 DEF Enough
    <3>2. Len(got') = Len(before)
      BY <1>2, <1>4, <1>5, <1>7, <1>9, <2>1, <3>1
    <3>3. IsSeq(before)
      BY <1>4, <1>9, <2>1
    <3>4. QED
      BY <1>7, <1>9, <2>1, <3>2, <3>3 DEF IsSeq
  <2>2. QED
    BY <1>6, <1>8, <2>1 DEF UndisturbedListingIsExact
<1>14. EmptyListingMissesNothing'
  <2> SUFFICES ASSUME state' = "ok", got' = << >> PROVE stayed = {}
    BY <1>6 DEF EmptyListingMissesNothing
  <2>1. count = 0
    BY <1>4, <1>6 DEF Enough
  <2>2. found = {} /\ RowsOf(folder, Folders) = {}
    BY <1>3, <2>1, FS_EmptySet DEF count
  <2>3. QED
    BY <1>2, <2>2 DEF RowsOf, In, Entries
<1>15. QED
  BY <1>10, <1>11, <1>12, <1>13, <1>14 DEF ListingInv

\* A request fails.
LEMMA PageFailsKeeps ==
    ASSUME ListingInv, PageFails, UNCHANGED device
    PROVE  ListingInv'
<1> USE DEF device, PageFails
<1>1. PlacesInv'
  BY DEF ListingInv, PlacesInv, Apart
<1>2. PagesInv' /\ HalfInv' /\ UndisturbedListingIsExact' /\ EmptyListingMissesNothing'
  BY DEF PagesInv, HalfInv, UndisturbedListingIsExact, EmptyListingMissesNothing
<1>3. QED
  BY <1>1, <1>2 DEF ListingInv

\* Another client creates, renames, moves or deletes an entry: what has stayed
\* in the folder until now and does not go is still there.
LEMMA ChangesKeep ==
    ASSUME ListingInv, NEW e \in Entries, Change(e), Witness,
           UNCHANGED <<folder, state, found, offset, got>>
    PROVE  ListingInv'
<1>1. PlacesInv'
  <2>1. CASE PutEntry(e)
    <3>1. PICK f \in Parents, n \in Names :
              ~Taken(f, n) /\ place' = [place EXCEPT ![e] = [parent |-> f, name |-> n]]
      BY <2>1 DEF PutEntry
    <3> DEFINE new == [parent |-> f, name |-> n]
    <3>2. new \in Places /\ new.parent = f /\ new.name = n
      BY DEF Parents, Places
    <3> HIDE DEF new
    <3>3. place \in [Entries -> Nowhere \cup Places] /\ Apart(place)
      BY DEF ListingInv, PlacesInv
    <3>4. place' \in [Entries -> Nowhere \cup Places]
      BY <3>1, <3>2, <3>3 DEF new
    <3>5. \A d \in Entries : place'[d] = IF d = e THEN new ELSE place[d]
      BY <3>1, <3>3 DEF new
    <3>6. \A d \in Entries : place[d] \in Places /\ place[d].parent = f => place[d].name # n
      BY <3>1, ListingAssumption DEF Taken, In, Exists
    <3>7. Apart(place')
      BY <3>2, <3>3, <3>5, <3>6 DEF Apart
    <3>8. QED
      BY <3>4, <3>7 DEF PlacesInv
  <2>2. CASE RemoveEntry(e)
    <3>1. place' = [place EXCEPT ![e] = Gone] /\ Gone \notin Places
      BY <2>2, ListingAssumption DEF RemoveEntry, Nowhere
    <3>2. QED
      BY <3>1 DEF ListingInv, PlacesInv, Apart, Nowhere
  <2>3. QED
    BY <2>1, <2>2 DEF Change
<1>2. stayed' = stayed \cap In(folder, Entries)' /\ before' = None
  BY DEF Witness, In, Exists
<1>3. PagesInv'
  BY <1>2 DEF ListingInv, PagesInv
<1>4. HalfInv'
  BY <1>2 DEF ListingInv, HalfInv
<1>5. UndisturbedListingIsExact' /\ EmptyListingMissesNothing'
  BY <1>2 DEF ListingInv, UndisturbedListingIsExact, EmptyListingMissesNothing
<1>6. QED
  BY <1>1, <1>3, <1>4, <1>5 DEF ListingInv

\* The command takes what was listed, or is told that the listing failed.
LEMMA TakingKeeps ==
    ASSUME ListingInv, state' = "idle", UNCHANGED device
    PROVE  ListingInv'
<1>1. PlacesInv'
  BY DEF device, ListingInv, PlacesInv, Apart
<1>2. PagesInv' /\ HalfInv' /\ UndisturbedListingIsExact' /\ EmptyListingMissesNothing'
  BY DEF PagesInv, HalfInv, UndisturbedListingIsExact, EmptyListingMissesNothing
<1>3. QED
  BY <1>1, <1>2 DEF ListingInv

\* Nothing happens to the listing.
LEMMA RestKeeps ==
    ASSUME ListingInv, UNCHANGED listingVars
    PROVE  ListingInv'
<1> USE DEF listingVars, device, listing
<1>1. PlacesInv'
  BY DEF ListingInv, PlacesInv, Apart
<1> DEFINE Same(f) == /\ In(f, Entries)' = In(f, Entries) /\ EntriesOf(f)' = EntriesOf(f)
                      /\ RowsOf(f, Documents)' = RowsOf(f, Documents)
<1>2. \A f : Same(f)
  BY FoldersStay
<1>3. PagesInv'
  BY <1>2 DEF ListingInv, PagesInv
<1>4. HalfInv'
  BY <1>2 DEF ListingInv, HalfInv
<1>5. UndisturbedListingIsExact' /\ EmptyListingMissesNothing'
  BY DEF ListingInv, UndisturbedListingIsExact, EmptyListingMissesNothing
<1>6. QED
  BY <1>1, <1>3, <1>4, <1>5 DEF ListingInv

-----------------------------------------------------------------------------
(* Theorems.                                                               *)

\* A command searches or walks, not both.
OneAtATime == status = "walking" => search # "searching"

LEMMA InitKeeps == Init => ListingInv /\ OneAtATime
<1> SUFFICES ASSUME Init PROVE ListingInv /\ OneAtATime
  OBVIOUS
<1>1. place = SeedPlaces /\ state = "idle" /\ status = "idle"
  BY DEF Init, SelectionInit, ListingInit
<1>2. PlacesInv
  BY <1>1, ListingAssumption DEF PlacesInv
<1>3. PagesInv /\ HalfInv /\ UndisturbedListingIsExact /\ EmptyListingMissesNothing
  BY <1>1 DEF PagesInv, HalfInv, UndisturbedListingIsExact, EmptyListingMissesNothing
<1>4. QED
  BY <1>1, <1>2, <1>3 DEF ListingInv, OneAtATime

\* What a step of a command is to its listing.
LEMMA StepsOfAListing ==
    ASSUME Next
    PROVE  \/ \E f : Start(f) /\ UNCHANGED device
           \/ (Read \/ PageFails) /\ UNCHANGED device
           \/ \E e \in Entries : Change(e) /\ Witness /\ UNCHANGED <<folder, state, found, offset, got>>
           \/ state' = "idle" /\ UNCHANGED device
           \/ UNCHANGED listingVars
<1>1. CASE Glob
  BY <1>1 DEF Glob
<1>2. CASE StartWalk
  BY <1>2 DEF StartWalk, WalkFromObject, WalkFromRoot, WalkFromMatches, StartFrom
<1>3. CASE Search
  BY <1>3 DEF Search, ListNext, Examine, Descend, Select, SearchFails
<1>4. CASE Walk
  <2>1. CASE Visit
    BY <2>1 DEF Visit, listing, listingVars
  <2>2. CASE Collect \/ GiveUp \/ Finish
    BY <2>2 DEF Collect, GiveUp, Finish
  <2>3. QED
    BY <1>4, <2>1, <2>2 DEF Walk
<1>5. CASE ReadPage
  BY <1>5 DEF ReadPage
<1>6. CASE Disturb
  BY <1>6 DEF Disturb
<1>7. QED
  BY <1>1, <1>2, <1>3, <1>4, <1>5, <1>6 DEF Next, Run

LEMMA NextKeepsListing == ListingInv /\ [Next]_vars => ListingInv'
<1> SUFFICES ASSUME ListingInv, [Next]_vars PROVE ListingInv'
  OBVIOUS
<1>1. CASE Next
  BY <1>1, StepsOfAListing, StartKeeps, TakeDocumentsKeeps, TakePageKeeps, PageFailsKeeps, ChangesKeep,
     TakingKeeps, RestKeeps DEF Read
<1>2. CASE UNCHANGED vars
  BY <1>2, RestKeeps DEF vars
<1>3. QED
  BY <1>1, <1>2

LEMMA NextKeepsOneAtATime == OneAtATime /\ [Next]_vars => OneAtATime'
<1> SUFFICES ASSUME OneAtATime, [Next]_vars PROVE OneAtATime'
  OBVIOUS
<1> USE DEF OneAtATime
<1>1. CASE status = "idle" /\ Glob /\ UNCHANGED walk
  BY <1>1 DEF walk
<1>2. CASE StartWalk
  BY <1>2 DEF StartWalk, WalkFromObject, WalkFromRoot, WalkFromMatches, StartFrom, selection
<1>3. CASE Search /\ UNCHANGED walk
  BY <1>3 DEF Search, ListNext, Examine, Descend, Select, SearchFails, walk
<1>4. CASE Walk
  BY <1>4 DEF Walk, Visit, Collect, GiveUp, Finish, selection
<1>5. CASE ReadPage \/ Disturb
  BY <1>5 DEF ReadPage, Disturb, selection, walk
<1>6. CASE UNCHANGED vars
  BY <1>6 DEF vars, selection, walk
<1>7. QED
  BY <1>1, <1>2, <1>3, <1>4, <1>5, <1>6 DEF Next, Run

\* The inductive invariant of listings.
THEOREM Invariance == Spec => []ListingInv
<1>1. Init => ListingInv
  BY InitKeeps
<1>2. QED
  BY <1>1, NextKeepsListing, PTL DEF Spec

\* A listing that nobody disturbs returns the folder's entries in their order,
\* whatever the page size, and none runs into the end of its folder before it
\* has what the last page announced (entries.go, listEntries).
THEOREM UndisturbedListingsAreExact == Spec => []UndisturbedListingIsExact
<1>1. ListingInv => UndisturbedListingIsExact
  BY DEF ListingInv
<1>2. QED
  BY <1>1, Invariance, PTL

\* An empty listing overlooks no entry that was in the folder all the time
\* (delete.go, DeleteEmpty asks for the deletion after one).
THEOREM EmptyListingsMissNothing == Spec => []EmptyListingMissesNothing
<1>1. ListingInv => EmptyListingMissesNothing
  BY DEF ListingInv
<1>2. QED
  BY <1>1, Invariance, PTL

-----------------------------------------------------------------------------
(* A flat walk shows no document twice.                                    *)

FlatInv ==
    /\ IsSeq(matches) /\ IsSeq(shown)
    /\ mode = "flat" => Distinct(shown)

LEMMA EmptyIsSeq == IsSeq(<< >>) /\ Len(<< >>) = 0 /\ Elements(<< >>) = {} /\ Distinct(<< >>)
<1>1. IsSeq(<< >>) /\ Len(<< >>) = 0
  BY DEF IsSeq
<1>2. QED
  BY <1>1 DEF Elements, Distinct

LEMMA FittingCuts ==
    ASSUME IsSeq(got)
    PROVE  LET I == {i \in 1 .. Len(got) : Fits(got[i])}
               t == Keep(got, {i \in DOMAIN got : Fits(got[i])})
           IN  I \in SUBSET (1 .. Len(got)) /\ IsFiniteSet(I) /\ Cut(t, got, I)
<1> DEFINE I == {i \in 1 .. Len(got) : Fits(got[i])}
<1>1. I = {i \in DOMAIN got : Fits(got[i])}
  BY DEF IsSeq
<1>2. PICK k \in Nat : k = Len(got)
  BY DEF IsSeq
<1>3. IsFiniteSet(1 .. k)
  BY FS_Interval
<1>4. I \in SUBSET (1 .. k) /\ I \in SUBSET Nat
  BY <1>2
<1> HIDE DEF I
<1>5. IsFiniteSet(I)
  BY <1>3, <1>4, FS_Subset
<1>6. Cut(Keep(got, I), got, I)
  BY <1>4, <1>5, KeepCuts
<1>7. QED
  BY <1>1, <1>2, <1>4, <1>5, <1>6 DEF I

\* The sequences a walk starts from.
LEMMA StartsKeepFlat ==
    ASSUME NEW rows, IsSeq(rows), StartFrom(rows), IsSeq(matches)
    PROVE  FlatInv'
<1>1. IsSeq(DocumentsOf(rows))
  BY TypedFacts DEF DocumentsOf, Typed
<1>2. /\ IsSeq(Shown(mode', << >>, DocumentsOf(rows)))
      /\ mode' = "flat" => Distinct(Shown(mode', << >>, DocumentsOf(rows)))
  BY <1>1, EmptyIsSeq, ShownFacts
<1>3. QED
  BY <1>2 DEF StartFrom, selection, FlatInv

LEMMA OneRowIsSeq ==
    ASSUME NEW e
    PROVE  IsSeq(<<e>>) /\ Len(<<e>>) = 1 /\ <<e>>[1] = e
<1>1. <<e>> \in Seq({e}) /\ Len(<<e>>) = 1 /\ <<e>>[1] = e
  OBVIOUS
<1>2. PICK s : s = <<e>> /\ s \in Seq({e})
  BY <1>1
<1>3. s = [i \in 1 .. Len(s) |-> s[i]] /\ Len(s) \in Nat
  BY <1>2
<1>4. QED
  BY <1>1, <1>2, <1>3 DEF IsSeq

LEMMA StepsKeepFlat == ListingInv /\ FlatInv /\ [Next]_vars => FlatInv'
<1> SUFFICES ASSUME ListingInv, FlatInv, [Next]_vars PROVE FlatInv'
  OBVIOUS
<1>1. CASE Glob /\ UNCHANGED walk
  BY <1>1, EmptyIsSeq DEF Glob, walk, FlatInv
<1>2. CASE StartWalk
  <2>1. CASE WalkFromObject \/ WalkFromRoot
    <3>1. PICK row : StartFrom(<<row>>)
      BY <2>1 DEF WalkFromObject, WalkFromRoot
    <3>2. IsSeq(<<row>>)
      BY OneRowIsSeq
    <3>3. QED
      BY <3>1, <3>2, StartsKeepFlat DEF FlatInv
  <2>2. CASE WalkFromMatches
    BY <2>2, StartsKeepFlat DEF WalkFromMatches, FlatInv
  <2>3. QED
    BY <1>2, <2>1, <2>2 DEF StartWalk
<1>3. CASE Search /\ UNCHANGED walk
  <2>1. CASE Examine
    <3> DEFINE fitting == Keep(got, {i \in DOMAIN got : Fits(got[i])})
    <3>1. IsSeq(got)
      BY <2>1 DEF Examine, ListingInv, PagesInv
    <3>2. IsSeq(fitting)
      BY <3>1, FittingCuts DEF Cut
    <3>3. IsSeq(matches \o fitting)
      BY <3>2, AppendingPages DEF FlatInv
    <3>4. matches' = matches \/ matches' = matches \o fitting
      BY <2>1 DEF Examine
    <3>5. QED
      BY <1>3, <3>3, <3>4 DEF FlatInv, walk
  <2>2. CASE Select
    <3>1. IsSeq(OfType(matches, wanted))
      BY OfTypeCuts DEF Cut, FlatInv
    <3>2. QED
      BY <1>3, <2>2, <3>1 DEF Select, FlatInv, walk
  <2>3. CASE ListNext \/ Descend \/ SearchFails
    BY <1>3, <2>3 DEF ListNext, Descend, SearchFails, FlatInv, walk
  <2>4. QED
    BY <1>3, <2>1, <2>2, <2>3 DEF Search
<1>4. CASE Collect
  <2>1. IsSeq(got)
    BY <1>4 DEF Collect, ListingInv, PagesInv
  <2>2. IsSeq(DocumentsOf(got))
    BY <2>1, TypedFacts DEF DocumentsOf, Typed
  <2>3. /\ IsSeq(Shown(mode, shown, DocumentsOf(got)))
        /\ mode = "flat" => Distinct(Shown(mode, shown, DocumentsOf(got)))
    BY <2>2, ShownFacts DEF FlatInv
  <2>4. QED
    BY <1>4, <2>3 DEF Collect, FlatInv, selection
<1>5. CASE Visit \/ GiveUp \/ Finish
  BY <1>5 DEF Visit, GiveUp, Finish, FlatInv, selection
<1>6. CASE ReadPage \/ Disturb
  BY <1>6 DEF ReadPage, Disturb, FlatInv, selection, walk
<1>7. CASE UNCHANGED vars
  BY <1>7 DEF vars, FlatInv, selection, walk
<1>8. QED
  BY <1>1, <1>2, <1>3, <1>4, <1>5, <1>6, <1>7 DEF Next, Run, Walk

\* ls -G shows a document once, even when it moves from a folder that was
\* listed to one that is listed later (main.go, collectGlobalDocuments).
THEOREM FlatListingsShowDocumentsOnce == Spec => []FlatShowsDocumentsOnce
<1>1. Init => FlatInv
  BY EmptyIsSeq DEF Init, SelectionInit, FlatInv
<1>2. FlatInv => FlatShowsDocumentsOnce
  <2> SUFFICES ASSUME FlatInv, mode = "flat" PROVE IsInjective(shown)
    BY DEF FlatShowsDocumentsOnce
  <2>1. DOMAIN shown = 1 .. Len(shown) /\ Distinct(shown)
    BY DEF FlatInv, IsSeq
  <2>2. QED
    BY <2>1 DEF Distinct, IsInjective
<1>3. QED
  BY <1>1, <1>2, StepsKeepFlat, Invariance, PTL DEF Spec

-----------------------------------------------------------------------------
(* What a command that nobody disturbs is told of a folder.                *)

\* Only a command that runs lists anything, and while nobody changes the tree
\* the listing is of the folder as it is.
CalmInv ==
    /\ state # "idle" => Running
    /\ calm /\ state \in {"asked", "half", "ok"} => before = EntriesOf(folder)

LEMMA EntriesOfFacts ==
    ASSUME PlacesInv, NEW f
    PROVE  LET s == EntriesOf(f) IN
           /\ IsSeq(s) /\ Len(s) = Cardinality(In(f, Entries)) /\ s # None
           /\ \A i \in 1 .. Len(s) : s[i] \in Rows /\ s[i][1] \in In(f, Entries) /\ s[i] = Row(s[i][1])
           /\ \A e \in In(f, Entries) : \E i \in 1 .. Len(s) : s[i][1] = e
           /\ \A i, j \in 1 .. Len(s) : s[i][1] = s[j][1] => i = j
<1> DEFINE rows == RowsOf(f, Entries)
           n == Cardinality(rows)
<1>1. /\ rows \in SUBSET Rows /\ IsFiniteSet(rows) /\ NamesApart(rows)
      /\ \A e \in In(f, Entries) : Row(e) \in Rows /\ Row(e)[1] = e
  BY RowsOfFolder
<1>2. PICK s : s = EntriesOf(f)
  OBVIOUS
<1>3. s = InOrder(rows, LAMBDA d, e : d[2] < e[2])
  BY <1>2 DEF EntriesOf, RowsOf
<1>4. \A r \in rows : r[1] \in In(f, Entries) /\ r = Row(r[1])
  BY <1>1 DEF RowsOf
<1>5. \A e \in In(f, Entries) : Row(e) \in rows
  BY DEF RowsOf
<1>6. n \in Nat /\ Cardinality(In(f, Entries)) = n
  <2> DEFINE row == [e \in In(f, Entries) |-> Row(e)]
  <2>1. row \in Surjection(In(f, Entries), rows)
    BY <1>5 DEF Surjection, RowsOf
  <2>2. row \in Injection(In(f, Entries), rows)
    <3>1. \A d, e \in In(f, Entries) : Row(d) = Row(e) => d = e
      <4> SUFFICES ASSUME NEW d \in In(f, Entries), NEW e \in In(f, Entries), Row(d) = Row(e)
                   PROVE  d = e
        OBVIOUS
      <4>1. Row(d)[1] = d /\ Row(e)[1] = e
        BY <1>1
      <4>2. QED
        BY <4>1
    <3>2. QED
      BY <1>5, <3>1 DEF Injection, IsInjective
  <2>3. IsFiniteSet(In(f, Entries))
    BY ListingAssumption, FS_Subset DEF In
  <2> HIDE DEF row, rows
  <2>4. Cardinality(rows) = Cardinality(In(f, Entries))
    BY <2>1, <2>2, <2>3, FS_Surjection
  <2>5. Cardinality(rows) \in Nat
    BY <1>1, FS_CardinalityType
  <2>6. QED
    BY <2>4, <2>5
<1> HIDE DEF rows
<1>7. /\ s \in [1 .. n -> rows]
      /\ \A i, j \in 1 .. n : i < j => s[i][2] < s[j][2]
      /\ \A r \in rows : \E i \in 1 .. n : s[i] = r
  BY <1>1, <1>3, InOrderSorts
<1> HIDE DEF n
<1>8. Len(s) = n /\ IsSeq(s)
  <2>1. Len(s) = n
    BY <1>6, <1>7
  <2>2. s = [i \in 1 .. n |-> s[i]]
    BY <1>7
  <2>3. QED
    BY <1>6, <2>1, <2>2 DEF IsSeq
<1>9. ASSUME NEW i \in 1 .. n
      PROVE  s[i] \in rows /\ s[i] \in Rows /\ s[i][1] \in In(f, Entries) /\ s[i] = Row(s[i][1])
  BY <1>1, <1>4, <1>7
<1>10. ASSUME NEW e \in In(f, Entries) PROVE \E i \in 1 .. n : s[i][1] = e
  <2>1. PICK i \in 1 .. n : s[i] = Row(e)
    BY <1>5, <1>7
  <2>2. s[i][1] = e
    BY <1>1, <2>1
  <2>3. QED
    BY <2>2
<1>11. ASSUME NEW i \in 1 .. n, NEW j \in 1 .. n, s[i][1] = s[j][1] PROVE i = j
  <2>1. s[i] = s[j]
    BY <1>9, <1>11
  <2>2. s[i][2] \in Int /\ s[j][2] \in Int
    BY <1>9, RowFacts
  <2>3. ~(i < j) /\ ~(j < i)
    BY <1>7, <2>1, <2>2
  <2>4. QED
    BY <1>6, <2>3
<1>12. s # None
  <2> SUFFICES ASSUME s = None PROVE FALSE
    OBVIOUS
  <2>1. IsSeq(<< <<Root, -1>> >>) /\ Len(<< <<Root, -1>> >>) = 1 /\ << <<Root, -1>> >>[1] = <<Root, -1>>
    BY OneRowIsSeq
  <2>2. Len(s) = 1 /\ s[1] = <<Root, -1>>
    BY <2>1 DEF None
  <2>3. 1 \in 1 .. n
    BY <1>8, <2>2
  <2>4. s[1][1] \in Entries
    BY <1>9, <2>3 DEF In
  <2>5. s[1][1] = Root
    BY <2>2
  <2>6. QED
    BY <2>4, <2>5, ListingAssumption
<1>13. QED
  BY <1>2, <1>6, <1>8, <1>9, <1>10, <1>11, <1>12

\* What was collected of a folder is the folder.
Holds(rows, f) ==
    /\ IsSeq(rows) /\ Len(rows) = Cardinality(In(f, Entries))
    /\ \A i \in 1 .. Len(rows) : rows[i] \in Rows /\ rows[i][1] \in In(f, Entries) /\ rows[i] = Row(rows[i][1])
    /\ \A e \in In(f, Entries) : \E i \in 1 .. Len(rows) : rows[i][1] = e
    /\ \A i, j \in 1 .. Len(rows) : rows[i][1] = rows[j][1] => i = j

LEMMA GotTheFolder ==
    ASSUME ListingInv, CalmInv, calm, state = "ok"
    PROVE  Holds(got, folder)
<1>1. before = EntriesOf(folder)
  BY DEF CalmInv
<1>2. PICK s : s = EntriesOf(folder)
  OBVIOUS
<1>3. Holds(s, folder) /\ s # None
  BY <1>2, EntriesOfFacts DEF Holds, ListingInv
<1>4. got = s
  BY <1>1, <1>2, <1>3 DEF ListingInv, UndisturbedListingIsExact
<1>5. QED
  BY <1>3, <1>4

LEMMA StepsKeepCalm == CalmInv /\ OneAtATime /\ [Next]_vars => CalmInv'
<1> SUFFICES ASSUME CalmInv, OneAtATime, [Next]_vars PROVE CalmInv'
  OBVIOUS
<1> USE DEF CalmInv, Running
<1>1. CASE (status = "idle" /\ Glob) \/ StartWalk
  <2>1. state = "idle" /\ state' = state
    BY <1>1 DEF OneAtATime, Glob, StartWalk, WalkFromObject, WalkFromRoot, WalkFromMatches, StartFrom,
                listingVars, listing
  <2>2. QED
    BY <2>1
<1>2. CASE (ListNext /\ UNCHANGED walk) \/ Visit
  <2>1. CASE \E f : Start(f) /\ UNCHANGED device
    <3>1. PICK f : Start(f) /\ UNCHANGED device
      BY <2>1
    <3>2. folder' = f /\ before' = EntriesOf(f) /\ EntriesOf(f)' = EntriesOf(f)
      BY <3>1, FoldersStay DEF Start, device
    <3>3. before' = EntriesOf(folder)'
      BY <3>2
    <3>4. QED
      BY <1>2, <3>3 DEF ListNext, Visit, walk, selection
  <2>2. CASE state' = "idle"
    BY <2>2
  <2>3. QED
    BY <1>2, <2>1, <2>2 DEF ListNext, Visit, listing
<1>3. CASE ReadPage
  <2> DEFINE Same(f) == EntriesOf(f)' = EntriesOf(f)
  <2>1. \A f : Same(f)
    BY <1>3, FoldersStay DEF ReadPage, device
  <2>2. /\ Running' /\ UNCHANGED <<folder, before, calm>> /\ state \in {"asked", "half"}
    BY <1>3 DEF ReadPage, Read, TakeDocuments, TakePage, PageFails, selection, walk
  <2>3. QED
    BY <2>1, <2>2
<1>4. CASE Examine \/ SearchFails \/ Collect \/ GiveUp \/ Descend \/ Select \/ Finish
  <2>1. state' = "idle"
    BY <1>4 DEF Examine, SearchFails, Collect, GiveUp, Descend, Select, Finish, listingVars, listing
  <2>2. QED
    BY <2>1
<1>5. CASE Disturb
  BY <1>5 DEF Disturb, selection, walk
<1>6. CASE UNCHANGED vars
  <2> DEFINE Same(f) == EntriesOf(f)' = EntriesOf(f)
  <2>1. \A f : Same(f)
    BY <1>6, FoldersStay DEF vars, listingVars, device
  <2>2. QED
    BY <1>6, <2>1 DEF vars, listingVars, listing, selection, walk
<1>7. QED
  BY <1>1, <1>2, <1>3, <1>4, <1>5, <1>6 DEF Next, Run, Search, Walk

LEMMA InitIsCalm == Init => CalmInv
  BY DEF Init, SelectionInit, ListingInit, CalmInv

-----------------------------------------------------------------------------
(* The tree.                                                               *)

LEMMA ParentsAreFolders ==
    ASSUME PlacesInv, NEW f, NEW e \in In(f, Entries)
    PROVE  /\ f \in {Root} \cup Folders /\ e \in Entries /\ e # Root /\ place[e].name \in Names
           /\ \A g : e \in In(g, Entries) => g = f
<1>1. e \in Entries /\ place[e] \in Places /\ place[e].parent = f
  BY DEF In, Exists, PlacesInv
<1>2. f \in {Root} \cup Folders /\ place[e].name \in Names
  BY <1>1 DEF Places
<1>3. \A g : e \in In(g, Entries) => g = f
  BY <1>1 DEF In
<1>4. QED
  BY <1>1, <1>2, <1>3, ListingAssumption

LEMMA FoldersAreFinite ==
    ASSUME NEW f
    PROVE  In(f, Entries) \in SUBSET Entries /\ IsFiniteSet(In(f, Entries))
  BY ListingAssumption, FS_Subset DEF In

\* What lies in the members of a set.
Under(set) == UNION {In(f, Entries) : f \in set}

LEMMA UnderIsFinite ==
    ASSUME NEW set
    PROVE  /\ Under(set) \in SUBSET Entries /\ IsFiniteSet(Under(set))
           /\ Cardinality(Under(set)) \in Nat
<1>1. Under(set) \in SUBSET Entries
  BY DEF Under, In
<1>2. IsFiniteSet(Under(set))
  BY <1>1, ListingAssumption, FS_Subset
<1>3. QED
  BY <1>1, <1>2, FS_CardinalityType

LEMMA UnderGrows ==
    ASSUME NEW set, NEW more, Under(set) \subseteq Under(more)
    PROVE  Cardinality(Under(set)) <= Cardinality(Under(more))
  BY UnderIsFinite, FS_Subset

\* A folder that was not among them adds what is in it, and nothing twice.
LEMMA UnderOneMore ==
    ASSUME PlacesInv, NEW set, NEW f, f \notin set
    PROVE  Cardinality(Under(set \cup {f})) = Cardinality(Under(set)) + Cardinality(In(f, Entries))
<1>1. Under(set \cup {f}) = Under(set) \cup In(f, Entries)
  BY DEF Under
<1>2. Under(set) \cap In(f, Entries) = {}
  BY ParentsAreFolders DEF Under
<1>3. IsFiniteSet(Under(set)) /\ IsFiniteSet(In(f, Entries)) /\ Cardinality(Under(set)) \in Nat
      /\ Cardinality(In(f, Entries)) \in Nat
  BY UnderIsFinite, FoldersAreFinite, FS_CardinalityType
<1>4. PICK S, T : S = Under(set) /\ T = In(f, Entries)
  OBVIOUS
<1>5. Cardinality(S \cup T) = Cardinality(S) + Cardinality(T) - Cardinality(S \cap T)
  BY <1>3, <1>4, FS_Union
<1>6. S \cap T = {} /\ Cardinality({}) = 0
  BY <1>2, <1>4, FS_EmptySet
<1>7. Cardinality(S \cup T) = Cardinality(S) + Cardinality(T)
  <2>1. Cardinality(S \cap T) = 0 /\ Cardinality(S) \in Nat /\ Cardinality(T) \in Nat
    BY <1>3, <1>4, <1>6
  <2>2. QED
    BY <1>5, <2>1
<1>8. QED
  BY <1>1, <1>4, <1>7

-----------------------------------------------------------------------------
(* What a pattern stands for.                                              *)

LEMMA ExpansionStarts ==
    ASSUME NEW p
    PROVE  Expansion(p, 0) = {Root}
<1>1. ASSUME NEW path \in Paths(p, 0) PROVE path[0] = Root
  BY DEF Paths
<1>2. PICK start : start = [k \in 0 .. 0 |-> Root]
  OBVIOUS
<1>3. start \in [0 .. 0 -> Entries \cup {Root}] /\ start[0] = Root /\ 1 .. 0 = {}
  BY <1>2
<1>4. start \in Paths(p, 0)
  BY <1>3 DEF Paths
<1>5. QED
  BY <1>1, <1>3, <1>4 DEF Expansion

LEMMA ExpansionGoesOn ==
    ASSUME NEW p, NEW n \in Nat
    PROVE  Expansion(p, n + 1) =
              {e \in Entries : \E f \in Expansion(p, n) : e \in In(f, Entries) /\ place[e].name \in p[n + 1]}
<1>1. ASSUME NEW e \in Expansion(p, n + 1)
      PROVE  e \in Entries /\ \E f \in Expansion(p, n) : e \in In(f, Entries) /\ place[e].name \in p[n + 1]
  <2>1. PICK path \in Paths(p, n + 1) : e = path[n + 1]
    BY <1>1 DEF Expansion
  <2>2. /\ path \in [0 .. (n + 1) -> Entries \cup {Root}] /\ path[0] = Root
        /\ \A k \in 1 .. (n + 1) : path[k] \in In(path[k - 1], Entries) /\ place[path[k]].name \in p[k]
    BY <2>1 DEF Paths
  <2> DEFINE start == [k \in 0 .. n |-> path[k]]
  <2>3. n + 1 \in 1 .. (n + 1) /\ (n + 1) - 1 = n /\ n \in 0 .. n /\ 0 \in 0 .. n
    OBVIOUS
  <2>4. /\ start \in [0 .. n -> Entries \cup {Root}] /\ start[0] = Root /\ start[n] = path[n]
    BY <2>2, <2>3
  <2>5. \A k \in 1 .. n : start[k] \in In(start[k - 1], Entries) /\ place[start[k]].name \in p[k]
    <3> SUFFICES ASSUME NEW k \in 1 .. n
                 PROVE  start[k] \in In(start[k - 1], Entries) /\ place[start[k]].name \in p[k]
      OBVIOUS
    <3>1. k \in 0 .. n /\ k - 1 \in 0 .. n /\ k \in 1 .. (n + 1)
      OBVIOUS
    <3>2. start[k] = path[k] /\ start[k - 1] = path[k - 1]
      BY <3>1
    <3>3. QED
      BY <2>2, <3>1, <3>2
  <2>6. start \in Paths(p, n)
    BY <2>4, <2>5 DEF Paths
  <2>7. path[n] \in Expansion(p, n)
    BY <2>4, <2>6 DEF Expansion
  <2>8. path[n + 1] \in In(path[n], Entries) /\ place[path[n + 1]].name \in p[n + 1]
    BY <2>2, <2>3
  <2>9. QED
    BY <2>1, <2>7, <2>8 DEF In
<1>2. ASSUME NEW e \in Entries, NEW f \in Expansion(p, n), e \in In(f, Entries), place[e].name \in p[n + 1]
      PROVE  e \in Expansion(p, n + 1)
  <2>1. PICK path \in Paths(p, n) : f = path[n]
    BY DEF Expansion
  <2>2. /\ path \in [0 .. n -> Entries \cup {Root}] /\ path[0] = Root
        /\ \A k \in 1 .. n : path[k] \in In(path[k - 1], Entries) /\ place[path[k]].name \in p[k]
    BY <2>1 DEF Paths
  <2> DEFINE longer == [k \in 0 .. (n + 1) |-> IF k = n + 1 THEN e ELSE path[k]]
  <2>3. /\ longer \in [0 .. (n + 1) -> Entries \cup {Root}] /\ longer[0] = Root /\ longer[n + 1] = e
        /\ \A k \in 0 .. n : longer[k] = path[k]
    <3>1. \A k \in 0 .. (n + 1) : k = n + 1 \/ k \in 0 .. n
      OBVIOUS
    <3>2. longer \in [0 .. (n + 1) -> Entries \cup {Root}]
      BY <2>2, <3>1
    <3>3. 0 \in 0 .. (n + 1) /\ 0 # n + 1 /\ n + 1 \in 0 .. (n + 1)
      OBVIOUS
    <3>4. \A k \in 0 .. n : k \in 0 .. (n + 1) /\ k # n + 1
      OBVIOUS
    <3>5. QED
      BY <2>2, <3>2, <3>3, <3>4
  <2> HIDE DEF longer
  <2>4. ASSUME NEW k \in 1 .. (n + 1)
        PROVE  longer[k] \in In(longer[k - 1], Entries) /\ place[longer[k]].name \in p[k]
    <3>1. CASE k = n + 1
      <4>1. k - 1 = n /\ n \in 0 .. n
        BY <3>1
      <4>2. longer[k - 1] = f /\ longer[k] = e
        BY <2>1, <2>3, <3>1, <4>1
      <4>3. QED
        BY <1>2, <3>1, <4>2
    <3>2. CASE k # n + 1
      <4>1. k \in 1 .. n /\ k \in 0 .. n /\ k - 1 \in 0 .. n
        BY <3>2
      <4>2. longer[k - 1] = path[k - 1] /\ longer[k] = path[k]
        BY <2>3, <4>1
      <4>3. QED
        BY <2>2, <4>1, <4>2
    <3>3. QED
      BY <3>1, <3>2
  <2>5. longer \in Paths(p, n + 1)
    BY <2>3, <2>4 DEF Paths
  <2>6. QED
    BY <2>3, <2>5 DEF Expansion
<1>3. QED
  BY <1>1, <1>2

LEMMA RootIsAbove ==
    ASSUME NEW p, NEW n \in Nat
    PROVE  Root \notin Expansion(p, n + 1)
<1>1. Expansion(p, n + 1) \subseteq Entries
  BY ExpansionGoesOn
<1>2. QED
  BY <1>1, ListingAssumption

\* An entry is found on one level only: its parents lead to the root in so
\* many steps, cycles elsewhere or not.
LEMMA LevelsAreApart ==
    ASSUME PlacesInv, NEW p, NEW n \in Nat, NEW m \in Nat, n # m
    PROVE  Expansion(p, n) \cap Expansion(p, m) = {}
<1> DEFINE Clash(a, b) == \E e : e \in Expansion(p, a) /\ e \in Expansion(p, b)
           T == {a \in Nat : \E b \in Nat : a < b /\ Clash(a, b)}
<1>1. T = {}
  <2> SUFFICES ASSUME T # {} PROVE FALSE
    OBVIOUS
  <2>1. PICK a \in T : \A c \in T : a <= c
    <3> HIDE DEF Clash
    <3>1. T \in SUBSET Nat
      OBVIOUS
    <3> HIDE DEF T
    <3>2. QED
      BY <3>1, LeastNumber
  <2>2. PICK b \in Nat : a \in Nat /\ a < b /\ Clash(a, b)
    OBVIOUS
  <2>3. PICK e : e \in Expansion(p, a) /\ e \in Expansion(p, b)
    BY <2>2
  <2>4. PICK c \in Nat : b = c + 1
    <3>1. b - 1 \in Nat /\ b = (b - 1) + 1
      BY <2>2
    <3>2. QED
      BY <3>1
  <2>5. PICK f \in Expansion(p, c) : e \in In(f, Entries)
    BY <2>4, <2>3, ExpansionGoesOn
  <2>6. CASE a = 0
    <3>1. e = Root
      BY <2>6, <2>3, ExpansionStarts
    <3>2. QED
      BY <2>5, <3>1, ParentsAreFolders
  <2>7. CASE a # 0
    <3>1. PICK d \in Nat : a = d + 1
      <4>1. a - 1 \in Nat /\ a = (a - 1) + 1
        BY <2>2, <2>7
      <4>2. QED
        BY <4>1
    <3>2. PICK g \in Expansion(p, d) : e \in In(g, Entries)
      BY <2>3, <3>1, ExpansionGoesOn
    <3>3. f = g
      BY <2>5, <3>2, ParentsAreFolders
    <3>4. d < c /\ Clash(d, c) /\ ~(a <= d)
      BY <2>2, <2>4, <2>5, <3>1, <3>2, <3>3
    <3> HIDE DEF Clash
    <3>5. d \in T
      BY <3>4
    <3>6. QED
      BY <2>1, <3>4, <3>5
  <2>8. QED
    BY <2>6, <2>7
<1>2. CASE n < m
  BY <1>1, <1>2
<1>3. CASE m < n
  BY <1>1, <1>3
<1>4. QED
  BY <1>2, <1>3

\* Where no folder matches, nothing deeper does.
LEMMA ExpansionEnds ==
    ASSUME PlacesInv, NEW p, NEW n \in Nat, Expansion(p, n) \cap ({Root} \cup Folders) = {},
           NEW m \in Nat, n < m
    PROVE  Expansion(p, m) = {}
<1> DEFINE T == {a \in Nat : n < a /\ Expansion(p, a) # {}}
<1>1. T = {}
  <2> SUFFICES ASSUME T # {} PROVE FALSE
    OBVIOUS
  <2>1. PICK a \in T : \A c \in T : a <= c
    <3>1. T \in SUBSET Nat
      OBVIOUS
    <3> HIDE DEF T
    <3>2. QED
      BY <3>1, LeastNumber
  <2>2. a \in Nat /\ n < a /\ Expansion(p, a) # {}
    OBVIOUS
  <2>3. PICK c \in Nat : a = c + 1
    <3>1. a - 1 \in Nat /\ a = (a - 1) + 1
      BY <2>2
    <3>2. QED
      BY <3>1
  <2>4. PICK e, f : f \in Expansion(p, c) /\ e \in In(f, Entries)
    BY <2>2, <2>3, ExpansionGoesOn
  <2>5. f \in {Root} \cup Folders
    BY <2>4, ParentsAreFolders
  <2>6. c # n
    BY <2>4, <2>5
  <2>7. n < c /\ ~(a <= c)
    BY <2>2, <2>3, <2>6
  <2>8. c \in T
    BY <2>4, <2>7
  <2>9. QED
    BY <2>1, <2>7, <2>8
<1>2. QED
  BY <1>1

LEMMA ExpansionStays ==
    ASSUME UNCHANGED place, NEW p, NEW n
    PROVE  Expansion(p, n)' = Expansion(p, n)
<1>1. Paths(p, n)' = Paths(p, n)
  BY DEF Paths, In, Exists
<1>2. QED
  BY <1>1 DEF Expansion

-----------------------------------------------------------------------------
(* A search level by level, in terms of sets.                              *)

\* The folders on the first levels, and the entries in some of them that fit
\* the segment of the next one.
Levels(p, n) == UNION {Expansion(p, k) : k \in 0 .. n - 1}
Fitting(p, l, set) ==
    {e \in Entries : \E f \in set : e \in In(f, Entries) /\ place[e].name \in p[l]}

\* On level l of pattern p the folders of a set are still to be listed. The
\* others gave the folders to go on with or the matches, and have been counted
\* with those of the levels above.
Searched(p, l, pending) == Expansion(p, l - 1) \ pending
SearchOK(p, l, pending, next, fits, count) ==
    /\ pending \subseteq Expansion(p, l - 1)
    /\ next = (IF l = Len(p) THEN {} ELSE Fitting(p, l, Searched(p, l, pending)) \cap Folders)
    /\ fits = (IF l = Len(p) THEN Fitting(p, l, Searched(p, l, pending)) ELSE {})
    /\ count = Cardinality(Under(Levels(p, l - 1) \cup Searched(p, l, pending)))
    /\ count <= Limit

LEMMA SearchOKStays ==
    ASSUME UNCHANGED place, NEW p, NEW l, NEW pending, NEW next, NEW fits, NEW count,
           SearchOK(p, l, pending, next, fits, count)
    PROVE  SearchOK(p, l, pending, next, fits, count)'
<1>1. \A n : Expansion(p, n)' = Expansion(p, n)
  BY ExpansionStays
<1>2. Levels(p, l - 1)' = Levels(p, l - 1) /\ Searched(p, l, pending)' = Searched(p, l, pending)
  BY <1>1 DEF Levels, Searched
<1>3. \A set : Fitting(p, l, set)' = Fitting(p, l, set) /\ Under(set)' = Under(set)
  BY DEF Fitting, Under, In, Exists
<1>4. PICK set : set = Searched(p, l, pending) /\ set = Searched(p, l, pending)'
  BY <1>2
<1>5. PICK all : all = Levels(p, l - 1) \cup Searched(p, l, pending)
                 /\ all = (Levels(p, l - 1) \cup Searched(p, l, pending))'
  BY <1>2
<1>6. Fitting(p, l, Searched(p, l, pending))' = Fitting(p, l, Searched(p, l, pending))
  BY <1>3, <1>4
<1>7. Under(Levels(p, l - 1) \cup Searched(p, l, pending))' = Under(Levels(p, l - 1) \cup Searched(p, l, pending))
  BY <1>3, <1>5
<1>8. QED
  BY <1>1, <1>6, <1>7 DEF SearchOK

LEMMA SearchBegins ==
    ASSUME NEW p, Len(p) \in Nat
    PROVE  SearchOK(p, 1, {Root}, {}, {}, 0)
<1>1. Expansion(p, 1 - 1) = {Root}
  BY ExpansionStarts
<1>2. Searched(p, 1, {Root}) = {} /\ Levels(p, 1 - 1) = {}
  BY <1>1 DEF Searched, Levels
<1>3. Fitting(p, 1, {}) = {} /\ Under({}) = {} /\ Cardinality({}) = 0
  BY FS_EmptySet DEF Fitting, Under
<1>4. 0 <= Limit
  BY PatternAssumption
<1>5. QED
  BY <1>1, <1>2, <1>3, <1>4 DEF SearchOK

LEMMA LevelsEnd ==
    ASSUME NEW p, NEW n \in Nat
    PROVE  Levels(p, n + 1) = Levels(p, n) \cup Expansion(p, n)
<1>1. 0 .. (n + 1) - 1 = (0 .. n - 1) \cup {n}
  OBVIOUS
<1>2. QED
  BY <1>1 DEF Levels

\* One more folder is listed.
LEMMA SearchGoesOn ==
    ASSUME PlacesInv, NEW p, NEW l \in Nat \ {0}, Len(p) \in Nat, l <= Len(p),
           NEW pending, NEW next, NEW fits, NEW count,
           SearchOK(p, l, pending, next, fits, count), NEW f \in pending
    PROVE  LET new == Fitting(p, l, {f})
               sum == count + Cardinality(In(f, Entries))
           IN  /\ Over(sum) => Cardinality(Under(Levels(p, Len(p)))) > Limit
               /\ ~Over(sum) =>
                     SearchOK(p, l, pending \ {f},
                              IF l = Len(p) THEN next ELSE next \cup (new \cap Folders),
                              IF l = Len(p) THEN fits \cup new ELSE fits, sum)
               /\ new \cap next = {} /\ new \cap fits = {}
<1> DEFINE done == Searched(p, l, pending)
           more == Searched(p, l, pending \ {f})
           new == Fitting(p, l, {f})
           sum == count + Cardinality(In(f, Entries))
<1>1. f \in Expansion(p, l - 1) /\ more = done \cup {f} /\ f \notin done
  BY DEF SearchOK, Searched
<1>2. f \notin Levels(p, l - 1)
  <2> SUFFICES ASSUME NEW k \in 0 .. (l - 1) - 1, f \in Expansion(p, k) PROVE FALSE
    BY DEF Levels
  <2>1. k \in Nat /\ l - 1 \in Nat /\ k # l - 1
    OBVIOUS
  <2>2. QED
    BY <1>1, <2>1, LevelsAreApart
<1>3. Cardinality(Under(Levels(p, l - 1) \cup more)) = sum
  <2>1. PICK set : set = Levels(p, l - 1) \cup done
    OBVIOUS
  <2>2. f \notin set /\ set \cup {f} = Levels(p, l - 1) \cup more
    BY <1>1, <1>2, <2>1
  <2>3. Cardinality(Under(set \cup {f})) = Cardinality(Under(set)) + Cardinality(In(f, Entries))
    BY <2>2, UnderOneMore
  <2>4. count = Cardinality(Under(set))
    BY <2>1 DEF SearchOK
  <2> HIDE DEF more
  <2>5. QED
    BY <2>2, <2>3, <2>4
<1>4. Fitting(p, l, more) = Fitting(p, l, done) \cup new
  BY <1>1 DEF Fitting
<1>5. Fitting(p, l, done) \cap new = {}
  <2> SUFFICES ASSUME NEW e \in Entries, NEW g \in done, e \in In(g, Entries), e \in In(f, Entries)
               PROVE  FALSE
    BY DEF Fitting
  <2>1. g = f
    BY ParentsAreFolders
  <2>2. QED
    BY <1>1, <2>1
<1>6. ASSUME Over(sum) PROVE Cardinality(Under(Levels(p, Len(p)))) > Limit
  <2>1. Levels(p, l - 1) \cup more \subseteq Levels(p, Len(p))
    <3>1. PICK k \in Nat : l - 1 = k
      OBVIOUS
    <3>2. Levels(p, k) \cup Expansion(p, k) \subseteq Levels(p, Len(p))
      BY <3>1 DEF Levels
    <3>3. more \subseteq Expansion(p, l - 1)
      BY DEF Searched
    <3>4. QED
      BY <3>1, <3>2, <3>3
  <2>2. PICK set, all : set = Levels(p, l - 1) \cup more /\ all = Levels(p, Len(p))
    OBVIOUS
  <2>3. Cardinality(Under(set)) <= Cardinality(Under(all))
    <3>1. Under(set) \subseteq Under(all)
      BY <2>1, <2>2 DEF Under
    <3>2. QED
      BY <3>1, UnderGrows
  <2>4. Cardinality(Under(set)) \in Nat /\ Cardinality(Under(all)) \in Nat
    BY UnderIsFinite
  <2>5. Cardinality(Under(set)) > Limit /\ Limit \in Nat
    BY <1>3, <1>6, <2>2, PatternAssumption DEF Over
  <2>6. QED
    BY <2>2, <2>3, <2>4, <2>5
<1>7. ASSUME ~Over(sum) PROVE sum <= Limit
  <2>1. sum \in Nat
    BY <1>3, UnderIsFinite
  <2> HIDE DEF sum
  <2>2. QED
    BY <1>7, <2>1, PatternAssumption DEF Over
<1>8. pending \ {f} \subseteq Expansion(p, l - 1)
  BY DEF SearchOK
<1>9. new \cap next = {} /\ new \cap fits = {}
  BY <1>5 DEF SearchOK
<1>10. /\ next = (IF l = Len(p) THEN {} ELSE Fitting(p, l, done) \cap Folders)
       /\ fits = (IF l = Len(p) THEN Fitting(p, l, done) ELSE {})
  BY DEF SearchOK
<1> HIDE DEF done, new, sum
<1>11. ASSUME ~Over(sum)
       PROVE  SearchOK(p, l, pending \ {f},
                       IF l = Len(p) THEN next ELSE next \cup (new \cap Folders),
                       IF l = Len(p) THEN fits \cup new ELSE fits, sum)
  BY <1>3, <1>4, <1>7, <1>8, <1>10, <1>11 DEF SearchOK
<1>12. QED
  BY <1>6, <1>9, <1>11 DEF new, sum

\* All folders of a level are listed: what fits is the next level.
LEMMA LevelIsFitting ==
    ASSUME NEW p, NEW l \in Nat \ {0}
    PROVE  Fitting(p, l, Searched(p, l, {})) = Expansion(p, l) /\ Searched(p, l, {}) = Expansion(p, l - 1)
<1>1. PICK n \in Nat : l = n + 1
  <2>1. l - 1 \in Nat /\ l = (l - 1) + 1
    OBVIOUS
  <2>2. QED
    BY <2>1
<1>2. l - 1 = n /\ Searched(p, l, {}) = Expansion(p, n)
  BY <1>1 DEF Searched
<1>3. PICK set : set = Expansion(p, n)
  OBVIOUS
<1>4. Expansion(p, n + 1) = {e \in Entries : \E f \in set : e \in In(f, Entries) /\ place[e].name \in p[n + 1]}
  BY <1>3, ExpansionGoesOn
<1>5. Fitting(p, n + 1, set) = Expansion(p, n + 1)
  BY <1>4 DEF Fitting
<1>6. QED
  BY <1>1, <1>2, <1>3, <1>5

LEMMA SearchGoesDeeper ==
    ASSUME PlacesInv, NEW p, NEW l \in Nat \ {0}, Len(p) \in Nat, l < Len(p),
           NEW next, NEW fits, NEW count, SearchOK(p, l, {}, next, fits, count)
    PROVE  SearchOK(p, l + 1, next, {}, {}, count)
<1>1. PICK n \in Nat : l = n + 1
  <2>1. l - 1 \in Nat /\ l = (l - 1) + 1
    OBVIOUS
  <2>2. QED
    BY <2>1
<1>2. l - 1 = n /\ (l + 1) - 1 = l /\ l \in Nat
  BY <1>1
<1>3. next = Expansion(p, l) \cap Folders
  BY <1>1, LevelIsFitting DEF SearchOK
<1>4. Searched(p, l + 1, next) \cap ({Root} \cup Folders) = {}
  <2>1. Root \notin Expansion(p, l)
    BY <1>1, RootIsAbove
  <2>2. Searched(p, l + 1, next) = Expansion(p, l) \ next
    BY <1>2 DEF Searched
  <2>3. \A e \in Expansion(p, l) : e \in Folders => e \in next
    BY <1>3
  <2>4. QED
    BY <2>1, <2>2, <2>3
<1>5. \A f \in Searched(p, l + 1, next) : In(f, Entries) = {}
  BY <1>4, ParentsAreFolders
<1>6. Fitting(p, l + 1, Searched(p, l + 1, next)) = {}
  BY <1>5 DEF Fitting
<1>7. Under(Levels(p, (l + 1) - 1) \cup Searched(p, l + 1, next)) = Under(Levels(p, l - 1) \cup Searched(p, l, {}))
  <2>1. Levels(p, l) = Levels(p, n) \cup Expansion(p, n)
    BY <1>1, LevelsEnd
  <2>2. Searched(p, l, {}) = Expansion(p, n)
    BY <1>2 DEF Searched
  <2>3. PICK A, B, C : /\ A = Levels(p, l) /\ B = Searched(p, l + 1, next)
                       /\ C = Levels(p, n) \cup Expansion(p, n)
    OBVIOUS
  <2>4. Under(A \cup B) = Under(C)
    BY <1>5, <2>1, <2>3 DEF Under
  <2>5. QED
    BY <1>2, <2>2, <2>3, <2>4
<1>8. QED
  BY <1>2, <1>3, <1>6, <1>7 DEF SearchOK

LEMMA SearchEnds ==
    ASSUME PlacesInv, NEW p, NEW l \in Nat \ {0}, Len(p) \in Nat, l <= Len(p),
           NEW next, NEW fits, NEW count, SearchOK(p, l, {}, next, fits, count),
           l = Len(p) \/ next = {}
    PROVE  fits = Expansion(p, Len(p)) /\ Cardinality(Under(Levels(p, Len(p)))) <= Limit
<1>1. PICK n \in Nat : l = n + 1
  <2>1. l - 1 \in Nat /\ l = (l - 1) + 1
    OBVIOUS
  <2>2. QED
    BY <2>1
<1>2. l - 1 = n /\ Fitting(p, l, Searched(p, l, {})) = Expansion(p, l) /\ Searched(p, l, {}) = Expansion(p, n)
  BY <1>1, LevelIsFitting
<1>3. Levels(p, l) = Levels(p, n) \cup Expansion(p, n)
  BY <1>1, LevelsEnd
<1>4. Cardinality(Under(Levels(p, l))) <= Limit
  BY <1>2, <1>3 DEF SearchOK
<1>5. CASE l = Len(p)
  BY <1>2, <1>4, <1>5 DEF SearchOK
<1>6. CASE l # Len(p)
  <2>1. fits = {} /\ Expansion(p, l) \cap Folders = {} /\ l \in Nat /\ l < Len(p)
    <3>1. fits = {} /\ next = Expansion(p, l) \cap Folders /\ next = {}
      BY <1>2, <1>6 DEF SearchOK
    <3>2. QED
      BY <1>6, <3>1
  <2>2. Expansion(p, l) \cap ({Root} \cup Folders) = {}
    BY <1>1, <2>1, RootIsAbove
  <2>3. \A k \in Nat : k > l => Expansion(p, k) = {}
    BY <2>1, <2>2, ExpansionEnds
  <2>4. Expansion(p, Len(p)) = {}
    BY <2>1, <2>3
  <2>5. \A f \in Levels(p, Len(p)) : f \in Levels(p, l) \/ In(f, Entries) = {}
    <3> SUFFICES ASSUME NEW k \in 0 .. Len(p) - 1, NEW f \in Expansion(p, k)
                 PROVE  f \in Levels(p, l) \/ In(f, Entries) = {}
      BY DEF Levels
    <3>1. CASE k < l
      <4>1. k \in 0 .. l - 1
        BY <3>1
      <4>2. QED
        BY <4>1 DEF Levels
    <3>2. CASE k = l
      <4>1. f \notin {Root} \cup Folders
        BY <2>2, <3>2
      <4>2. QED
        BY <4>1, ParentsAreFolders
    <3>3. CASE k > l
      <4>1. k \in Nat
        OBVIOUS
      <4>2. QED
        BY <2>3, <3>3, <4>1
    <3>4. QED
      BY <3>1, <3>2, <3>3
  <2>6. PICK A, B : A = Levels(p, Len(p)) /\ B = Levels(p, l)
    OBVIOUS
  <2>7. Under(A) \subseteq Under(B)
    BY <2>5, <2>6 DEF Under
  <2>8. Cardinality(Under(A)) <= Cardinality(Under(B))
    BY <2>7, UnderGrows
  <2>9. Cardinality(Under(A)) \in Nat /\ Cardinality(Under(B)) \in Nat
    BY UnderIsFinite
  <2>10. Cardinality(Under(A)) <= Limit
    BY <1>4, <2>6, <2>8, <2>9, PatternAssumption
  <2>11. fits = Expansion(p, Len(p))
    BY <2>1, <2>4
  <2>12. QED
    BY <2>6, <2>10, <2>11
<1>7. QED
  BY <1>5, <1>6

-----------------------------------------------------------------------------
(* Sequences that have nothing twice.                                      *)

LEMMA HeadAndTail ==
    ASSUME NEW s, IsSeq(s), s # << >>
    PROVE  /\ IsSeq(Tail(s)) /\ Elements(s) = {Head(s)} \cup Elements(Tail(s))
           /\ Distinct(s) => Distinct(Tail(s)) /\ Head(s) \notin Elements(Tail(s))
<1> DEFINE T == Elements(s)
           t == Tail(s)
<1>1. s \in Seq(T) /\ Len(s) \in Nat
  BY IsSeqIsSeq DEF IsSeq
<1>2. Elements(s) = T
  OBVIOUS
<1> HIDE DEF T
<1>3. /\ Len(s) # 0 /\ t \in Seq(T) /\ Len(t) = Len(s) - 1 /\ Head(s) = s[1]
      /\ \A i \in 1 .. Len(t) : t[i] = s[i + 1]
  BY <1>1
<1> HIDE DEF t
<1>4. IsSeq(t)
  BY <1>3 DEF IsSeq
<1>5. ASSUME Distinct(s) PROVE Distinct(t)
  <2> SUFFICES ASSUME NEW i \in 1 .. Len(t), NEW j \in 1 .. Len(t), t[i] = t[j] PROVE i = j
    BY DEF Distinct
  <2>1. i + 1 \in 1 .. Len(s) /\ j + 1 \in 1 .. Len(s) /\ s[i + 1] = s[j + 1]
    BY <1>1, <1>3
  <2>2. i + 1 = j + 1
    BY <1>5, <2>1 DEF Distinct
  <2>3. QED
    BY <1>1, <1>3, <2>2
<1>6. ASSUME Distinct(s) PROVE Head(s) \notin Elements(t)
  <2> SUFFICES ASSUME NEW i \in 1 .. Len(t), Head(s) = t[i] PROVE FALSE
    BY DEF Elements
  <2>1. 1 \in 1 .. Len(s) /\ i + 1 \in 1 .. Len(s) /\ s[1] = s[i + 1] /\ 1 # i + 1
    BY <1>1, <1>3
  <2>2. QED
    BY <1>6, <2>1 DEF Distinct
<1>7. ASSUME NEW i \in 1 .. Len(s) PROVE s[i] = Head(s) \/ s[i] \in Elements(t)
  <2>1. CASE i = 1
    BY <1>3, <2>1
  <2>2. CASE i # 1
    <3>1. PICK j \in 1 .. Len(t) : i = j + 1
      <4>1. i - 1 \in 1 .. Len(t) /\ i = (i - 1) + 1
        BY <1>1, <1>3, <2>2
      <4>2. QED
        BY <4>1
    <3>2. QED
      BY <1>3, <3>1 DEF Elements
  <2>3. QED
    BY <2>1, <2>2
<1>8. Head(s) \in Elements(s)
  <2>1. 1 \in 1 .. Len(s)
    BY <1>1, <1>3
  <2>2. QED
    BY <1>3, <2>1 DEF Elements
<1>9. Elements(t) \subseteq Elements(s)
  <2> SUFFICES ASSUME NEW i \in 1 .. Len(t) PROVE t[i] \in Elements(s)
    BY DEF Elements
  <2>1. i + 1 \in 1 .. Len(s) /\ t[i] = s[i + 1]
    BY <1>1, <1>3
  <2>2. QED
    BY <2>1 DEF Elements
<1>10. Elements(s) = {Head(s)} \cup Elements(t)
  BY <1>7, <1>8, <1>9 DEF Elements
<1>11. QED
  BY <1>4, <1>5, <1>6, <1>10 DEF t

\* What appending does, position by position.
Appended(u, s, t) ==
    /\ IsSeq(u)
    /\ \A k \in 1 .. Len(u) : \/ k \in 1 .. Len(s) /\ u[k] = s[k]
                              \/ \E i \in 1 .. Len(t) : k = Len(s) + i /\ u[k] = t[i]
    /\ \A i \in 1 .. Len(s) : i \in 1 .. Len(u) /\ u[i] = s[i]
    /\ \A i \in 1 .. Len(t) : Len(s) + i \in 1 .. Len(u) /\ u[Len(s) + i] = t[i]

LEMMA AppendingAppends ==
    ASSUME NEW s, IsSeq(s), NEW t, IsSeq(t)
    PROVE  Appended(s \o t, s, t)
<1>1. PICK u : u = s \o t
  OBVIOUS
<1>2. PICK m, n \in Nat : m = Len(s) /\ n = Len(t)
  BY DEF IsSeq
<1>3. /\ IsSeq(u) /\ Len(u) = m + n
      /\ \A i \in 1 .. m : u[i] = s[i]
      /\ \A i \in 1 .. n : u[m + i] = t[i]
  BY <1>1, <1>2, AppendingPages
<1>4. ASSUME NEW k \in 1 .. m + n
      PROVE  (k \in 1 .. m /\ u[k] = s[k]) \/ \E i \in 1 .. n : k = m + i /\ u[k] = t[i]
  <2>1. CASE k <= m
    BY <1>3, <2>1
  <2>2. CASE k > m
    <3>1. k - m \in 1 .. n /\ k = m + (k - m)
      BY <2>2
    <3>2. PICK i \in 1 .. n : k = m + i
      BY <3>1
    <3>3. QED
      BY <1>3, <3>2
  <2>3. QED
    BY <2>1, <2>2
<1>5. \A i \in 1 .. m : i \in 1 .. m + n
  OBVIOUS
<1>6. \A i \in 1 .. n : m + i \in 1 .. m + n
  OBVIOUS
<1>7. QED
  BY <1>1, <1>2, <1>3, <1>4, <1>5, <1>6 DEF Appended

LEMMA AppendedElements ==
    ASSUME NEW s, IsSeq(s), NEW t, IsSeq(t)
    PROVE  /\ IsSeq(s \o t) /\ Elements(s \o t) = Elements(s) \cup Elements(t)
           /\ Distinct(s) /\ Distinct(t) /\ Elements(s) \cap Elements(t) = {} => Distinct(s \o t)
<1>1. PICK u : u = s \o t
  OBVIOUS
<1>2. Appended(u, s, t)
  BY <1>1, AppendingAppends
<1>3. /\ IsSeq(u)
      /\ \A k \in 1 .. Len(u) : \/ k \in 1 .. Len(s) /\ u[k] = s[k]
                                \/ \E i \in 1 .. Len(t) : k = Len(s) + i /\ u[k] = t[i]
      /\ \A i \in 1 .. Len(s) : i \in 1 .. Len(u) /\ u[i] = s[i]
      /\ \A i \in 1 .. Len(t) : Len(s) + i \in 1 .. Len(u) /\ u[Len(s) + i] = t[i]
  BY <1>2 DEF Appended
<1>4. Elements(u) = Elements(s) \cup Elements(t)
  <2>1. ASSUME NEW k \in 1 .. Len(u) PROVE u[k] \in Elements(s) \cup Elements(t)
    BY <1>3 DEF Elements
  <2>2. ASSUME NEW i \in 1 .. Len(s) PROVE s[i] \in Elements(u)
    BY <1>3 DEF Elements
  <2>3. ASSUME NEW i \in 1 .. Len(t) PROVE t[i] \in Elements(u)
    <3>1. Len(s) + i \in 1 .. Len(u) /\ u[Len(s) + i] = t[i]
      BY <1>3
    <3>2. QED
      BY <3>1 DEF Elements
  <2>4. QED
    BY <2>1, <2>2, <2>3 DEF Elements
<1>5. ASSUME Distinct(s), Distinct(t), Elements(s) \cap Elements(t) = {},
             NEW k \in 1 .. Len(u), NEW l \in 1 .. Len(u), u[k] = u[l]
      PROVE  k = l
  <2>1. CASE k \in 1 .. Len(s) /\ u[k] = s[k] /\ l \in 1 .. Len(s) /\ u[l] = s[l]
    BY <1>5, <2>1 DEF Distinct
  <2>2. ASSUME NEW i \in 1 .. Len(s), NEW j \in 1 .. Len(t), s[i] = t[j] PROVE FALSE
    BY <1>5, <2>2 DEF Elements
  <2>3. ASSUME NEW i \in 1 .. Len(t), NEW j \in 1 .. Len(t), k = Len(s) + i, l = Len(s) + j,
               u[k] = t[i], u[l] = t[j]
        PROVE  k = l
    BY <1>5, <2>3 DEF Distinct
  <2>4. CASE k \in 1 .. Len(s) /\ u[k] = s[k]
    BY <1>3, <1>5, <2>1, <2>2, <2>4
  <2>5. CASE \E i \in 1 .. Len(t) : k = Len(s) + i /\ u[k] = t[i]
    BY <1>3, <1>5, <2>2, <2>3, <2>5
  <2>6. QED
    BY <1>3, <2>4, <2>5
<1>6. QED
  BY <1>1, <1>3, <1>4, <1>5 DEF Distinct

\* Rows of different entries.
Clean(rows) ==
    /\ IsSeq(rows) /\ \A i \in 1 .. Len(rows) : rows[i] \in Rows
    /\ \A i, j \in 1 .. Len(rows) : rows[i][1] = rows[j][1] => i = j

LEMMA CleanEntries ==
    ASSUME NEW rows, Clean(rows)
    PROVE  /\ IsSeq(EntriesIn(rows)) /\ Distinct(EntriesIn(rows))
           /\ Elements(EntriesIn(rows)) = Named(rows)
<1>1. PICK s : s = EntriesIn(rows)
  OBVIOUS
<1>2. IsSeq(s) /\ Len(s) = Len(rows) /\ \A i \in 1 .. Len(rows) : s[i] = rows[i][1]
  BY <1>1, EntriesInFacts DEF Clean
<1>3. QED
  BY <1>1, <1>2 DEF Clean, Distinct, Elements, Named

LEMMA CutsAreClean ==
    ASSUME NEW rows, Clean(rows), NEW t, NEW I, I \subseteq 1 .. Len(rows), Cut(t, rows, I)
    PROVE  Clean(t) /\ Named(t) = {rows[i][1] : i \in I}
<1>1. /\ IsSeq(t)
      /\ \A n \in 1 .. Len(t) : \E i \in I : t[n] = rows[i]
      /\ \A i \in I : \E n \in 1 .. Len(t) : t[n] = rows[i]
      /\ \A m, n \in 1 .. Len(t) : m # n => \E i, j \in I : i # j /\ t[m] = rows[i] /\ t[n] = rows[j]
  BY DEF Cut
<1>2. \A n \in 1 .. Len(t) : t[n] \in Rows
  BY <1>1 DEF Clean
<1>3. ASSUME NEW m \in 1 .. Len(t), NEW n \in 1 .. Len(t), t[m][1] = t[n][1] PROVE m = n
  <2> SUFFICES ASSUME m # n PROVE FALSE
    OBVIOUS
  <2>1. PICK i, j \in I : i # j /\ t[m] = rows[i] /\ t[n] = rows[j]
    BY <1>1
  <2>2. rows[i][1] = rows[j][1] /\ i \in 1 .. Len(rows) /\ j \in 1 .. Len(rows)
    BY <1>3, <2>1
  <2>3. QED
    BY <2>1, <2>2 DEF Clean
<1>4. Named(t) = {rows[i][1] : i \in I}
  <2>1. ASSUME NEW n \in 1 .. Len(t) PROVE t[n][1] \in {rows[i][1] : i \in I}
    <3>1. PICK i \in I : t[n] = rows[i]
      BY <1>1
    <3>2. QED
      BY <3>1
  <2>2. ASSUME NEW i \in I PROVE rows[i][1] \in Named(t)
    <3>1. PICK n \in 1 .. Len(t) : t[n] = rows[i]
      BY <1>1
    <3>2. QED
      BY <3>1 DEF Named
  <2>3. QED
    BY <2>1, <2>2 DEF Named
<1>5. QED
  BY <1>1, <1>2, <1>3, <1>4 DEF Clean

LEMMA OfTypeIsClean ==
    ASSUME NEW rows, Clean(rows), NEW entries
    PROVE  Clean(OfType(rows, entries)) /\ Named(OfType(rows, entries)) = Named(rows) \cap entries
<1> DEFINE I == {i \in 1 .. Len(rows) : rows[i][1] \in entries}
<1>1. I \subseteq 1 .. Len(rows) /\ Cut(OfType(rows, entries), rows, I)
  BY OfTypeCuts DEF Clean
<1>2. {rows[i][1] : i \in I} = Named(rows) \cap entries
  BY DEF Named
<1> HIDE DEF I
<1>3. QED
  BY <1>1, <1>2, CutsAreClean

LEMMA AppendedIsClean ==
    ASSUME NEW s, Clean(s), NEW t, Clean(t), Named(s) \cap Named(t) = {}
    PROVE  Clean(s \o t) /\ Named(s \o t) = Named(s) \cup Named(t)
<1>1. PICK u : u = s \o t
  OBVIOUS
<1>2. Appended(u, s, t)
  BY <1>1, AppendingAppends DEF Clean
<1>3. /\ IsSeq(u)
      /\ \A k \in 1 .. Len(u) : \/ k \in 1 .. Len(s) /\ u[k] = s[k]
                                \/ \E i \in 1 .. Len(t) : k = Len(s) + i /\ u[k] = t[i]
      /\ \A i \in 1 .. Len(s) : i \in 1 .. Len(u) /\ u[i] = s[i]
      /\ \A i \in 1 .. Len(t) : Len(s) + i \in 1 .. Len(u) /\ u[Len(s) + i] = t[i]
  BY <1>2 DEF Appended
<1>4. Named(u) = Named(s) \cup Named(t)
  <2>1. ASSUME NEW k \in 1 .. Len(u) PROVE u[k][1] \in Named(s) \cup Named(t)
    <3>1. CASE k \in 1 .. Len(s) /\ u[k] = s[k]
      BY <3>1 DEF Named
    <3>2. CASE \E i \in 1 .. Len(t) : k = Len(s) + i /\ u[k] = t[i]
      BY <3>2 DEF Named
    <3>3. QED
      BY <1>3, <3>1, <3>2
  <2>2. ASSUME NEW i \in 1 .. Len(s) PROVE s[i][1] \in Named(u)
    BY <1>3 DEF Named
  <2>3. ASSUME NEW i \in 1 .. Len(t) PROVE t[i][1] \in Named(u)
    <3>1. Len(s) + i \in 1 .. Len(u) /\ u[Len(s) + i] = t[i]
      BY <1>3
    <3>2. QED
      BY <3>1 DEF Named
  <2>4. Named(u) \subseteq Named(s) \cup Named(t)
    BY <2>1 DEF Named
  <2>5. Named(s) \subseteq Named(u)
    BY <2>2 DEF Named
  <2>6. Named(t) \subseteq Named(u)
    BY <2>3 DEF Named
  <2>7. QED
    BY <2>4, <2>5, <2>6
<1>5. ASSUME NEW k \in 1 .. Len(u), NEW l \in 1 .. Len(u), u[k][1] = u[l][1]
      PROVE  k = l
  <2>1. CASE k \in 1 .. Len(s) /\ u[k] = s[k] /\ l \in 1 .. Len(s) /\ u[l] = s[l]
    BY <1>5, <2>1 DEF Clean
  <2>2. ASSUME NEW i \in 1 .. Len(s), NEW j \in 1 .. Len(t), s[i][1] = t[j][1] PROVE FALSE
    BY <2>2 DEF Named
  <2>3. ASSUME NEW i \in 1 .. Len(t), NEW j \in 1 .. Len(t), k = Len(s) + i, l = Len(s) + j,
               u[k] = t[i], u[l] = t[j]
        PROVE  k = l
    BY <1>5, <2>3 DEF Clean
  <2>4. CASE k \in 1 .. Len(s) /\ u[k] = s[k]
    BY <1>3, <1>5, <2>1, <2>2, <2>4
  <2>5. CASE \E i \in 1 .. Len(t) : k = Len(s) + i /\ u[k] = t[i]
    BY <1>3, <1>5, <2>2, <2>3, <2>5
  <2>6. QED
    BY <1>3, <2>4, <2>5
<1>6. \A k \in 1 .. Len(u) : u[k] \in Rows
  BY <1>3 DEF Clean
<1>7. QED
  BY <1>1, <1>3, <1>4, <1>5, <1>6 DEF Clean

-----------------------------------------------------------------------------
(* A search that nobody disturbs.                                          *)

LEMMA HoldsIsClean ==
    ASSUME NEW rows, NEW f, Holds(rows, f)
    PROVE  Clean(rows) /\ Named(rows) = In(f, Entries)
  BY DEF Holds, Clean, Named

\* What fits in a folder that was listed.
LEMMA FittingFacts ==
    ASSUME Holds(got, folder)
    PROVE  LET t == Keep(got, {i \in DOMAIN got : Fits(got[i])}) IN
           Clean(t) /\ Named(t) = Fitting(pattern, level, {folder})
<1> DEFINE I == {i \in 1 .. Len(got) : Fits(got[i])}
           t == Keep(got, {i \in DOMAIN got : Fits(got[i])})
<1>1. Clean(got) /\ Named(got) = In(folder, Entries)
  BY HoldsIsClean
<1>2. I \subseteq 1 .. Len(got) /\ Cut(t, got, I)
  BY <1>1, FittingCuts DEF Clean
<1>3. Clean(t) /\ Named(t) = {got[i][1] : i \in I}
  <2> HIDE DEF I, t
  <2>1. QED
    BY <1>1, <1>2, CutsAreClean
<1>4. \A i \in 1 .. Len(got) : /\ got[i][2] = place[got[i][1]].name /\ got[i][1] \in In(folder, Entries)
                               /\ got[i][1] \in Entries
  <2> SUFFICES ASSUME NEW i \in 1 .. Len(got)
               PROVE  /\ got[i][2] = place[got[i][1]].name /\ got[i][1] \in In(folder, Entries)
                      /\ got[i][1] \in Entries
    OBVIOUS
  <2>1. got[i][1] \in In(folder, Entries) /\ got[i] = Row(got[i][1])
    BY DEF Holds
  <2>2. PICK e : e = got[i][1]
    OBVIOUS
  <2>3. got[i] = <<e, place[e].name>>
    BY <2>1, <2>2 DEF Row
  <2>4. QED
    BY <2>1, <2>2, <2>3 DEF In
<1>5. ASSUME NEW i \in I PROVE got[i][1] \in Fitting(pattern, level, {folder})
  BY <1>4 DEF Fitting, Fits
<1>6. ASSUME NEW e \in Fitting(pattern, level, {folder}) PROVE \E i \in I : got[i][1] = e
  <2>1. e \in In(folder, Entries) /\ place[e].name \in pattern[level]
    BY DEF Fitting
  <2>2. PICK i \in 1 .. Len(got) : got[i][1] = e
    BY <2>1 DEF Holds
  <2>3. i \in I
    BY <1>4, <2>1, <2>2 DEF Fits
  <2>4. QED
    BY <2>2, <2>3
<1>7. QED
  BY <1>3, <1>5, <1>6

\* The folders that are still to be listed on this level, with the one that
\* is being listed.
Pending == Elements(folders) \cup (IF state = "idle" THEN {} ELSE {folder})

SearchingInv ==
    calm /\ search = "searching" =>
        /\ Len(pattern) \in Nat /\ level \in 1 .. Len(pattern)
        /\ IsSeq(folders) /\ Distinct(folders) /\ (state # "idle" => folder \notin Elements(folders))
        /\ IsSeq(nextFolders) /\ Distinct(nextFolders) /\ Clean(matches)
        /\ SearchOK(pattern, level, Pending, Elements(nextFolders), Named(matches), visitedEntries)

FoundInv ==
    calm =>
        /\ search \in {"found", "none"} =>
              /\ Clean(matches) /\ Named(matches) = Expansion(pattern, Len(pattern)) \cap wanted
              /\ Cardinality(Under(Levels(pattern, Len(pattern)))) <= Limit
        /\ search = "limit" => Cardinality(Under(Levels(pattern, Len(pattern)))) > Limit

SearchInv == SearchingInv /\ FoundInv

\* Nothing changes on the device.
LEMMA LevelsStay ==
    ASSUME UNCHANGED place, NEW p, NEW n
    PROVE  Cardinality(Under(Levels(p, n)))' = Cardinality(Under(Levels(p, n)))
<1>1. Levels(p, n)' = Levels(p, n)
  BY ExpansionStays DEF Levels
<1>2. PICK set : set = Levels(p, n) /\ set = Levels(p, n)'
  BY <1>1
<1>3. Under(set)' = Under(set)
  BY DEF Under, In, Exists
<1>4. QED
  BY <1>2, <1>3

LEMMA GlobStarts ==
    ASSUME Glob, status = "idle", CalmInv
    PROVE  SearchInv'
<1>1. state = "idle" /\ state' = "idle" /\ UNCHANGED place
  BY DEF Glob, CalmInv, Running, listingVars, listing, device
<1>2. /\ folders' = <<Root>> /\ nextFolders' = << >> /\ matches' = << >> /\ level' = 1
      /\ visitedEntries' = 0 /\ search' \in {"searching", "failed"} /\ pattern' \in Patterns
  BY DEF Glob
<1>3. IsSeq(<<Root>>) /\ Distinct(<<Root>>) /\ Elements(<<Root>>) = {Root}
  <2>1. PICK s : s = <<Root>>
    OBVIOUS
  <2>2. IsSeq(s) /\ Len(s) = 1 /\ s[1] = Root
    BY <2>1, OneRowIsSeq
  <2>3. QED
    BY <2>1, <2>2 DEF Distinct, Elements
<1>4. Clean(<< >>) /\ Named(<< >>) = {}
  BY EmptyIsSeq DEF Clean, Named
<1>5. Len(pattern') \in Nat /\ 1 \in 1 .. Len(pattern')
  <2>1. PICK p \in Patterns : p = pattern'
    BY <1>2
  <2>2. p \in Seq(SUBSET Names) /\ p # << >>
    BY PatternAssumption
  <2>3. Len(p) \in Nat /\ Len(p) # 0
    BY <2>2
  <2>4. QED
    BY <2>1, <2>3
<1>6. PICK p : p = pattern'
  OBVIOUS
<1>7. SearchOK(p, 1, {Root}, {}, {}, 0)
  BY <1>5, <1>6, SearchBegins
<1>8. SearchOK(p, 1, {Root}, {}, {}, 0)'
  BY <1>1, <1>7, SearchOKStays
<1>9. Pending' = {Root}
  BY <1>1, <1>2, <1>3 DEF Pending
<1>10. SearchOK(pattern, level, Pending, Elements(nextFolders), Named(matches), visitedEntries)'
  <2>1. Elements(nextFolders)' = {} /\ Named(matches)' = {}
    BY <1>2, <1>4, EmptyIsSeq
  <2>2. QED
    BY <1>2, <1>6, <1>8, <1>9, <2>1
<1>11. SearchingInv'
  BY <1>1, <1>2, <1>3, <1>4, <1>5, <1>10, EmptyIsSeq DEF SearchingInv
<1>12. FoundInv'
  BY <1>2 DEF FoundInv
<1>13. QED
  BY <1>11, <1>12 DEF SearchInv

LEMMA FoundStays ==
    ASSUME FoundInv, UNCHANGED <<place, calm, search, pattern, wanted, matches>>
    PROVE  FoundInv'
<1>1. PICK p, n : p = pattern /\ n = Len(p)
  OBVIOUS
<1>2. Expansion(p, n)' = Expansion(p, n)
  BY ExpansionStays
<1>3. Cardinality(Under(Levels(p, n)))' = Cardinality(Under(Levels(p, n)))
  BY LevelsStay
<1>4. Expansion(pattern, Len(pattern))' = Expansion(pattern, Len(pattern))
  BY <1>1, <1>2
<1>5. Cardinality(Under(Levels(pattern, Len(pattern))))' = Cardinality(Under(Levels(pattern, Len(pattern))))
  BY <1>1, <1>3
<1>6. QED
  BY <1>4, <1>5 DEF FoundInv, Clean

LEMMA SearchingStays ==
    ASSUME SearchingInv, UNCHANGED <<place, selection, calm>>,
           search = "searching" => Pending' = Pending /\ (state' # "idle" => folder' \notin Elements(folders))
    PROVE  SearchingInv'
<1> SUFFICES ASSUME calm, search = "searching" PROVE SearchingInv'
  BY DEF SearchingInv, selection
<1>1. PICK p, l, pend, next, fits, count :
        /\ p = pattern /\ l = level /\ pend = Pending /\ next = Elements(nextFolders)
        /\ fits = Named(matches) /\ count = visitedEntries
  OBVIOUS
<1>2. SearchOK(p, l, pend, next, fits, count)
  BY <1>1 DEF SearchingInv
<1>3. SearchOK(p, l, pend, next, fits, count)'
  BY <1>2, SearchOKStays
<1>4. Elements(nextFolders)' = Elements(nextFolders) /\ Named(matches)' = Named(matches)
  BY DEF selection
<1>5. SearchOK(pattern, level, Pending, Elements(nextFolders), Named(matches), visitedEntries)'
  BY <1>1, <1>3, <1>4 DEF selection
<1>6. QED
  BY <1>5 DEF SearchingInv, selection

LEMMA ListNextKeeps ==
    ASSUME SearchInv, ListNext
    PROVE  SearchInv'
<1>1. /\ search = "searching" /\ state = "idle" /\ state' = "asked" /\ folder' = Head(folders)
      /\ folders' = Tail(folders) /\ folders # << >>
      /\ UNCHANGED <<place, search, pattern, wanted, level, nextFolders, matches, visitedEntries, calm>>
  BY DEF ListNext, Start, device
<1>2. FoundInv'
  BY <1>1, FoundStays DEF SearchInv
<1>3. ASSUME calm PROVE SearchingInv'
  <2>1. /\ IsSeq(Tail(folders)) /\ Distinct(Tail(folders)) /\ Head(folders) \notin Elements(Tail(folders))
        /\ Elements(folders) = {Head(folders)} \cup Elements(Tail(folders))
    BY <1>1, <1>3, HeadAndTail DEF SearchInv, SearchingInv
  <2>2. Pending' = Pending
    BY <1>1, <2>1 DEF Pending
  <2>3. PICK p, l, pend, next, fits, count :
          /\ p = pattern /\ l = level /\ pend = Pending /\ next = Elements(nextFolders)
          /\ fits = Named(matches) /\ count = visitedEntries
    OBVIOUS
  <2>4. SearchOK(p, l, pend, next, fits, count)
    BY <1>1, <1>3, <2>3 DEF SearchInv, SearchingInv
  <2>5. SearchOK(p, l, pend, next, fits, count)'
    BY <1>1, <2>4, SearchOKStays
  <2>6. Elements(nextFolders)' = Elements(nextFolders) /\ Named(matches)' = Named(matches)
    BY <1>1
  <2>7. SearchOK(pattern, level, Pending, Elements(nextFolders), Named(matches), visitedEntries)'
    BY <1>1, <2>2, <2>3, <2>5, <2>6
  <2>8. IsSeq(folders)' /\ Distinct(folders)' /\ (folder \notin Elements(folders))'
    BY <1>1, <2>1
  <2>9. QED
    BY <1>1, <1>3, <2>7, <2>8 DEF SearchInv, SearchingInv
<1>4. QED
  BY <1>1, <1>2, <1>3 DEF SearchInv, SearchingInv

LEMMA DescendKeeps ==
    ASSUME ListingInv, SearchInv, Descend
    PROVE  SearchInv'
<1>1. /\ search = "searching" /\ state = "idle" /\ state' = "idle" /\ folders = << >> /\ level < Len(pattern)
      /\ level' = level + 1 /\ folders' = nextFolders /\ nextFolders' = << >>
      /\ UNCHANGED <<place, search, pattern, wanted, matches, visitedEntries, calm>>
  BY DEF Descend, listingVars, listing, device
<1>2. FoundInv'
  BY <1>1, FoundStays DEF SearchInv
<1>3. ASSUME calm PROVE SearchingInv'
  <2>1. /\ Len(pattern) \in Nat /\ level \in 1 .. Len(pattern)
        /\ IsSeq(nextFolders) /\ Distinct(nextFolders) /\ Clean(matches)
        /\ SearchOK(pattern, level, Pending, Elements(nextFolders), Named(matches), visitedEntries)
    BY <1>1, <1>3 DEF SearchInv, SearchingInv
  <2>2. Pending = {} /\ Pending' = Elements(nextFolders)
    BY <1>1, EmptyIsSeq DEF Pending
  <2>3. PICK p, l, next, count : /\ p = pattern /\ l = level /\ next = Elements(nextFolders)
                                 /\ count = visitedEntries
    OBVIOUS
  <2>4. Named(matches) = {}
    BY <1>1, <2>1 DEF SearchOK
  <2>5. SearchOK(p, l, {}, next, {}, count) /\ l \in Nat \ {0} /\ l < Len(p) /\ Len(p) \in Nat
    BY <1>1, <2>1, <2>2, <2>3, <2>4
  <2>6. SearchOK(p, l + 1, next, {}, {}, count)
    BY <2>5, SearchGoesDeeper DEF ListingInv
  <2>7. PICK k : k = l + 1
    OBVIOUS
  <2>8. SearchOK(p, k, next, {}, {}, count)'
    BY <1>1, <2>6, <2>7, SearchOKStays
  <2>9. SearchOK(pattern, level, Pending, Elements(nextFolders), Named(matches), visitedEntries)'
    <3>1. Elements(nextFolders)' = {} /\ Named(matches)' = {}
      BY <1>1, <2>4, EmptyIsSeq
    <3>2. pattern' = p /\ level' = k /\ Pending' = next /\ visitedEntries' = count
      BY <1>1, <2>2, <2>3, <2>7
    <3>3. QED
      BY <2>8, <3>1, <3>2
  <2>10. level' \in 1 .. Len(pattern)'
    BY <1>1, <2>1
  <2>11. QED
    BY <1>1, <1>3, <2>1, <2>9, <2>10, EmptyIsSeq DEF SearchingInv
<1>4. QED
  BY <1>1, <1>2, <1>3 DEF SearchInv, SearchingInv

LEMMA SelectKeeps ==
    ASSUME ListingInv, SearchInv, Select
    PROVE  SearchInv'
<1>1. /\ search = "searching" /\ state = "idle" /\ folders = << >>
      /\ level = Len(pattern) \/ nextFolders = << >>
      /\ matches' = OfType(matches, wanted) /\ search' \in {"none", "found"}
      /\ UNCHANGED <<place, pattern, wanted, calm>>
  BY DEF Select, listingVars, device
<1>2. ASSUME calm PROVE FoundInv'
  <2>1. /\ Len(pattern) \in Nat /\ level \in 1 .. Len(pattern) /\ Clean(matches)
        /\ SearchOK(pattern, level, Pending, Elements(nextFolders), Named(matches), visitedEntries)
    BY <1>1, <1>2 DEF SearchInv, SearchingInv
  <2>2. Pending = {} /\ (level = Len(pattern) \/ Elements(nextFolders) = {})
    BY <1>1, EmptyIsSeq DEF Pending
  <2>3. PICK p, l, next, fits, count : /\ p = pattern /\ l = level /\ next = Elements(nextFolders)
                                       /\ fits = Named(matches) /\ count = visitedEntries
    OBVIOUS
  <2>4. /\ SearchOK(p, l, {}, next, fits, count) /\ l \in Nat \ {0} /\ l <= Len(p) /\ Len(p) \in Nat
        /\ l = Len(p) \/ next = {}
    BY <2>1, <2>2, <2>3
  <2>5. fits = Expansion(p, Len(p)) /\ Cardinality(Under(Levels(p, Len(p)))) <= Limit
    BY <2>4, SearchEnds DEF ListingInv
  <2>6. PICK n : n = Len(p)
    OBVIOUS
  <2>7. /\ Expansion(p, n)' = Expansion(p, n)
        /\ Cardinality(Under(Levels(p, n)))' = Cardinality(Under(Levels(p, n)))
    BY <1>1, ExpansionStays, LevelsStay
  <2>8. pattern' = p /\ Len(pattern') = n
    BY <1>1, <2>3, <2>6
  <2>9. /\ Expansion(pattern, Len(pattern))' = Expansion(p, n)
        /\ Cardinality(Under(Levels(pattern, Len(pattern))))' = Cardinality(Under(Levels(p, n)))
    BY <2>7, <2>8
  <2>10. Clean(OfType(matches, wanted)) /\ Named(OfType(matches, wanted)) = fits \cap wanted
    BY <2>1, <2>3, OfTypeIsClean
  <2>11. Clean(matches)' /\ Named(matches)' = fits \cap wanted
    BY <1>1, <2>10
  <2>12. QED
    BY <1>1, <2>5, <2>6, <2>9, <2>11 DEF FoundInv
<1>3. QED
  BY <1>1, <1>2 DEF SearchInv, SearchingInv, FoundInv

\* The folder that was listed has been examined.
LEMMA ExamineKeeps ==
    ASSUME ListingInv, CalmInv, SearchInv, Examine
    PROVE  SearchInv'
<1> DEFINE fitting == Keep(got, {i \in DOMAIN got : Fits(got[i])})
<1>1. /\ search = "searching" /\ state = "ok" /\ state' = "idle" /\ UNCHANGED <<place, pattern, level, folders, calm>>
      /\ visitedEntries' = visitedEntries + Len(got)
  BY DEF Examine, device
<1>2. \/ /\ Over(visitedEntries') /\ search' = "limit"
      \/ /\ ~Over(visitedEntries') /\ search' = search
         /\ \/ level = Len(pattern) /\ matches' = matches \o fitting /\ nextFolders' = nextFolders
            \/ /\ level # Len(pattern) /\ nextFolders' = nextFolders \o EntriesIn(OfType(fitting, Folders))
               /\ matches' = matches
  BY DEF Examine
<1> HIDE DEF fitting
<1> SUFFICES ASSUME calm PROVE SearchInv'
  BY <1>1 DEF SearchInv, SearchingInv, FoundInv
<1>3. /\ Len(pattern) \in Nat /\ level \in 1 .. Len(pattern)
      /\ IsSeq(folders) /\ Distinct(folders) /\ folder \notin Elements(folders)
      /\ IsSeq(nextFolders) /\ Distinct(nextFolders) /\ Clean(matches)
      /\ SearchOK(pattern, level, Pending, Elements(nextFolders), Named(matches), visitedEntries)
  BY <1>1 DEF SearchInv, SearchingInv
<1>4. Holds(got, folder)
  BY <1>1, GotTheFolder
<1>5. Clean(fitting) /\ Named(fitting) = Fitting(pattern, level, {folder})
  BY <1>4, FittingFacts DEF fitting
<1>6. PICK p, l, pend, next, fits, count, new, f, sum :
        /\ p = pattern /\ l = level /\ pend = Pending /\ next = Elements(nextFolders)
        /\ fits = Named(matches) /\ count = visitedEntries /\ new = Named(fitting)
        /\ f = folder /\ sum = visitedEntries + Len(got)
  OBVIOUS
<1>7. /\ l \in Nat \ {0} /\ l <= Len(p) /\ Len(p) \in Nat /\ f \in pend /\ pend \ {f} = Elements(folders)
      /\ SearchOK(p, l, pend, next, fits, count)
      /\ new = Fitting(p, l, {f}) /\ sum = count + Cardinality(In(f, Entries))
  <2>1. l \in Nat \ {0} /\ l <= Len(p) /\ Len(p) \in Nat
    BY <1>3, <1>6
  <2>2. f \in pend /\ pend \ {f} = Elements(folders)
    BY <1>1, <1>3, <1>6 DEF Pending
  <2>3. sum = count + Cardinality(In(f, Entries))
    BY <1>4, <1>6 DEF Holds
  <2>4. SearchOK(p, l, pend, next, fits, count) /\ new = Fitting(p, l, {f})
    BY <1>3, <1>5, <1>6
  <2>5. QED
    BY <2>1, <2>2, <2>3, <2>4
<1>8. /\ Over(sum) => Cardinality(Under(Levels(p, Len(p)))) > Limit
      /\ ~Over(sum) => SearchOK(p, l, pend \ {f}, IF l = Len(p) THEN next ELSE next \cup (new \cap Folders),
                                IF l = Len(p) THEN fits \cup new ELSE fits, sum)
      /\ new \cap next = {} /\ new \cap fits = {}
  <2>1. PlacesInv
    BY DEF ListingInv
  <2>2. QED
    BY <1>7, <2>1, SearchGoesOn
<1>9. CASE Over(sum)
  <2>1. search' = "limit"
    BY <1>1, <1>2, <1>6, <1>9
  <2>2. PICK n : n = Len(p)
    OBVIOUS
  <2>3. Cardinality(Under(Levels(p, n)))' > Limit
    <3>1. Cardinality(Under(Levels(p, n)))' = Cardinality(Under(Levels(p, n)))
      BY <1>1, LevelsStay
    <3>2. QED
      BY <1>8, <1>9, <2>2, <3>1
  <2>4. Cardinality(Under(Levels(pattern, Len(pattern))))' > Limit
    BY <1>1, <1>6, <2>2, <2>3
  <2>5. QED
    BY <2>1, <2>4 DEF SearchInv, SearchingInv, FoundInv
<1>10. CASE ~Over(sum)
  <2>1. search' = "searching"
    BY <1>1, <1>2, <1>6, <1>10
  <2>2. PICK rest : rest = Elements(folders)
    OBVIOUS
  <2>3. Pending' = rest
    BY <1>1, <2>2 DEF Pending
  <2>4. CASE level = Len(pattern)
    <3>1. matches' = matches \o fitting /\ nextFolders' = nextFolders
      BY <1>1, <1>2, <1>6, <1>10, <2>4
    <3>2. Clean(matches \o fitting) /\ Named(matches \o fitting) = fits \cup new
      BY <1>3, <1>5, <1>6, <1>8, AppendedIsClean
    <3>3. PICK more : more = fits \cup new
      OBVIOUS
    <3>4. SearchOK(p, l, rest, next, more, sum)
      BY <1>6, <1>7, <1>8, <1>10, <2>2, <2>4, <3>3
    <3>5. SearchOK(p, l, rest, next, more, sum)'
      BY <1>1, <3>4, SearchOKStays
    <3>6. Named(matches)' = more /\ Clean(matches)' /\ Elements(nextFolders)' = next
      BY <1>6, <3>1, <3>2, <3>3
    <3>7. SearchOK(pattern, level, Pending, Elements(nextFolders), Named(matches), visitedEntries)'
      BY <1>1, <1>6, <2>3, <3>5, <3>6
    <3>8. QED
      BY <1>1, <1>3, <2>1, <3>1, <3>6, <3>7 DEF SearchInv, SearchingInv, FoundInv
  <2>5. CASE level # Len(pattern)
    <3>1. nextFolders' = nextFolders \o EntriesIn(OfType(fitting, Folders)) /\ matches' = matches
      BY <1>1, <1>2, <1>6, <1>10, <2>5
    <3>2. PICK s : s = EntriesIn(OfType(fitting, Folders))
      OBVIOUS
    <3>3. IsSeq(s) /\ Distinct(s) /\ Elements(s) = new \cap Folders
      <4>1. Clean(OfType(fitting, Folders)) /\ Named(OfType(fitting, Folders)) = new \cap Folders
        BY <1>5, <1>6, OfTypeIsClean
      <4>2. QED
        BY <3>2, <4>1, CleanEntries
    <3>4. Elements(nextFolders) \cap Elements(s) = {}
      BY <1>6, <1>8, <3>3
    <3>5. /\ IsSeq(nextFolders \o s) /\ Distinct(nextFolders \o s)
          /\ Elements(nextFolders \o s) = Elements(nextFolders) \cup Elements(s)
      BY <1>3, <3>3, <3>4, AppendedElements
    <3>6. PICK more : more = next \cup (new \cap Folders)
      OBVIOUS
    <3>7. SearchOK(p, l, rest, more, fits, sum)
      BY <1>6, <1>7, <1>8, <1>10, <2>2, <2>5, <3>6
    <3>8. SearchOK(p, l, rest, more, fits, sum)'
      BY <1>1, <3>7, SearchOKStays
    <3>9. Elements(nextFolders)' = more /\ IsSeq(nextFolders)' /\ Distinct(nextFolders)' /\ Named(matches)' = fits
      BY <1>6, <3>1, <3>2, <3>3, <3>5, <3>6
    <3>10. SearchOK(pattern, level, Pending, Elements(nextFolders), Named(matches), visitedEntries)'
      BY <1>1, <1>6, <2>3, <3>8, <3>9
    <3>11. Clean(matches)'
      BY <1>3, <3>1
    <3>12. QED
      BY <1>1, <1>3, <2>1, <3>9, <3>10, <3>11 DEF SearchInv, SearchingInv, FoundInv
  <2>6. QED
    BY <2>4, <2>5
<1>11. QED
  BY <1>9, <1>10

\* Nothing happens to the search.
LEMMA SearchRests ==
    ASSUME SearchInv, UNCHANGED <<place, selection, calm>>,
           search = "searching" => UNCHANGED folder /\ (state' = "idle" <=> state = "idle")
    PROVE  SearchInv'
<1>1. FoundInv'
  BY FoundStays DEF SearchInv, selection
<1>2. SearchingInv'
  <2>1. CASE calm /\ search = "searching"
    <3>1. Pending' = Pending /\ (state' # "idle" => folder' \notin Elements(folders))
      BY <2>1 DEF Pending, selection, SearchInv, SearchingInv
    <3>2. QED
      BY <3>1, SearchingStays DEF SearchInv
  <2>2. CASE ~(calm /\ search = "searching")
    BY <2>2 DEF SearchingInv, selection
  <2>3. QED
    BY <2>1, <2>2
<1>3. QED
  BY <1>1, <1>2 DEF SearchInv

LEMMA StepsKeepSearch == ListingInv /\ OneAtATime /\ CalmInv /\ SearchInv /\ [Next]_vars => SearchInv'
<1> SUFFICES ASSUME ListingInv, OneAtATime, CalmInv, SearchInv, [Next]_vars PROVE SearchInv'
  OBVIOUS
<1>1. CASE status = "idle" /\ Glob
  BY <1>1, GlobStarts
<1>2. CASE WalkFromObject \/ WalkFromRoot
  <2>1. search = "idle" /\ search' = "idle"
    BY <1>2 DEF WalkFromObject, WalkFromRoot, StartFrom, selection
  <2>2. QED
    BY <2>1 DEF SearchInv, SearchingInv, FoundInv
<1>3. CASE WalkFromMatches
  BY <1>3, SearchRests DEF WalkFromMatches, StartFrom, listingVars, device
<1>4. CASE Search
  <2>1. CASE SearchFails
    BY <2>1 DEF SearchFails, SearchInv, SearchingInv, FoundInv
  <2>2. QED
    BY <1>4, <2>1, ListNextKeeps, ExamineKeeps, DescendKeeps, SelectKeeps DEF Search
<1>5. CASE Walk
  <2>1. status = "walking" /\ search # "searching"
    BY <1>5 DEF Walk, Visit, Collect, GiveUp, Finish, OneAtATime
  <2>2. UNCHANGED <<place, selection, calm>>
    BY <1>5 DEF Walk, Visit, Collect, GiveUp, Finish, device, listingVars
  <2>3. QED
    BY <2>1, <2>2, SearchRests
<1>6. CASE ReadPage
  <2>1. UNCHANGED <<place, selection, calm, folder>> /\ state # "idle" /\ state' # "idle"
    BY <1>6 DEF ReadPage, Read, TakeDocuments, TakePage, PageFails, device
  <2>2. QED
    BY <2>1, SearchRests
<1>7. CASE Disturb
  BY <1>7 DEF Disturb, SearchInv, SearchingInv, FoundInv
<1>8. CASE UNCHANGED vars
  BY <1>8, SearchRests DEF vars, listingVars, device, listing
<1>9. QED
  BY <1>1, <1>2, <1>3, <1>4, <1>5, <1>6, <1>7, <1>8 DEF Next, Run, StartWalk

\* A glob nobody disturbs finds each object of the expansion that has the
\* wanted type, once, and is given up exactly when it has looked at more than
\* the limit of entries (selectors.go, globDevice).
THEOREM UndisturbedSearchesAreExact == Spec => []UndisturbedSearchIsExact
<1>1. Init => SearchInv
  BY DEF Init, SelectionInit, SearchInv, SearchingInv, FoundInv
<1>2. SearchInv => UndisturbedSearchIsExact
  <2> SUFFICES ASSUME SearchInv, calm
               PROVE  /\ search \in {"found", "none"} =>
                            /\ IsInjective(EntriesIn(matches))
                            /\ ToSet(EntriesIn(matches)) = Expansion(pattern, Len(pattern)) \cap wanted
                            /\ Cardinality(Examined) <= Limit
                      /\ search = "limit" => Cardinality(Examined) > Limit
    BY DEF UndisturbedSearchIsExact
  <2>1. Examined = Under(Levels(pattern, Len(pattern)))
    BY DEF Examined, Under, Levels
  <2>2. ASSUME search \in {"found", "none"}
        PROVE  /\ IsInjective(EntriesIn(matches))
               /\ ToSet(EntriesIn(matches)) = Named(matches)
    <3>1. PICK s : s = EntriesIn(matches)
      OBVIOUS
    <3>2. IsSeq(s) /\ Distinct(s) /\ Elements(s) = Named(matches)
      BY <2>2, <3>1, CleanEntries DEF SearchInv, FoundInv
    <3>3. DOMAIN s = 1 .. Len(s)
      BY <3>2 DEF IsSeq
    <3>4. IsInjective(s)
      BY <3>2, <3>3 DEF Distinct, IsInjective
    <3>5. ToSet(s) = Elements(s)
      BY <3>3 DEF ToSet, Elements
    <3>6. QED
      BY <3>1, <3>2, <3>4, <3>5
  <2>3. QED
    BY <2>1, <2>2 DEF SearchInv, FoundInv
<1>3. OneAtATime /\ [Next]_vars => OneAtATime'
  BY NextKeepsOneAtATime
<1>4. Init => ListingInv /\ OneAtATime /\ CalmInv
  BY InitKeeps, InitIsCalm
<1>5. QED
  BY <1>1, <1>2, <1>3, <1>4, StepsKeepCalm, StepsKeepSearch, Invariance, PTL DEF Spec

-----------------------------------------------------------------------------
(* A walk that nobody disturbs.                                            *)

\* What a walk reaches: the least closed set with its roots.
LEMMA ReachableFacts ==
    ASSUME NEW start \in SUBSET (Entries \cup {Root})
    PROVE  /\ start \subseteq Reachable(start)
           /\ \A f \in Reachable(start) : In(f, Entries) \subseteq Reachable(start)
           /\ \A set \in SUBSET (Entries \cup {Root}) :
                 start \subseteq set /\ Closed(set) => Reachable(start) \subseteq set
<1> DEFINE Big == SUBSET (Entries \cup {Root})
           R == {e \in Entries \cup {Root} : \A set \in Big : start \subseteq set /\ Closed(set) => e \in set}
<1>1. Reachable(start) = R
  BY DEF Reachable
<1>2. start \subseteq R
  OBVIOUS
<1>3. ASSUME NEW f \in R, NEW e \in In(f, Entries) PROVE e \in R
  <2>1. e \in Entries
    BY DEF In
  <2>2. ASSUME NEW set \in Big, start \subseteq set, Closed(set) PROVE e \in set
    BY <1>3, <2>2 DEF Closed
  <2>3. QED
    BY <2>1, <2>2
<1>4. ASSUME NEW set \in Big, start \subseteq set, Closed(set) PROVE R \subseteq set
  BY <1>4
<1>5. QED
  BY <1>1, <1>2, <1>3, <1>4

LEMMA ReachableStays ==
    ASSUME UNCHANGED place, NEW start
    PROVE  /\ Reachable(start)' = Reachable(start)
           /\ Cardinality(Under(Reachable(start)))' = Cardinality(Under(Reachable(start)))
           /\ \A set : Under(set)' = Under(set)
<1>1. \A set : Closed(set)' <=> Closed(set)
  BY DEF Closed, In, Exists
<1>2. Reachable(start)' = Reachable(start)
  BY <1>1 DEF Reachable
<1>3. \A set : Under(set)' = Under(set)
  BY DEF Under, In, Exists
<1>4. PICK R : R = Reachable(start) /\ R = Reachable(start)'
  BY <1>2
<1>5. Under(R)' = Under(R)
  BY <1>3
<1>6. Cardinality(Under(Reachable(start)))' = Cardinality(Under(Reachable(start)))
  BY <1>4, <1>5
<1>7. QED
  BY <1>2, <1>3, <1>6

\* The folders whose entries have been met, and what has been met.
Done == IF state = "idle" THEN visited ELSE visited \ {folder}
Met(start, done) == start \cup Under(done)

\* All that was met has been shown or is going to be visited, and the limit
\* counts it at least; exactly, unless a walk starts from documents.
WalkAt(start, seen, todo, done, documents, count) ==
    /\ start \subseteq Entries \cup {Root}
    /\ seen \cup todo \subseteq Reachable(start) \cap (Folders \cup {Root})
    /\ documents = Met(start, done) \cap Documents
    /\ Met(start, done) \cap (Folders \cup {Root}) \subseteq seen \cup todo
    /\ count \in Nat /\ Cardinality(Under(done)) <= count /\ count <= Limit
    /\ start \cap Documents = {} => count = Cardinality(Under(done))
    /\ start \subseteq Documents => seen = {} /\ todo = {}

WalkingInv ==
    calm /\ status = "walking" =>
        /\ IsSeq(stack) /\ IsSeq(shown)
        /\ state # "idle" => folder \in visited
        /\ WalkAt(roots, visited, Elements(stack), Done, Elements(shown), observed)

WalkInv == WalkingInv /\ UndisturbedWalkIsExact

LEMMA WalkAtStays ==
    ASSUME UNCHANGED place, NEW start, NEW seen, NEW todo, NEW done, NEW documents, NEW count,
           WalkAt(start, seen, todo, done, documents, count)
    PROVE  WalkAt(start, seen, todo, done, documents, count)'
<1>1. Reachable(start)' = Reachable(start) /\ Under(done)' = Under(done)
  BY ReachableStays
<1>2. Met(start, done)' = Met(start, done)
  BY <1>1 DEF Met
<1>3. QED
  BY <1>1, <1>2 DEF WalkAt

LEMMA ExactnessStays ==
    ASSUME UndisturbedWalkIsExact, UNCHANGED <<place, calm, status, roots, shown>>
    PROVE  UndisturbedWalkIsExact'
<1>1. PICK start : start = roots
  OBVIOUS
<1>2. /\ Reachable(start)' = Reachable(start)
      /\ Cardinality(Under(Reachable(start)))' = Cardinality(Under(Reachable(start)))
  BY ReachableStays
<1>3. /\ Reachable(roots)' = Reachable(roots)
      /\ Cardinality(Under(Reachable(roots)))' = Cardinality(Under(Reachable(roots)))
  BY <1>1, <1>2
<1>4. QED
  BY <1>3 DEF UndisturbedWalkIsExact, Beneath, Under

LEMMA WalkRests ==
    ASSUME WalkInv, UNCHANGED <<place, calm, walk>>,
           status = "walking" => UNCHANGED folder /\ (state' = "idle" <=> state = "idle")
    PROVE  WalkInv'
<1>1. UndisturbedWalkIsExact'
  BY ExactnessStays DEF WalkInv, walk
<1>2. ASSUME calm, status = "walking" PROVE WalkingInv'
  <2>1. PICK start, seen, todo, done, documents, count :
          /\ start = roots /\ seen = visited /\ todo = Elements(stack) /\ done = Done
          /\ documents = Elements(shown) /\ count = observed
    OBVIOUS
  <2>2. WalkAt(start, seen, todo, done, documents, count)'
    BY <1>2, <2>1, WalkAtStays DEF WalkInv, WalkingInv
  <2>3. Done' = Done /\ Elements(stack)' = Elements(stack) /\ Elements(shown)' = Elements(shown)
    BY <1>2 DEF Done, walk
  <2>4. WalkAt(roots, visited, Elements(stack), Done, Elements(shown), observed)'
    BY <2>1, <2>2, <2>3 DEF walk
  <2>5. QED
    BY <1>2, <2>4 DEF WalkInv, WalkingInv, walk
<1>3. QED
  BY <1>1, <1>2 DEF WalkInv, WalkingInv, walk

\* A folder is taken from the stack.
LEMMA WalkVisits ==
    ASSUME NEW start, NEW seen, NEW todo, NEW done, NEW documents, NEW count,
           WalkAt(start, seen, todo, done, documents, count),
           NEW head, NEW rest, todo = {head} \cup rest
    PROVE  /\ head \in seen => WalkAt(start, seen, rest, done, documents, count)
           /\ WalkAt(start, seen \cup {head}, rest, done, documents, count)
<1>1. ~(start \subseteq Documents)
  BY DEF WalkAt
<1>2. ASSUME NEW all, all \cup rest = seen \cup todo PROVE WalkAt(start, all, rest, done, documents, count)
  BY <1>1, <1>2 DEF WalkAt
<1>3. (seen \cup {head}) \cup rest = seen \cup todo
  OBVIOUS
<1>4. head \in seen => seen \cup rest = seen \cup todo
  OBVIOUS
<1>5. QED
  BY <1>2, <1>3, <1>4

LEMMA FoldersHold ==
    ASSUME PlacesInv, NEW f, f \notin Folders \cup {Root}
    PROVE  In(f, Entries) = {}
<1>1. \A e \in In(f, Entries) : f \in {Root} \cup Folders
  BY ParentsAreFolders
<1>2. QED
  BY <1>1

\* What a folder holds is collected.
LEMMA WalkCollects ==
    ASSUME PlacesInv, NEW start, NEW seen, NEW todo, NEW documents, NEW count, NEW f \in seen,
           WalkAt(start, seen, todo, seen \ {f}, documents, count)
    PROVE  LET sum == count + Cardinality(In(f, Entries)) IN
           /\ Over(sum) /\ Cardinality(start) = 1 => Cardinality(Under(Reachable(start))) > Limit
           /\ ~Over(sum) =>
                 WalkAt(start, seen, (In(f, Entries) \cap (Folders \cup {Root})) \cup todo, seen,
                        documents \cup (In(f, Entries) \cap Documents), sum)
<1> DEFINE done == seen \ {f}
<1>1. PICK S, T, U : S = Under(done) /\ T = In(f, Entries) /\ U = Under(seen)
  OBVIOUS
<1>2. U = S \cup T /\ Cardinality(U) = Cardinality(S) + Cardinality(T)
      /\ Cardinality(U) \in Nat /\ Cardinality(S) \in Nat /\ Cardinality(T) \in Nat
  <2>1. PICK d : d = done
    OBVIOUS
  <2>2. f \notin d /\ d \cup {f} = seen
    BY <2>1
  <2>3. Cardinality(Under(d \cup {f})) = Cardinality(Under(d)) + Cardinality(In(f, Entries))
    BY <2>2, UnderOneMore
  <2>4. Cardinality(U) = Cardinality(S) + Cardinality(T)
    BY <1>1, <2>1, <2>2, <2>3
  <2>5. U = S \cup T
    BY <1>1, <2>1, <2>2 DEF Under
  <2>6. Cardinality(T) \in Nat
    BY <1>1, FoldersAreFinite, FS_CardinalityType
  <2>7. Cardinality(U) \in Nat /\ Cardinality(S) \in Nat
    BY <1>1, UnderIsFinite
  <2>8. QED
    BY <2>4, <2>5, <2>6, <2>7
<1>3. /\ start \subseteq Entries \cup {Root} /\ seen \cup todo \subseteq Reachable(start) \cap (Folders \cup {Root})
      /\ documents = (start \cup S) \cap Documents /\ (start \cup S) \cap (Folders \cup {Root}) \subseteq seen \cup todo
      /\ count \in Nat /\ Cardinality(S) <= count /\ count <= Limit
      /\ start \cap Documents = {} => count = Cardinality(S)
      /\ start \subseteq Documents => seen = {} /\ todo = {}
  BY <1>1 DEF WalkAt, Met
<1>4. PICK n \in Nat : n = count + Cardinality(T)
  BY <1>2, <1>3
<1>5. PICK reached : reached = Reachable(start)
  OBVIOUS
<1>6. T \subseteq reached /\ U \subseteq Under(reached)
  <2>1. \A g \in reached : In(g, Entries) \subseteq reached
    BY <1>3, <1>5, ReachableFacts
  <2>2. seen \subseteq reached
    BY <1>3, <1>5
  <2>3. QED
    BY <1>1, <2>1, <2>2 DEF Under
<1>7. ASSUME Over(n), Cardinality(start) = 1
      PROVE  Cardinality(Under(reached)) > Limit
  <2>1. start \cap Documents = {}
    <3>1. IsFiniteSet(start)
      <4>1. IsFiniteSet(Entries \cup {Root})
        BY ListingAssumption, FS_Singleton, FS_Union
      <4>2. QED
        BY <1>3, <4>1, FS_Subset
    <3>2. PICK s : start = {s}
      BY <1>7, <3>1, FS_Singleton
    <3>3. ~(start \subseteq Documents)
      BY <1>3
    <3>4. QED
      BY <3>2, <3>3
  <2>2. n = Cardinality(U)
    BY <1>2, <1>3, <1>4, <2>1
  <2>3. Cardinality(U) <= Cardinality(Under(reached))
    BY <1>1, <1>6, UnderGrows
  <2>4. Cardinality(Under(reached)) \in Nat
    BY UnderIsFinite
  <2>5. QED
    BY <1>2, <1>7, <2>2, <2>3, <2>4, PatternAssumption DEF Over
<1>8. ASSUME ~Over(n)
      PROVE  WalkAt(start, seen, (T \cap (Folders \cup {Root})) \cup todo, seen, documents \cup (T \cap Documents), n)
  <2>1. Met(start, seen) = start \cup S \cup T
    BY <1>1, <1>2 DEF Met
  <2>2. seen \cup (T \cap (Folders \cup {Root})) \cup todo \subseteq Reachable(start) \cap (Folders \cup {Root})
    BY <1>3, <1>5, <1>6
  <2>3. documents \cup (T \cap Documents) = Met(start, seen) \cap Documents
    BY <1>3, <2>1
  <2>4. Met(start, seen) \cap (Folders \cup {Root}) \subseteq seen \cup (T \cap (Folders \cup {Root})) \cup todo
    BY <1>3, <2>1
  <2>5. n <= Limit /\ Cardinality(Under(seen)) <= n
    BY <1>1, <1>2, <1>3, <1>4, <1>8, PatternAssumption DEF Over
  <2>6. start \cap Documents = {} => n = Cardinality(Under(seen))
    BY <1>1, <1>2, <1>3, <1>4
  <2>7. ~(start \subseteq Documents)
    BY <1>3
  <2>8. QED
    BY <1>3, <2>2, <2>3, <2>4, <2>5, <2>6, <2>7 DEF WalkAt
<1>9. QED
  BY <1>1, <1>4, <1>5, <1>7, <1>8

\* Nothing is left to be visited.
LEMMA WalkFinishes ==
    ASSUME PlacesInv, NEW start, NEW seen, NEW documents, NEW count,
           WalkAt(start, seen, {}, seen, documents, count)
    PROVE  /\ documents = Reachable(start) \cap Documents
           /\ Cardinality(Under(Reachable(start))) <= Limit
<1>1. PICK reached, U : reached = Reachable(start) /\ U = Under(seen)
  OBVIOUS
<1>2. /\ start \subseteq Entries \cup {Root} /\ seen \subseteq reached
      /\ documents = (start \cup U) \cap Documents /\ (start \cup U) \cap (Folders \cup {Root}) \subseteq seen
      /\ count \in Nat /\ Cardinality(U) <= count /\ count <= Limit
  BY <1>1 DEF WalkAt, Met
<1>3. U \in SUBSET Entries /\ IsFiniteSet(U) /\ Cardinality(U) \in Nat
  BY <1>1, UnderIsFinite
<1>4. Closed(start \cup U)
  <2> SUFFICES ASSUME NEW f \in start \cup U PROVE In(f, Entries) \subseteq start \cup U
    BY DEF Closed
  <2>1. CASE f \in Folders \cup {Root}
    <3>1. f \in seen
      BY <1>2, <2>1
    <3>2. In(f, Entries) \subseteq U
      BY <1>1, <3>1 DEF Under
    <3>3. QED
      BY <3>2
  <2>2. CASE f \notin Folders \cup {Root}
    BY <2>2, FoldersHold
  <2>3. QED
    BY <2>1, <2>2
<1>5. PICK set \in SUBSET (Entries \cup {Root}) : set = start \cup U
  BY <1>2, <1>3
<1>6. reached \subseteq set
  BY <1>1, <1>2, <1>4, <1>5, ReachableFacts
<1>7. set \subseteq reached
  <2>1. start \subseteq reached /\ \A f \in reached : In(f, Entries) \subseteq reached
    BY <1>1, <1>2, ReachableFacts
  <2>2. U \subseteq reached
    BY <1>1, <1>2, <2>1 DEF Under
  <2>3. QED
    BY <1>5, <2>1, <2>2
<1>8. documents = reached \cap Documents
  BY <1>2, <1>5, <1>6, <1>7
<1>9. Under(reached) = U
  <2>1. \A f \in reached : f \in seen \/ In(f, Entries) = {}
    BY <1>2, <1>5, <1>6, FoldersHold
  <2>2. QED
    BY <1>1, <1>2, <2>1 DEF Under
<1>10. QED
  BY <1>1, <1>2, <1>3, <1>8, <1>9, PatternAssumption

\* A walk starts.
LEMMA WalkStarts ==
    ASSUME NEW start \in SUBSET (Entries \cup {Root}), NEW count \in Nat, count <= Limit,
           start \cap Documents = {} => count = 0
    PROVE  WalkAt(start, {}, start \cap (Folders \cup {Root}), {}, start \cap Documents, count)
<1>1. Under({}) = {} /\ Cardinality({}) = 0
  BY FS_EmptySet DEF Under
<1>2. start \subseteq Reachable(start)
  BY ReachableFacts
<1>3. Documents \cap (Folders \cup {Root}) = {}
  BY ListingAssumption DEF Entries
<1>4. QED
  BY <1>1, <1>2, <1>3 DEF WalkAt, Met

LEMMA StartFromKeeps ==
    ASSUME NEW rows, IsSeq(rows), \A i \in 1 .. Len(rows) : rows[i][2] \in Int,
           Named(rows) \subseteq Entries \cup {Root}, Cardinality(Named(rows)) = 1 => Len(rows) <= 1,
           StartFrom(rows), state = "idle"
    PROVE  WalkInv'
<1>1. ToSet(EntriesIn(rows)) = Named(rows)
  <2>1. PICK s : s = EntriesIn(rows)
    OBVIOUS
  <2>2. IsSeq(s) /\ Len(s) = Len(rows) /\ \A i \in 1 .. Len(rows) : s[i] = rows[i][1]
    BY <2>1, EntriesInFacts
  <2>3. DOMAIN s = 1 .. Len(rows)
    BY <2>2 DEF IsSeq
  <2>4. QED
    BY <2>1, <2>2, <2>3 DEF ToSet, Named
<1>2. PICK documents : documents = DocumentsOf(rows)
  OBVIOUS
<1>3. IsSeq(documents) /\ Len(documents) <= Len(rows) /\ Elements(documents) = Named(rows) \cap Documents
  BY <1>2, TypedFacts DEF DocumentsOf, Typed
<1>4. PICK todo : todo = FoldersOf(rows)
  OBVIOUS
<1>5. IsSeq(todo) /\ Elements(todo) = Named(rows) \cap (Folders \cup {Root})
  BY <1>4, TypedFacts DEF FoldersOf, Typed
<1>6. /\ roots' = Named(rows) /\ shown' = Shown(mode', << >>, documents) /\ observed' = Len(shown')
      /\ status' = (IF Over(observed') THEN "limit" ELSE "walking")
      /\ stack' = todo /\ visited' = {} /\ state' = "idle" /\ UNCHANGED place
  BY <1>1, <1>2, <1>4 DEF StartFrom, listingVars, device, listing
<1>7. PICK s : s = shown'
  OBVIOUS
<1>8. IsSeq(s) /\ Len(s) <= Len(documents) /\ Elements(s) = Named(rows) \cap Documents
  <2>1. /\ IsSeq(Shown(mode', << >>, documents))
        /\ Len(Shown(mode', << >>, documents)) <= Len(<< >>) + Len(documents)
        /\ Elements(Shown(mode', << >>, documents)) = Elements(<< >>) \cup Elements(documents)
    BY <1>3, EmptyIsSeq, ShownFacts
  <2>2. Len(<< >>) + Len(documents) = Len(documents)
    BY <1>3, EmptyIsSeq DEF IsSeq
  <2>3. QED
    BY <1>3, <1>6, <1>7, <2>1, <2>2, EmptyIsSeq
<1>9. PICK n, k, r \in Nat : n = Len(s) /\ k = Len(documents) /\ r = Len(rows) /\ n <= k /\ k <= r
  BY <1>3, <1>8 DEF IsSeq
<1>10. ASSUME Over(n) PROVE WalkInv'
  <2>1. status' = "limit"
    BY <1>6, <1>7, <1>9, <1>10
  <2>2. Cardinality(Named(rows)) # 1
    BY <1>9, <1>10, PatternAssumption DEF Over
  <2>3. QED
    BY <1>6, <2>1, <2>2 DEF WalkInv, WalkingInv, UndisturbedWalkIsExact
<1>11. ASSUME ~Over(n) PROVE WalkInv'
  <2>1. status' = "walking"
    BY <1>6, <1>7, <1>9, <1>11
  <2>2. PICK start \in SUBSET (Entries \cup {Root}) : start = Named(rows)
    OBVIOUS
  <2>3. start \cap Documents = {} => n = 0
    <3> SUFFICES ASSUME Elements(s) = {} PROVE n = 0
      BY <1>8, <2>2
    <3>1. ~(1 \in 1 .. Len(s))
      BY DEF Elements
    <3>2. QED
      BY <1>9, <3>1
  <2>4. WalkAt(start, {}, start \cap (Folders \cup {Root}), {}, start \cap Documents, n)
    <3>1. n \in Nat /\ n <= Limit
      BY <1>11, PatternAssumption DEF Over
    <3>2. QED
      BY <2>3, <3>1, WalkStarts
  <2>5. PICK todos, documents2 : todos = start \cap (Folders \cup {Root}) /\ documents2 = start \cap Documents
    OBVIOUS
  <2>6. WalkAt(start, {}, todos, {}, documents2, n)'
    BY <1>6, <2>4, <2>5, WalkAtStays
  <2>7. Elements(stack)' = todos /\ Elements(shown)' = documents2 /\ Done' = {}
    BY <1>5, <1>6, <1>7, <1>8, <2>2, <2>5 DEF Done
  <2>8. WalkAt(roots, visited, Elements(stack), Done, Elements(shown), observed)'
    BY <1>6, <1>7, <1>9, <2>2, <2>6, <2>7
  <2>9. QED
    BY <1>5, <1>6, <1>7, <1>8, <2>1, <2>8 DEF WalkInv, WalkingInv, UndisturbedWalkIsExact
<1>12. QED
  BY <1>10, <1>11

LEMMA VisitKeeps ==
    ASSUME WalkInv, Visit
    PROVE  WalkInv'
<1>1. /\ status = "walking" /\ status' = "walking" /\ state = "idle" /\ stack # << >> /\ stack' = Tail(stack)
      /\ UNCHANGED <<place, calm, roots, shown, observed>>
  BY DEF Visit, device
<1>2. \/ Head(stack) \in visited /\ state' = "idle" /\ visited' = visited
      \/ /\ Head(stack) \notin visited /\ state' = "asked" /\ folder' = Head(stack)
         /\ visited' = visited \cup {Head(stack)}
  BY <1>1 DEF Visit, Seen, Start, listing
<1> SUFFICES ASSUME calm PROVE WalkInv'
  BY <1>1 DEF WalkInv, WalkingInv, UndisturbedWalkIsExact
<1>3. PICK start, seen, todo, done, documents, count, head, rest :
        /\ start = roots /\ seen = visited /\ todo = Elements(stack) /\ done = visited
        /\ documents = Elements(shown) /\ count = observed /\ head = Head(stack) /\ rest = Elements(Tail(stack))
  OBVIOUS
<1>4. /\ IsSeq(stack) /\ IsSeq(shown) /\ Done = visited
      /\ WalkAt(start, seen, todo, done, documents, count)
  BY <1>1, <1>3 DEF WalkInv, WalkingInv, Done
<1>5. IsSeq(Tail(stack)) /\ todo = {head} \cup rest
  BY <1>1, <1>3, <1>4, HeadAndTail
<1>6. PICK seen2 : seen2 = visited'
  OBVIOUS
<1>7. WalkAt(start, seen2, rest, done, documents, count)
  <2>1. /\ head \in seen => WalkAt(start, seen, rest, done, documents, count)
        /\ WalkAt(start, seen \cup {head}, rest, done, documents, count)
    BY <1>4, <1>5, WalkVisits
  <2>2. (head \in seen /\ seen2 = seen) \/ seen2 = seen \cup {head}
    BY <1>2, <1>3, <1>6
  <2>3. QED
    BY <2>1, <2>2
<1>8. WalkAt(start, seen2, rest, done, documents, count)'
  BY <1>1, <1>7, WalkAtStays
<1>9. Done' = done /\ Elements(stack)' = rest /\ Elements(shown)' = documents
  <2>1. Done' = done
    BY <1>2, <1>3 DEF Done
  <2>2. QED
    BY <1>1, <1>3, <2>1
<1>10. WalkAt(roots, visited, Elements(stack), Done, Elements(shown), observed)'
  BY <1>1, <1>3, <1>6, <1>8, <1>9
<1>11. (state # "idle" => folder \in visited)'
  BY <1>2
<1>12. QED
  BY <1>1, <1>4, <1>5, <1>10, <1>11 DEF WalkInv, WalkingInv, UndisturbedWalkIsExact

LEMMA CollectKeeps ==
    ASSUME ListingInv, CalmInv, WalkInv, Collect
    PROVE  WalkInv'
<1>1. /\ status = "walking" /\ state = "ok" /\ state' = "idle" /\ observed' = observed + Len(got)
      /\ UNCHANGED <<place, calm, mode, roots, visited>>
  BY DEF Collect, device
<1>2. \/ Over(observed') /\ status' = "limit"
      \/ /\ ~Over(observed') /\ status' = "walking"
         /\ shown' = Shown(mode, shown, DocumentsOf(got)) /\ stack' = FoldersOf(got) \o stack
  BY <1>1 DEF Collect, Below
<1> SUFFICES ASSUME calm PROVE WalkInv'
  BY <1>1, <1>2 DEF WalkInv, WalkingInv, UndisturbedWalkIsExact
<1>3. IsSeq(stack) /\ IsSeq(shown) /\ folder \in visited /\ Done = visited \ {folder}
  BY <1>1 DEF WalkInv, WalkingInv, Done
<1>4. Holds(got, folder)
  BY <1>1, GotTheFolder
<1>5. IsSeq(got) /\ Named(got) = In(folder, Entries) /\ \A i \in 1 .. Len(got) : got[i][2] \in Int
  BY <1>4, HoldsIsClean, RowFacts DEF Holds
<1>6. PICK docs, subs : docs = DocumentsOf(got) /\ subs = FoldersOf(got)
  OBVIOUS
<1>7. /\ IsSeq(docs) /\ Elements(docs) = In(folder, Entries) \cap Documents
      /\ IsSeq(subs) /\ Elements(subs) = In(folder, Entries) \cap (Folders \cup {Root})
  BY <1>5, <1>6, TypedFacts DEF DocumentsOf, FoldersOf, Typed
<1>8. PICK start, seen, todo, documents, count, f, sum :
        /\ start = roots /\ seen = visited /\ todo = Elements(stack) /\ documents = Elements(shown)
        /\ count = observed /\ f = folder /\ sum = observed + Len(got)
  OBVIOUS
<1>9. /\ f \in seen /\ WalkAt(start, seen, todo, seen \ {f}, documents, count)
      /\ sum = count + Cardinality(In(f, Entries))
  BY <1>1, <1>3, <1>4, <1>8 DEF WalkInv, WalkingInv, Holds
<1>10. PICK todo2, documents2 : /\ todo2 = (In(f, Entries) \cap (Folders \cup {Root})) \cup todo
                                /\ documents2 = documents \cup (In(f, Entries) \cap Documents)
  OBVIOUS
<1>11. /\ Over(sum) /\ Cardinality(start) = 1 => Cardinality(Under(Reachable(start))) > Limit
       /\ ~Over(sum) => WalkAt(start, seen, todo2, seen, documents2, sum)
  BY <1>9, <1>10, WalkCollects DEF ListingInv
<1>12. CASE Over(sum)
  <2>1. status' = "limit"
    BY <1>1, <1>2, <1>8, <1>12
  <2>2. Cardinality(Under(Reachable(start)))' = Cardinality(Under(Reachable(start)))
    BY <1>1, ReachableStays
  <2>3. ASSUME Cardinality(roots') = 1 PROVE Cardinality(Under(Reachable(roots)))' > Limit
    <3>1. Cardinality(Under(Reachable(start)))' > Limit
      BY <1>1, <1>8, <1>11, <1>12, <2>2, <2>3
    <3>2. QED
      BY <1>1, <1>8, <3>1
  <2>4. QED
    BY <2>1, <2>3 DEF WalkInv, WalkingInv, UndisturbedWalkIsExact, Beneath, Under
<1>13. CASE ~Over(sum)
  <2>1. status' = "walking" /\ shown' = Shown(mode, shown, docs) /\ stack' = subs \o stack
    BY <1>1, <1>2, <1>6, <1>8, <1>13
  <2>2. WalkAt(start, seen, todo2, seen, documents2, sum)'
    BY <1>1, <1>11, <1>13, WalkAtStays
  <2>3. IsSeq(stack)' /\ Elements(stack)' = todo2
    <3>1. IsSeq(subs \o stack) /\ Elements(subs \o stack) = Elements(subs) \cup Elements(stack)
      BY <1>3, <1>7, AppendedElements
    <3>2. Elements(subs) \cup Elements(stack) = todo2
      BY <1>7, <1>8, <1>10
    <3>3. QED
      BY <2>1, <3>1, <3>2
  <2>4. IsSeq(shown)' /\ Elements(shown)' = documents2
    <3>1. IsSeq(Shown(mode, shown, docs)) /\ Elements(Shown(mode, shown, docs)) = Elements(shown) \cup Elements(docs)
      BY <1>3, <1>7, ShownFacts
    <3>2. Elements(shown) \cup Elements(docs) = documents2
      BY <1>7, <1>8, <1>10
    <3>3. QED
      BY <2>1, <3>1, <3>2
  <2>5. Done' = seen
    BY <1>1, <1>8 DEF Done
  <2>6. WalkAt(roots, visited, Elements(stack), Done, Elements(shown), observed)'
    BY <1>1, <1>8, <2>2, <2>3, <2>4, <2>5
  <2>7. QED
    BY <1>1, <2>1, <2>3, <2>4, <2>6 DEF WalkInv, WalkingInv, UndisturbedWalkIsExact
<1>14. QED
  BY <1>12, <1>13

LEMMA FinishKeeps ==
    ASSUME ListingInv, WalkInv, Finish
    PROVE  WalkInv'
<1>1. /\ status = "walking" /\ status' = "ok" /\ state = "idle" /\ stack = << >>
      /\ UNCHANGED <<place, calm, roots, shown>>
  BY DEF Finish, listingVars, device
<1> SUFFICES ASSUME calm PROVE WalkInv'
  BY <1>1 DEF WalkInv, WalkingInv, UndisturbedWalkIsExact
<1>2. PICK start, seen, documents, count :
        start = roots /\ seen = visited /\ documents = Elements(shown) /\ count = observed
  OBVIOUS
<1>3. WalkAt(start, seen, {}, seen, documents, count) /\ IsSeq(shown)
  BY <1>1, <1>2, EmptyIsSeq DEF WalkInv, WalkingInv, Done
<1>4. documents = Reachable(start) \cap Documents /\ Cardinality(Under(Reachable(start))) <= Limit
  BY <1>3, WalkFinishes DEF ListingInv
<1>5. /\ Reachable(start)' = Reachable(start)
      /\ Cardinality(Under(Reachable(start)))' = Cardinality(Under(Reachable(start)))
  BY <1>1, ReachableStays
<1>6. /\ Reachable(roots)' = Reachable(start)
      /\ Cardinality(Under(Reachable(roots)))' = Cardinality(Under(Reachable(start)))
  BY <1>1, <1>2, <1>5
<1>7. ToSet(shown) = documents
  BY <1>2, <1>3 DEF ToSet, Elements, IsSeq
<1>8. QED
  BY <1>1, <1>2, <1>4, <1>6, <1>7 DEF WalkInv, WalkingInv, UndisturbedWalkIsExact, Beneath, Under

LEMMA StartWalkKeeps ==
    ASSUME ListingInv, OneAtATime, CalmInv, SearchInv, StartWalk
    PROVE  WalkInv'
<1>1. state = "idle"
  BY DEF StartWalk, WalkFromObject, WalkFromRoot, WalkFromMatches, StartFrom, CalmInv, Running
<1>2. ASSUME NEW e \in Entries \cup {Root}, NEW name \in Int, StartFrom(<< <<e, name>> >>) PROVE WalkInv'
  <2>1. PICK rows : rows = << <<e, name>> >>
    OBVIOUS
  <2>2. IsSeq(rows) /\ Len(rows) = 1 /\ rows[1] = <<e, name>>
    BY <2>1, OneRowIsSeq
  <2>3. \A i \in 1 .. Len(rows) : rows[i][2] \in Int
    BY <2>2
  <2>4. Named(rows) \subseteq Entries \cup {Root}
    BY <2>2 DEF Named
  <2>5. QED
    BY <1>1, <1>2, <2>1, <2>2, <2>3, <2>4, StartFromKeeps
<1>3. CASE WalkFromObject
  <2>1. PICK e \in Entries : Exists(e) /\ StartFrom(<<Row(e)>>)
    BY <1>3 DEF WalkFromObject
  <2>2. place[e].name \in Int
    <3>1. place[e] \in Places
      BY <2>1 DEF Exists, ListingInv, PlacesInv
    <3>2. place[e].name \in Names
      BY <3>1 DEF Places
    <3>3. \A name \in Names : name \in Int
      BY ListingAssumption
    <3>4. QED
      BY <3>2, <3>3
  <2>3. QED
    BY <1>2, <2>1, <2>2 DEF Row
<1>4. CASE WalkFromRoot
  BY <1>2, <1>4 DEF WalkFromRoot
<1>5. CASE WalkFromMatches
  <2>1. search = "found" /\ calm' = calm /\ StartFrom(matches)
    BY <1>5 DEF WalkFromMatches
  <2>2. CASE calm
    <3>1. PICK rows, p, n : rows = matches /\ p = pattern /\ n = Len(p)
      OBVIOUS
    <3>2. Clean(rows) /\ Named(rows) \subseteq Expansion(p, n) \cap wanted
      BY <2>1, <2>2, <3>1 DEF SearchInv, FoundInv
    <3>3. IsSeq(rows) /\ \A i \in 1 .. Len(rows) : rows[i][2] \in Int /\ rows[i][1] \in Entries
      BY <3>2, RowFacts DEF Clean
    <3>4. Named(rows) \subseteq Entries \cup {Root}
      BY <3>3 DEF Named
    <3>5. ASSUME Cardinality(Named(rows)) = 1 PROVE Len(rows) <= 1
      <4>1. PICK k \in Nat : k = Len(rows)
        BY <3>3 DEF IsSeq
      <4>2. IsFiniteSet(Named(rows))
        <5>1. Named(rows) \in SUBSET Entries
          BY <3>3 DEF Named
        <5>2. QED
          BY <5>1, ListingAssumption, FS_Subset
      <4>3. PICK e : Named(rows) = {e}
        BY <3>5, <4>2, FS_Singleton
      <4>4. \A i, j \in 1 .. k : i = j
        <5> SUFFICES ASSUME NEW i \in 1 .. k, NEW j \in 1 .. k PROVE i = j
          OBVIOUS
        <5>1. rows[i][1] \in Named(rows) /\ rows[j][1] \in Named(rows)
          BY <4>1 DEF Named
        <5>2. rows[i][1] = rows[j][1]
          BY <4>3, <5>1
        <5>3. QED
          BY <3>2, <4>1, <5>2 DEF Clean
      <4>5. ~(k > 1)
        <5>1. k > 1 => 1 \in 1 .. k /\ 2 \in 1 .. k
          OBVIOUS
        <5>2. QED
          BY <4>4, <5>1
      <4>6. QED
        BY <4>1, <4>5
    <3>6. QED
      BY <1>1, <2>1, <3>1, <3>3, <3>4, <3>5, StartFromKeeps
  <2>3. CASE ~calm
    BY <2>1, <2>3 DEF WalkInv, WalkingInv, UndisturbedWalkIsExact
  <2>4. QED
    BY <2>2, <2>3
<1>6. QED
  BY <1>3, <1>4, <1>5 DEF StartWalk

LEMMA StepsKeepWalk ==
    ListingInv /\ OneAtATime /\ CalmInv /\ SearchInv /\ WalkInv /\ [Next]_vars => WalkInv'
<1> SUFFICES ASSUME ListingInv, OneAtATime, CalmInv, SearchInv, WalkInv, [Next]_vars PROVE WalkInv'
  OBVIOUS
<1>1. CASE status = "idle" /\ Glob /\ UNCHANGED walk
  <2>1. status' = "idle"
    BY <1>1 DEF walk
  <2>2. QED
    BY <2>1 DEF WalkInv, WalkingInv, UndisturbedWalkIsExact
<1>2. CASE StartWalk
  BY <1>2, StartWalkKeeps
<1>3. CASE Search /\ UNCHANGED walk
  <2>1. search = "searching" /\ status # "walking" /\ UNCHANGED <<place, calm>>
    BY <1>3 DEF Search, ListNext, Examine, Descend, Select, SearchFails, OneAtATime, device, listingVars
  <2>2. QED
    BY <1>3, <2>1, WalkRests
<1>4. CASE GiveUp
  BY <1>4 DEF GiveUp, WalkInv, WalkingInv, UndisturbedWalkIsExact
<1>5. CASE ReadPage
  <2>1. UNCHANGED <<place, walk, calm, folder>> /\ state # "idle" /\ state' # "idle"
    BY <1>5 DEF ReadPage, Read, TakeDocuments, TakePage, PageFails, device
  <2>2. QED
    BY <2>1, WalkRests
<1>6. CASE Disturb
  BY <1>6 DEF Disturb, WalkInv, WalkingInv, UndisturbedWalkIsExact
<1>7. CASE UNCHANGED vars
  BY <1>7, WalkRests DEF vars, listingVars, device, listing
<1>8. QED
  BY <1>1, <1>2, <1>3, <1>4, <1>5, <1>6, <1>7, VisitKeeps, CollectKeeps, FinishKeeps DEF Next, Run, Walk

\* A walk nobody disturbs shows exactly the documents in and below its roots,
\* cycles in the tree included, and never has more entries below them than
\* the limit; from a single object it is given up only if there are more
\* (main.go, collectGlobalDocuments, printRecursiveEntries).
THEOREM UndisturbedWalksAreExact == Spec => []UndisturbedWalkIsExact
<1>1. Init => SearchInv /\ WalkInv
  BY DEF Init, SelectionInit, SearchInv, SearchingInv, FoundInv, WalkInv, WalkingInv, UndisturbedWalkIsExact
<1>2. Init => ListingInv /\ OneAtATime /\ CalmInv
  BY InitKeeps, InitIsCalm
<1>3. WalkInv => UndisturbedWalkIsExact
  BY DEF WalkInv
<1>4. QED
  BY <1>1, <1>2, <1>3, NextKeepsOneAtATime, StepsKeepCalm, StepsKeepSearch, StepsKeepWalk, Invariance,
     PTL DEF Spec

-----------------------------------------------------------------------------
(* A walk that nobody disturbs shows nothing twice.                        *)

LEMMA TypedIsDistinct ==
    ASSUME NEW rows, Clean(rows), NEW entries
    PROVE  Distinct(Typed(rows, entries))
<1>1. IsSeq(rows) /\ \A i \in 1 .. Len(rows) : rows[i][2] \in Int
  BY RowFacts DEF Clean
<1>2. PICK s, k : s = ByName(rows) /\ k = Len(rows) /\ k \in Nat
  BY <1>1 DEF IsSeq
<1>3. Cut(s, rows, 1 .. k)
  <2>1. IsFiniteSet(1 .. k)
    BY <1>2, FS_Interval
  <2>2. Picks(s, rows, 1 .. k)
    BY <1>1, <1>2, ByNamePicks
  <2>3. QED
    BY <2>1, <2>2, PicksAreCut
<1>4. Clean(s)
  BY <1>2, <1>3, CutsAreClean
<1>5. Clean(OfType(s, entries))
  BY <1>4, OfTypeIsClean
<1>6. QED
  BY <1>2, <1>5, CleanEntries DEF Typed

LEMMA ShowingNewOnes ==
    ASSUME NEW m, NEW printed, IsSeq(printed), Distinct(printed),
           NEW documents, IsSeq(documents), Distinct(documents),
           Elements(printed) \cap Elements(documents) = {}
    PROVE  Distinct(Shown(m, printed, documents))
<1>1. CASE m = "flat"
  BY <1>1, ShownFacts
<1>2. CASE m # "flat"
  <2>1. Shown(m, printed, documents) = printed \o documents
    BY <1>2 DEF Shown
  <2>2. QED
    BY <2>1, AppendedElements
<1>3. QED
  BY <1>1, <1>2

\* No document among the roots lies in a folder that the walk reaches.
RootsAside(start) ==
    \A d \in start \cap Documents : \A f \in Reachable(start) : d \notin In(f, Entries)

LEMMA OneRootIsAside ==
    ASSUME PlacesInv, NEW e \in Entries \cup {Root}
    PROVE  RootsAside({e})
<1> SUFFICES ASSUME e \in Documents, NEW f \in Reachable({e}), e \in In(f, Entries) PROVE FALSE
  BY DEF RootsAside
<1>1. In(e, Entries) = {}
  BY FoldersHold, ListingAssumption DEF Entries
<1>2. Reachable({e}) \subseteq {e}
  BY <1>1, ReachableFacts DEF Closed
<1>3. QED
  BY <1>1, <1>2

\* What a glob has found lies in folders of the level above, and a walk goes down.
LEMMA MatchesAreAside ==
    ASSUME PlacesInv, NEW p, NEW n \in Nat, NEW start \in SUBSET Entries, start \subseteq Expansion(p, n)
    PROVE  RootsAside(start)
<1> SUFFICES ASSUME NEW d \in start, NEW f \in Reachable(start), d \in In(f, Entries) PROVE FALSE
  BY DEF RootsAside
<1>1. d \in Entries /\ d \in Expansion(p, n)
  OBVIOUS
<1>2. n # 0
  BY <1>1, ExpansionStarts, ListingAssumption
<1>3. PICK c \in Nat : n = c + 1
  <2>1. n - 1 \in Nat /\ n = (n - 1) + 1
    BY <1>2
  <2>2. QED
    BY <2>1
<1>4. f \in Expansion(p, c)
  <2>1. PICK g \in Expansion(p, c) : d \in In(g, Entries)
    BY <1>1, <1>3, ExpansionGoesOn
  <2>2. QED
    BY <2>1, ParentsAreFolders
<1> DEFINE Above(e) == \E k \in Nat : k < n /\ e \in Expansion(p, k)
           set == {e \in Entries \cup {Root} : ~Above(e)}
<1>5. start \subseteq set
  <2> SUFFICES ASSUME NEW e \in start, NEW k \in Nat, k < n, e \in Expansion(p, k) PROVE FALSE
    OBVIOUS
  <2>1. e \in Expansion(p, n) \cap Expansion(p, k) /\ k # n
    OBVIOUS
  <2>2. QED
    BY <2>1, LevelsAreApart
<1>6. Closed(set)
  <2> SUFFICES ASSUME NEW g \in set, NEW e \in In(g, Entries), NEW k \in Nat, k < n, e \in Expansion(p, k)
               PROVE  FALSE
    <3>1. \A g : In(g, Entries) \subseteq Entries
      BY DEF In
    <3>2. QED
      BY <3>1 DEF Closed
  <2>1. e \in Entries /\ e # Root
    BY ParentsAreFolders
  <2>2. k # 0
    BY <2>1, ExpansionStarts
  <2>3. PICK l \in Nat : k = l + 1
    <3>1. k - 1 \in Nat /\ k = (k - 1) + 1
      BY <2>2
    <3>2. QED
      BY <3>1
  <2>4. PICK h \in Expansion(p, l) : e \in In(h, Entries)
    BY <2>3, ExpansionGoesOn
  <2>5. h = g /\ l < n
    BY <2>3, <2>4, ParentsAreFolders
  <2>6. QED
    BY <2>4, <2>5
<1>7. f \notin set
  BY <1>3, <1>4
<1>8. set \in SUBSET (Entries \cup {Root}) /\ start \in SUBSET (Entries \cup {Root})
  OBVIOUS
<1> HIDE DEF set
<1>9. QED
  BY <1>5, <1>6, <1>7, <1>8, ReachableFacts

LEMMA AsideStays ==
    ASSUME UNCHANGED place, NEW start, RootsAside(start)
    PROVE  RootsAside(start)'
<1>1. Reachable(start)' = Reachable(start)
  BY ReachableStays
<1>2. \A f : In(f, Entries)' = In(f, Entries)
  BY DEF In, Exists
<1>3. QED
  BY <1>1, <1>2 DEF RootsAside

OnceInv ==
    /\ search # "idle" => pattern \in Patterns
    /\ status = "idle" => shown = << >>
    /\ calm => Distinct(shown)
    /\ calm /\ status = "walking" => RootsAside(roots)

LEMMA StartShowsOnce ==
    ASSUME NEW rows, StartFrom(rows), Distinct(DocumentsOf(rows)), IsSeq(rows), RootsAside(Named(rows)),
           search' # "idle" => pattern \in Patterns
    PROVE  OnceInv'
<1>1. ToSet(EntriesIn(rows)) = Named(rows)
  <2>1. PICK s : s = EntriesIn(rows)
    OBVIOUS
  <2>2. IsSeq(s) /\ Len(s) = Len(rows) /\ \A i \in 1 .. Len(rows) : s[i] = rows[i][1]
    BY <2>1, EntriesInFacts
  <2>3. DOMAIN s = 1 .. Len(rows)
    BY <2>2 DEF IsSeq
  <2>4. QED
    BY <2>1, <2>2, <2>3 DEF ToSet, Named
<1>2. PICK start : start = Named(rows)
  OBVIOUS
<1>3. /\ roots' = start /\ shown' = Shown(mode', << >>, DocumentsOf(rows))
      /\ UNCHANGED <<place, pattern>> /\ status' # "idle"
  BY <1>1, <1>2 DEF StartFrom, listingVars, device, selection
<1>4. RootsAside(start)'
  BY <1>2, <1>3, AsideStays
<1>5. Distinct(shown')
  <2>1. IsSeq(DocumentsOf(rows))
    BY TypedFacts DEF DocumentsOf, Typed
  <2>2. QED
    BY <1>3, <2>1, EmptyIsSeq, ShowingNewOnes
<1>6. QED
  BY <1>3, <1>4, <1>5 DEF OnceInv

LEMMA StartsKeepOnce ==
    ASSUME ListingInv, FlatInv, SearchInv, OnceInv, StartWalk
    PROVE  OnceInv'
<1>1. ASSUME NEW e \in Entries \cup {Root}, NEW name, search = "idle", StartFrom(<< <<e, name>> >>)
      PROVE  OnceInv'
  <2>1. PICK rows : rows = << <<e, name>> >>
    OBVIOUS
  <2>2. IsSeq(rows) /\ Len(rows) = 1 /\ rows[1] = <<e, name>>
    BY <2>1, OneRowIsSeq
  <2>3. Named(rows) = {e}
    BY <2>2 DEF Named
  <2>4. Distinct(DocumentsOf(rows))
    <3>1. PICK documents : documents = DocumentsOf(rows)
      OBVIOUS
    <3>2. Len(documents) <= 1 /\ Len(documents) \in Nat
      BY <2>2, <3>1, TypedFacts DEF DocumentsOf, Typed, IsSeq
    <3>3. \A i, j \in 1 .. Len(documents) : i = j
      BY <3>2
    <3>4. QED
      BY <3>1, <3>3 DEF Distinct
  <2>5. RootsAside(Named(rows))
    BY <2>3, OneRootIsAside DEF ListingInv
  <2>6. search' = "idle"
    BY <1>1 DEF StartFrom, selection
  <2>7. QED
    BY <1>1, <2>1, <2>2, <2>4, <2>5, <2>6, StartShowsOnce
<1>2. CASE WalkFromObject \/ WalkFromRoot
  BY <1>1, <1>2 DEF WalkFromObject, WalkFromRoot, Row
<1>3. CASE WalkFromMatches /\ calm
  <2>1. PICK rows, p, n : rows = matches /\ p = pattern /\ n = Len(p)
    OBVIOUS
  <2>2. /\ search = "found" /\ search' = "found" /\ StartFrom(rows)
        /\ Clean(rows) /\ Named(rows) \subseteq Expansion(p, n)
    BY <1>3, <2>1 DEF WalkFromMatches, StartFrom, selection, SearchInv, FoundInv
  <2>3. n \in Nat
    <3>1. p \in Patterns
      BY <2>1, <2>2 DEF OnceInv
    <3>2. p \in Seq(SUBSET Names)
      BY <3>1, PatternAssumption
    <3>3. QED
      BY <2>1, <3>2
  <2>4. IsSeq(rows) /\ Named(rows) \in SUBSET Entries
    BY <2>2, RowFacts DEF Clean, Named
  <2>5. RootsAside(Named(rows))
    BY <2>2, <2>3, <2>4, MatchesAreAside DEF ListingInv
  <2>6. Distinct(DocumentsOf(rows))
    BY <2>2, TypedIsDistinct DEF DocumentsOf, Typed
  <2>7. QED
    BY <2>2, <2>4, <2>5, <2>6, StartShowsOnce DEF OnceInv
<1>4. CASE WalkFromMatches /\ ~calm
  BY <1>4 DEF WalkFromMatches, StartFrom, selection, OnceInv
<1>5. QED
  BY <1>2, <1>3, <1>4 DEF StartWalk

LEMMA CollectShowsOnce ==
    ASSUME ListingInv, CalmInv, FlatInv, WalkInv, OnceInv, Collect
    PROVE  OnceInv'
<1>1. /\ status = "walking" /\ state = "ok" /\ status' \in {"walking", "limit"}
      /\ UNCHANGED <<place, calm, mode, roots, search, pattern>>
      /\ shown' = shown \/ shown' = Shown(mode, shown, DocumentsOf(got))
  BY DEF Collect, device, selection
<1>2. ASSUME calm PROVE Distinct(shown')
  <2>1. PICK f, start, seen, documents, docs :
          /\ f = folder /\ start = roots /\ seen = visited /\ documents = Elements(shown)
          /\ docs = DocumentsOf(got)
    OBVIOUS
  <2>2. Holds(got, f)
    BY <1>1, <1>2, <2>1, GotTheFolder
  <2>3. Clean(got) /\ Named(got) = In(f, Entries)
    BY <2>2, HoldsIsClean
  <2>4. IsSeq(got) /\ \A i \in 1 .. Len(got) : got[i][2] \in Int
    BY <2>3, RowFacts DEF Clean
  <2>5. IsSeq(docs) /\ Elements(docs) = In(f, Entries) \cap Documents
    BY <2>1, <2>3, <2>4, TypedFacts DEF DocumentsOf, Typed
  <2>6. Distinct(docs)
    BY <2>1, <2>3, TypedIsDistinct DEF DocumentsOf, Typed
  <2>7. /\ f \in seen /\ seen \subseteq Reachable(start)
        /\ documents = (start \cup Under(seen \ {f})) \cap Documents
    BY <1>1, <1>2, <2>1 DEF WalkInv, WalkingInv, WalkAt, Met, Done
  <2>8. documents \cap Elements(docs) = {}
    <3> SUFFICES ASSUME NEW d \in Documents, d \in In(f, Entries), d \in start \cup Under(seen \ {f}) PROVE FALSE
      BY <2>5, <2>7
    <3>1. CASE d \in start
      BY <1>1, <1>2, <2>1, <2>7, <3>1 DEF OnceInv, RootsAside
    <3>2. CASE d \in Under(seen \ {f})
      <4>1. PICK g \in seen \ {f} : d \in In(g, Entries)
        BY <3>2 DEF Under
      <4>2. QED
        BY <4>1, ParentsAreFolders DEF ListingInv
    <3>3. QED
      BY <3>1, <3>2
  <2>9. IsSeq(shown) /\ Distinct(shown)
    BY <1>2 DEF FlatInv, OnceInv
  <2>10. QED
    BY <1>1, <2>1, <2>5, <2>6, <2>8, <2>9, ShowingNewOnes
<1>3. PICK start : start = roots
  OBVIOUS
<1>4. ASSUME calm PROVE RootsAside(start)'
  BY <1>1, <1>3, <1>4, AsideStays DEF OnceInv
<1>5. QED
  BY <1>1, <1>2, <1>3, <1>4 DEF OnceInv

LEMMA OnceStays ==
    ASSUME OnceInv, UNCHANGED <<place, roots, shown>>, status' # status => status # "idle" /\ status' # "walking",
           calm' => calm \/ status' = "idle",
           search' # "idle" => (search # "idle" /\ pattern' = pattern) \/ pattern' \in Patterns,
           status' = "idle" => status = "idle"
    PROVE  OnceInv'
<1>1. PICK start : start = roots
  OBVIOUS
<1>2. ASSUME calm, status = "walking" PROVE RootsAside(start)'
  BY <1>1, <1>2, AsideStays DEF OnceInv
<1>3. ASSUME calm' PROVE Distinct(shown')
  BY <1>3, EmptyIsSeq DEF OnceInv
<1>4. QED
  BY <1>1, <1>2, <1>3 DEF OnceInv

LEMMA StepsKeepOnce ==
    ListingInv /\ CalmInv /\ FlatInv /\ SearchInv /\ WalkInv /\ OnceInv /\ [Next]_vars => OnceInv'
<1> SUFFICES ASSUME ListingInv, CalmInv, FlatInv, SearchInv, WalkInv, OnceInv, [Next]_vars PROVE OnceInv'
  OBVIOUS
<1>1. CASE status = "idle" /\ Glob /\ UNCHANGED walk
  BY <1>1, OnceStays DEF Glob, walk, listingVars, device
<1>2. CASE Search /\ UNCHANGED walk
  BY <1>2, OnceStays DEF Search, ListNext, Examine, Descend, Select, SearchFails, walk, listingVars, device
<1>3. CASE Visit \/ GiveUp \/ Finish
  BY <1>3, OnceStays DEF Visit, GiveUp, Finish, selection, listingVars, device
<1>4. CASE ReadPage \/ UNCHANGED vars
  BY <1>4, OnceStays DEF ReadPage, vars, walk, selection, listingVars, device
<1>5. CASE Disturb
  BY <1>5 DEF Disturb, OnceInv, selection, walk
<1>6. QED
  BY <1>1, <1>2, <1>3, <1>4, <1>5, StartsKeepOnce, CollectShowsOnce DEF Next, Run, Walk

\* A walk nobody disturbs shows no document twice, flat or recursive, from an
\* object or from what a glob has found, in trees with cycles too: every folder
\* is listed once (main.go, printRecursiveEntries, collectGlobalDocuments), and
\* what a glob finds lies beside what it leads to.
THEOREM UndisturbedWalksShowOnce == Spec => []UndisturbedWalkShowsOnce
<1>1. Init => FlatInv /\ SearchInv /\ WalkInv /\ OnceInv
  BY EmptyIsSeq DEF Init, SelectionInit, FlatInv, SearchInv, SearchingInv, FoundInv, WalkInv, WalkingInv,
     UndisturbedWalkIsExact, OnceInv
<1>2. Init => ListingInv /\ OneAtATime /\ CalmInv
  BY InitKeeps, InitIsCalm
<1>3. FlatInv /\ OnceInv => UndisturbedWalkShowsOnce
  <2> SUFFICES ASSUME FlatInv, OnceInv, calm PROVE IsInjective(shown)
    BY DEF UndisturbedWalkShowsOnce
  <2>1. DOMAIN shown = 1 .. Len(shown) /\ Distinct(shown)
    BY DEF FlatInv, OnceInv, IsSeq
  <2>2. QED
    BY <2>1 DEF Distinct, IsInjective
<1>4. QED
  BY <1>1, <1>2, <1>3, NextKeepsOneAtATime, StepsKeepCalm, StepsKeepFlat, StepsKeepSearch, StepsKeepWalk,
     StepsKeepOnce, Invariance, PTL DEF Spec
=============================================================================
