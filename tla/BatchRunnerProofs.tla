------------------------- MODULE BatchRunnerProofs -------------------------
(***************************************************************************)
(* Proofs about BatchRunner and the index that it persists, for any        *)
(* documents and editions, and any number of places and batches.           *)
(***************************************************************************)
EXTENDS BatchRunner, SequenceTheorems, FunctionTheorems, FiniteSetTheorems,
        WellFoundedInduction, TLAPS

-----------------------------------------------------------------------------
\* What is picked from a sequence

\* The indexes that are picked are counted through in their order: the k-th
\* one exists, for each k up to their number.
LEMMA Ranks ==
    ASSUME NEW n \in Nat, NEW I \in SUBSET (1..n)
    PROVE  /\ Cardinality(I) \in Nat
           /\ \A k \in 1..Cardinality(I) :
                 \E i \in I : Cardinality({j \in I : j <= i}) = k
           /\ \A h, i \in I :
                 Cardinality({j \in I : j <= h}) = Cardinality({j \in I : j <= i}) => h = i
           /\ \A i \in I : Cardinality({j \in I : j <= i}) \in 1..Cardinality(I)
<1> DEFINE Upto(i) == {j \in I : j <= i}
           card    == Cardinality(I)
           rank    == [i \in I |-> Cardinality(Upto(i))]
<1>1. IsFiniteSet(I) /\ card \in Nat
  <2>1. IsFiniteSet(1..n)
    BY FS_Interval
  <2> QED
    BY <2>1, FS_Subset, FS_CardinalityType
<1>2. ASSUME NEW i \in I
      PROVE  IsFiniteSet(Upto(i)) /\ Cardinality(Upto(i)) \in 1..card
  <2>1. Upto(i) \in SUBSET I /\ Upto(i) # {}
    OBVIOUS
  <2>2. IsFiniteSet(Upto(i)) /\ Cardinality(Upto(i)) <= card
    BY <1>1, <2>1, FS_Subset
  <2>3. Cardinality(Upto(i)) \in Nat /\ Cardinality(Upto(i)) # 0
    BY <2>1, <2>2, FS_CardinalityType, FS_EmptySet
  <2> HIDE DEF Upto, card
  <2> QED
    BY <1>1, <2>2, <2>3
<1>3. ASSUME NEW h \in I, NEW i \in I, Cardinality(Upto(h)) = Cardinality(Upto(i)), h < i
      PROVE  FALSE
  <2>1. Upto(h) \in SUBSET Upto(i) /\ i \in Upto(i) /\ i \notin Upto(h)
    <3>1. \A j \in I : j \in Nat
      OBVIOUS
    <3>2. h \in Nat /\ i \in Nat
      BY <3>1
    <3>3. \A j \in I : j <= h => j <= i
      BY <1>3, <3>1, <3>2
    <3>4. i <= i /\ ~(i <= h)
      BY <1>3, <3>2
    <3> QED
      BY <3>3, <3>4
  <2>2. IsFiniteSet(Upto(i))
    BY <1>2
  <2>3. Upto(i) = Upto(h)
    <3> HIDE DEF Upto
    <3> QED
      BY <1>3, <2>1, <2>2, FS_Subset
  <2> QED
    BY <2>1, <2>3
<1>4. \A h, i \in I : Cardinality(Upto(h)) = Cardinality(Upto(i)) => h = i
  <2> SUFFICES ASSUME NEW h \in I, NEW i \in I,
                      Cardinality(Upto(h)) = Cardinality(Upto(i)), h # i
               PROVE  FALSE
    OBVIOUS
  <2>1. h < i \/ i < h
    OBVIOUS
  <2> QED
    BY <1>3, <2>1
<1>5. rank \in Injection(I, 1..card)
  <2>1. rank \in [I -> 1..card]
    BY <1>2
  <2>2. \A h, i \in I : rank[h] = rank[i] => h = i
    BY <1>4
  <2> HIDE DEF rank
  <2> QED
    BY <2>1, <2>2, Fun_IsInj
<1>6. IsFiniteSet(1..card) /\ Cardinality(1..card) = card
  <2> HIDE DEF card
  <2> QED
    BY <1>1, FS_Interval
<1>7. rank \in Surjection(I, 1..card)
  <2> HIDE DEF rank
  <2> QED
    BY <1>5, <1>6, FS_Injection
<1>8. \A k \in 1..card : \E i \in I : rank[i] = k
  <2> HIDE DEF rank, card
  <2> QED
    BY <1>7, Fun_SurjectionProperties
<1> QED
  BY <1>1, <1>2, <1>4, <1>8

\* What is picked is a sequence of the elements at the indexes, each once.
LEMMA PickedSeq ==
    ASSUME NEW S, NEW seq \in Seq(S), NEW I \in SUBSET DOMAIN seq
    PROVE  /\ Picked(seq, I) \in Seq(S)
           /\ \A k \in DOMAIN Picked(seq, I) : \E i \in I : Picked(seq, I)[k] = seq[i]
           /\ \A i \in I : \E k \in DOMAIN Picked(seq, I) : Picked(seq, I)[k] = seq[i]
           /\ (\A h, i \in I : seq[h] = seq[i] => h = i) =>
                 IsInjective(Picked(seq, I))
<1> DEFINE Rank(i) == Cardinality({j \in I : j <= i})
           card    == Cardinality(I)
           Nth(k)  == CHOOSE i \in I : Rank(i) = k
<1>1. I \in SUBSET (1..Len(seq)) /\ Len(seq) \in Nat
  OBVIOUS
<1>2. /\ card \in Nat
      /\ \A k \in 1..card : \E i \in I : Rank(i) = k
      /\ \A h, i \in I : Rank(h) = Rank(i) => h = i
      /\ \A i \in I : Rank(i) \in 1..card
  BY <1>1, Ranks
<1>3. Picked(seq, I) = [k \in 1..card |-> seq[Nth(k)]]
  BY DEF Picked
<1> HIDE DEF Rank, card
<1>4. \A k \in 1..card : Nth(k) \in I /\ Rank(Nth(k)) = k
  BY <1>2
<1>5. \A i \in I : Rank(i) \in 1..card /\ Nth(Rank(i)) = i
  BY <1>2, <1>4
<1> HIDE DEF Nth
<1>6. \A i \in I : seq[i] \in S
  OBVIOUS
<1>7. Picked(seq, I) \in Seq(S) /\ DOMAIN Picked(seq, I) = 1..card
  <2>1. Picked(seq, I) \in [1..card -> S]
    BY <1>3, <1>4, <1>6
  <2> QED
    BY <1>2, <2>1, SeqDef
<1>8. \A k \in 1..card : Picked(seq, I)[k] = seq[Nth(k)]
  BY <1>3
<1> QED
  BY <1>4, <1>5, <1>7, <1>8 DEF IsInjective

\* A snapshot has one row of each document in the gateway, the last one.
LEMMA LatestRows ==
    ASSUME NEW rows \in Seq(Row)
    PROVE  /\ Latest(rows) \in Seq(Row)
           /\ DocOnce(Latest(rows))
           /\ \A i \in DOMAIN rows : LastRow(rows, i) => rows[i] \in ToSet(Latest(rows))
<1> DEFINE I == {i \in DOMAIN rows : LastRow(rows, i)}
<1>1. Latest(rows) = Picked(rows, I)
  BY DEF Latest
<1>2. \A h, i \in I : rows[h].doc = rows[i].doc => h = i
  <2>1. \A i \in DOMAIN rows : i \in Nat
    OBVIOUS
  <2> QED
    BY <2>1 DEF LastRow
<1>3. \A h, i \in I : rows[h] = rows[i] => h = i
  BY <1>2
<1>4. I \in SUBSET DOMAIN rows
  OBVIOUS
<1> HIDE DEF I
<1>5. /\ Picked(rows, I) \in Seq(Row)
      /\ \A k \in DOMAIN Picked(rows, I) : \E i \in I : Picked(rows, I)[k] = rows[i]
      /\ \A i \in I : \E k \in DOMAIN Picked(rows, I) : Picked(rows, I)[k] = rows[i]
      /\ IsInjective(Picked(rows, I))
  BY <1>3, <1>4, PickedSeq
<1>6. DocOnce(Picked(rows, I))
  BY <1>2, <1>5 DEF DocOnce, IsInjective
<1>7. \A i \in I : rows[i] \in ToSet(Picked(rows, I))
  BY <1>5 DEF ToSet
<1> QED
  BY <1>1, <1>5, <1>6, <1>7 DEF I

-----------------------------------------------------------------------------
\* Loops

\* A set of naturals that is not empty has a least element.
LEMMA LeastNatural ==
    ASSUME NEW T \in SUBSET Nat, T # {}
    PROVE  \E m \in T : \A k \in T : m <= k
<1>1. PICK m \in T : \A k \in T : ~(<<k, m>> \in OpToRel(<, Nat))
  BY NatLessThanWellFounded, WFMin
<1>2. \A k \in T : ~(k < m)
  BY <1>1 DEF OpToRel
<1> QED
  BY <1>2

\* A set that has 0, and with each turn of a loop the next, has them all.
LEMMA Turns ==
    ASSUME NEW n \in Nat, NEW T, 0 \in T, \A k \in 1..n : k - 1 \in T => k \in T
    PROVE  \A k \in 0..n : k \in T
<1> SUFFICES ASSUME NEW j \in 0..n, j \notin T
             PROVE  FALSE
  OBVIOUS
<1> DEFINE F == {k \in 0..n : k \notin T}
<1>1. PICK m \in F : \A k \in F : m <= k
  <2>1. F \in SUBSET Nat /\ F # {}
    OBVIOUS
  <2> HIDE DEF F
  <2> QED
    BY <2>1, LeastNatural
<1>2. m \in 1..n /\ m - 1 \in 0..n
  BY <1>1
<1>3. m - 1 \in T
  BY <1>1, <1>2
<1> QED
  BY <1>1, <1>2, <1>3

-----------------------------------------------------------------------------
\* Searches

\* f[k] is what a scan has found after k rows.
Scanning(f, rows, found, needle) ==
    /\ f[0] = found
    /\ \A k \in 1 .. Len(rows) :
         f[k] = IF Matches(rows[k], needle) /\ ~Found(f[k - 1], rows[k])
                  THEN Append(f[k - 1], rows[k]) ELSE f[k - 1]

\* The loop over the rows.
LEMMA ScanLoop ==
    ASSUME NEW rows, NEW found, NEW needle, Len(rows) \in Nat
    PROVE  \E f : Scanning(f, rows, found, needle) /\ Scan(rows, found, needle) = f[Len(rows)]
<1> DEFINE n == Len(rows)
           base == found
           Turn(done, k) ==
               IF Matches(rows[k], needle) /\ ~Found(done, rows[k])
                 THEN Append(done, rows[k]) ELSE done
           Is(f, m) == f = [k \in 0..m |-> IF k = 0 THEN base ELSE Turn(f[k - 1], k)]
           Has(m) == \E f : Is(f, m)
           T == {m \in 0..n : Has(m)}
           c == CHOOSE f : Is(f, n)
<1> HIDE DEF Turn, base, n
<1>1. Has(0)
  <2> DEFINE g == [k \in 0..0 |-> base]
  <2>1. Is(g, 0)
    OBVIOUS
  <2> QED
    BY <2>1, Zenon
<1>2. ASSUME NEW m \in 1..n, Has(m - 1)
      PROVE  Has(m)
  <2>1. PICK f : Is(f, m - 1)
    BY <1>2
  <2> DEFINE g == [k \in 0..m |-> IF k = m THEN Turn(f[m - 1], m) ELSE f[k]]
  <2>2. Is(g, m)
    BY <2>1
  <2> QED
    BY <2>2, Zenon
<1>3. n \in Nat
  BY DEF n
<1>4. n \in T
  <2>1. 0 \in T /\ \A m \in 1..n : m - 1 \in T => m \in T
    <3> HIDE DEF Has
    <3> QED
      BY <1>1, <1>2, <1>3
  <2> HIDE DEF T
  <2> QED
    BY <1>3, <2>1, Turns
<1>5. Is(c, n)
  BY <1>4, Zenon
<1>6. c[0] = base /\ \A k \in 1..n : c[k] = Turn(c[k - 1], k)
  <2> HIDE DEF c
  <2> QED
    BY <1>3, <1>5
<1>7. Scan(rows, found, needle) = c[n]
  BY Zenon DEF Scan, Loop, n, base, Turn
<1> HIDE DEF c
<1>8. Scanning(c, rows, found, needle)
  BY <1>6, Zenon DEF Scanning, n, base, Turn
<1> QED
  BY <1>7, <1>8, Zenon DEF n

\* f[k] is what is found after k needles.
Searching(f, rows, needles) ==
    /\ f[0] = << >>
    /\ \A k \in 1 .. Len(needles) : f[k] = Scan(rows, f[k - 1], needles[k])

\* The loop over the needles.
LEMMA SearchLoop ==
    ASSUME NEW rows, NEW needles, NEW top_k, Len(needles) \in Nat
    PROVE  \E f : /\ Searching(f, rows, needles)
                  /\ SearchResolved(rows, needles, top_k) = FirstOf(f[Len(needles)], top_k)
<1> DEFINE n == Len(needles)
           base == << >>
           Turn(done, k) == Scan(rows, done, needles[k])
           Is(f, m) == f = [k \in 0..m |-> IF k = 0 THEN base ELSE Turn(f[k - 1], k)]
           Has(m) == \E f : Is(f, m)
           T == {m \in 0..n : Has(m)}
           c == CHOOSE f : Is(f, n)
<1> HIDE DEF Turn, base, n
<1>1. Has(0)
  <2> DEFINE g == [k \in 0..0 |-> base]
  <2>1. Is(g, 0)
    OBVIOUS
  <2> QED
    BY <2>1, Zenon
<1>2. ASSUME NEW m \in 1..n, Has(m - 1)
      PROVE  Has(m)
  <2>1. PICK f : Is(f, m - 1)
    BY <1>2
  <2> DEFINE g == [k \in 0..m |-> IF k = m THEN Turn(f[m - 1], m) ELSE f[k]]
  <2>2. Is(g, m)
    BY <2>1
  <2> QED
    BY <2>2, Zenon
<1>3. n \in Nat
  BY DEF n
<1>4. n \in T
  <2>1. 0 \in T /\ \A m \in 1..n : m - 1 \in T => m \in T
    <3> HIDE DEF Has
    <3> QED
      BY <1>1, <1>2, <1>3
  <2> HIDE DEF T
  <2> QED
    BY <1>3, <2>1, Turns
<1>5. Is(c, n)
  BY <1>4, Zenon
<1>6. c[0] = base /\ \A k \in 1..n : c[k] = Turn(c[k - 1], k)
  <2> HIDE DEF c
  <2> QED
    BY <1>3, <1>5
<1>7. SearchResolved(rows, needles, top_k) = FirstOf(c[n], top_k)
  BY Zenon DEF SearchResolved, Loop, n, base, Turn
<1> HIDE DEF c
<1>8. Searching(c, rows, needles)
  BY <1>6, Zenon DEF Searching, n, base, Turn
<1> QED
  BY <1>7, <1>8, Zenon DEF n

\* Rows that tell of each document once.
Once(hits) == hits \in Seq(Row) /\ DocOnce(hits)

\* A scan passes over the documents that were found.
LEMMA ScanOnce ==
    ASSUME NEW rows \in Seq(Row), NEW found, Once(found), NEW needle
    PROVE  Once(Scan(rows, found, needle))
<1> DEFINE n == Len(rows)
<1>1. n \in Nat /\ \A k \in 1..n : rows[k] \in Row
  BY LenProperties, ElementOfSeq
<1>2. PICK f : Scanning(f, rows, found, needle) /\ Scan(rows, found, needle) = f[n]
  BY <1>1, ScanLoop
<1> DEFINE T == {k \in 0..n : Once(f[k])}
<1>3. 0 \in T
  BY <1>1, <1>2 DEF Scanning
<1>4. \A k \in 1..n : k - 1 \in T => k \in T
  <2> TAKE k \in 1..n
  <2> HAVE k - 1 \in T
  <2> DEFINE hits == f[k - 1]
             row == rows[k]
             new == Append(hits, row)
  <2>1. f[k] = IF Matches(row, needle) /\ ~Found(hits, row) THEN new ELSE hits
    BY <1>2 DEF Scanning
  <2>2. Once(hits) /\ row \in Row
    BY <1>1
  <2> HIDE DEF hits, row
  <2>3. ASSUME ~Found(hits, row)
        PROVE  Once(new)
    <3>1. hits \in Seq(Row) /\ DocOnce(hits)
      BY <2>2 DEF Once
    <3>2. /\ new \in Seq(Row) /\ Len(new) = Len(hits) + 1
          /\ \A i \in 1..Len(hits) : new[i] = hits[i]
          /\ new[Len(hits) + 1] = row
      BY <2>2, <3>1, AppendProperties
    <3>3. /\ Len(hits) \in Nat /\ DOMAIN hits = 1..Len(hits)
          /\ DOMAIN new = 1..Len(new)
      BY <3>1, <3>2, LenProperties
    <3> HIDE DEF new
    <3>4. \A i \in 1..Len(hits) : hits[i].doc # row.doc
      BY <2>3, <3>3 DEF Found
    <3>5. \A i \in DOMAIN new : i \in 1..Len(hits) \/ i = Len(hits) + 1
      BY <3>2, <3>3
    <3>6. \A i, j \in 1..Len(hits) : hits[i].doc = hits[j].doc => i = j
      BY <3>1, <3>3 DEF DocOnce
    <3>7. DocOnce(new)
      BY <3>2, <3>4, <3>5, <3>6 DEF DocOnce
    <3> QED
      BY <3>2, <3>7 DEF Once
  <2>4. Once(f[k])
    <3> HIDE DEF new
    <3> QED
      BY <2>1, <2>2, <2>3
  <2> QED
    BY <2>4
<1>5. \A k \in 0..n : k \in T
  <2> HIDE DEF T, n
  <2> QED
    BY <1>1, <1>3, <1>4, Turns
<1> QED
  BY <1>1, <1>2, <1>5

\* The first of some rows.
LEMMA FirstOnce ==
    ASSUME NEW hits, Once(hits), NEW top_k \in Nat
    PROVE  DocOnce(FirstOf(hits, top_k))
<1> DEFINE m == IF Len(hits) < top_k THEN Len(hits) ELSE top_k
<1>1. hits \in Seq(Row) /\ Len(hits) \in Nat /\ DOMAIN hits = 1..Len(hits)
  BY LenProperties DEF Once
<1>2. m \in Nat /\ m <= Len(hits)
  BY <1>1
<1>3. FirstOf(hits, top_k) = SubSeq(hits, 1, m)
  BY DEF FirstOf
<1> HIDE DEF m
<1>4. /\ DOMAIN SubSeq(hits, 1, m) = 1..m
      /\ \A i \in 1..m : SubSeq(hits, 1, m)[i] = hits[i]
  BY <1>1, <1>2
<1>5. 1..m \subseteq 1..Len(hits)
  BY <1>1, <1>2
<1>6. \A i, j \in 1..Len(hits) : hits[i].doc = hits[j].doc => i = j
  BY <1>1 DEF Once, DocOnce
<1> QED
  BY <1>3, <1>4, <1>5, <1>6 DEF DocOnce

\* A search with a resolver gives each document once, whatever the rows are.
LEMMA ResolvedOnce ==
    ASSUME NEW rows \in Seq(Row), NEW needles, Len(needles) \in Nat, NEW top_k \in Nat
    PROVE  DocOnce(SearchResolved(rows, needles, top_k))
<1> DEFINE n == Len(needles)
<1>1. PICK f : /\ Searching(f, rows, needles)
               /\ SearchResolved(rows, needles, top_k) = FirstOf(f[n], top_k)
  BY SearchLoop
<1> DEFINE T == {k \in 0..n : Once(f[k])}
<1>2. 0 \in T
  <2>1. f[0] = << >>
    BY <1>1 DEF Searching
  <2>2. Once(<< >>)
    BY EmptySeq DEF Once, DocOnce
  <2> QED
    BY <2>1, <2>2
<1>3. \A k \in 1..n : k - 1 \in T => k \in T
  <2> TAKE k \in 1..n
  <2> HAVE k - 1 \in T
  <2> DEFINE hits == f[k - 1]
             needle == needles[k]
  <2>1. f[k] = Scan(rows, hits, needle)
    BY <1>1 DEF Searching
  <2>2. Once(hits)
    OBVIOUS
  <2>3. Once(Scan(rows, hits, needle))
    <3> HIDE DEF hits, needle
    <3> QED
      BY <2>2, ScanOnce
  <2> QED
    BY <2>1, <2>3
<1>4. \A k \in 0..n : k \in T
  <2>1. n \in Nat
    OBVIOUS
  <2> HIDE DEF T, n
  <2> QED
    BY <1>2, <1>3, <2>1, Turns
<1>5. Once(f[n])
  BY <1>4
<1> DEFINE hits == f[n]
<1>6. DocOnce(FirstOf(hits, top_k))
  <2> HIDE DEF hits
  <2> QED
    BY <1>5, FirstOnce DEF hits
<1> QED
  BY <1>1, <1>6

\* A search without one gives each document once if the rows do.
LEMMA PlainOnce ==
    ASSUME NEW rows \in Seq(Row), DocOnce(rows), NEW needle, NEW top_k \in Nat
    PROVE  DocOnce(SearchPlain(rows, needle, top_k))
<1> DEFINE I == {i \in DOMAIN rows : Matches(rows[i], needle)}
           hits == Picked(rows, I)
<1>1. I \in SUBSET DOMAIN rows
  OBVIOUS
<1>2. SearchPlain(rows, needle, top_k) = FirstOf(hits, top_k)
  BY DEF SearchPlain
<1> HIDE DEF I
<1>3. \A h, i \in I : rows[h].doc = rows[i].doc => h = i
  BY <1>1 DEF DocOnce
<1>4. /\ hits \in Seq(Row)
      /\ \A k \in DOMAIN hits : \E i \in I : hits[k] = rows[i]
      /\ IsInjective(hits)
  BY <1>1, <1>3, PickedSeq
<1> HIDE DEF hits
<1>5. Once(hits)
  BY <1>3, <1>4 DEF Once, DocOnce, IsInjective
<1> QED
  BY <1>2, <1>5, FirstOnce

-----------------------------------------------------------------------------
\* The documents still to come

\* The first document is one of them, and is not among the others.
LEMMA HeadOut ==
    ASSUME NEW refs \in Seq(Doc), refs # << >>, IsInjective(refs)
    PROVE  /\ Head(refs) \in Doc
           /\ Tail(refs) \in Seq(Doc) /\ IsInjective(Tail(refs))
           /\ Head(refs) \notin ToSet(Tail(refs))
           /\ ToSet(refs) = {Head(refs)} \cup ToSet(Tail(refs))
<1>1. /\ Head(refs) = refs[1] /\ Tail(refs) \in Seq(Doc) /\ refs[1] \in Doc
      /\ Len(refs) \in Nat /\ Len(refs) >= 1 /\ DOMAIN refs = 1..Len(refs)
      /\ DOMAIN Tail(refs) = 1..(Len(refs) - 1)
      /\ \A i \in 1..(Len(refs) - 1) : Tail(refs)[i] = refs[i + 1]
  BY HeadTailProperties
<1>2. \A i \in 1..(Len(refs) - 1) : i + 1 \in DOMAIN refs /\ i + 1 # 1
  BY <1>1
<1>3. \A i, j \in 1..(Len(refs) - 1) : i + 1 = j + 1 => i = j
  OBVIOUS
<1>4. \A i \in DOMAIN refs : i = 1 \/ (i - 1 \in 1..(Len(refs) - 1) /\ i = (i - 1) + 1)
  BY <1>1
<1>5. 1 \in DOMAIN refs
  BY <1>1
<1>6. IsInjective(Tail(refs))
  BY <1>1, <1>2, <1>3 DEF IsInjective
<1>7. Head(refs) \notin ToSet(Tail(refs))
  BY <1>1, <1>2, <1>5 DEF IsInjective, ToSet
<1>8. ToSet(refs) = {Head(refs)} \cup ToSet(Tail(refs))
  <2>1. \A i \in DOMAIN refs : i = 1 \/ \E j \in DOMAIN Tail(refs) : refs[i] = Tail(refs)[j]
    BY <1>1, <1>4
  <2>2. \A j \in DOMAIN Tail(refs) : \E i \in DOMAIN refs : Tail(refs)[j] = refs[i]
    BY <1>1, <1>2
  <2> QED
    BY <1>1, <1>5, <2>1, <2>2 DEF ToSet
<1> QED
  BY <1>1, <1>6, <1>7, <1>8

-----------------------------------------------------------------------------
\* The inductive invariant: who is not concerned by a step

\* Only one place can have run the last batch.
LEMMA OneLast ==
    ASSUME OneBatch, NEW p \in Runner, NEW q \in Runner, q # p,
           runner[p].pc # "idle", runner[p].run = runs
    PROVE  ~LastBatch(q)
BY DEF OneBatch, LastBatch

\* A step that leaves the vault and the place alone keeps what is said of it.
LEMMA BatchFrame ==
    ASSUME NEW q \in Runner, BatchInv(q), runner'[q] = runner[q],
           \A d \in Doc : inbox[d] # 0 => inbox'[d] # 0,
           ToSet(runner[q].refs) \subseteq Doc,
           UNCHANGED <<files, index, tmp, runs>>
    PROVE  BatchInv(q)'
<1>1. LastBatch(q)' = LastBatch(q) /\ Running(q)' = Running(q)
  BY DEF LastBatch, Running
<1>2. Accounted(q) => Accounted(q)'
  BY DEF Accounted, Current, files
<1>3. (Indexed(q) => Indexed(q)') /\ (Persisted(q) => Persisted(q)')
  BY DEF Indexed, Persisted, files
<1> QED
  BY <1>1, <1>2, <1>3 DEF BatchInv

\* A step of the place that runs the batch concerns nobody else.
LEMMA RunnerStep ==
    ASSUME IInv, NEW p \in Runner, Running(p), NEW r \in Place,
           runner' = [runner EXCEPT ![p] = r],
           r.pc # "idle", r.run = runner[p].run, runs' = runs,
           TypeOK', IndexWhole', (Accounted(p) /\ Persisted(p))',
           Running(p)' => Indexed(p)'
    PROVE  IInv'
<1>1. /\ TypeOK /\ OneBatch /\ runner[p].pc # "idle" /\ runner[p].run = runs
      /\ runner[p].run # 0
  BY DEF IInv, OneBatch, Running
<1>2. runner'[p] = r /\ \A q \in Runner : q # p => runner'[q] = runner[q]
  BY <1>1 DEF TypeOK
<1>3. OneBatch'
  <2>1. \A q \in Runner : Running(q)' => runner'[q].run = runs'
    BY <1>1, <1>2 DEF OneBatch, Running
  <2>2. \A q \in Runner : runner'[q].run = runner[q].run
    BY <1>2
  <2>3. \A q \in Runner : runner'[q].pc = "idle" <=> runner'[q].run = 0
    BY <1>1, <1>2 DEF OneBatch
  <2> QED
    BY <1>1, <2>1, <2>2, <2>3 DEF OneBatch
<1>4. \A q \in Runner : BatchInv(q)'
  <2>1. BatchInv(p)'
    BY DEF BatchInv
  <2>2. ASSUME NEW q \in Runner, q # p PROVE BatchInv(q)'
    <3>1. ~LastBatch(q)
      BY <1>1, <2>2, OneLast
    <3>2. ~LastBatch(q)'
      BY <1>2, <2>2, <3>1 DEF LastBatch
    <3> QED
      BY <3>2 DEF BatchInv
  <2> QED
    BY <2>1, <2>2
<1> QED
  BY <1>3, <1>4 DEF IInv

-----------------------------------------------------------------------------
\* The inductive invariant: the documents

\* A document fails: it moves from those to come to those that failed.
LEMMA FailsInv ==
    ASSUME IInv, NEW p \in Runner,
           runner[p].pc \in {"doc", "reload"}, runner[p].refs # << >>,
           Fails(p), UNCHANGED <<inbox, index, tmp, runs>>,
           manifest' \in [Doc -> Edition], private' \in [Doc -> Edition],
           \A d \in Doc \ {Current(p)} :
              manifest'[d] = manifest[d] /\ private'[d] = private[d]
    PROVE  IInv'
<1> DEFINE r  == runner[p]
           d0 == Current(p)
           r1 == [r EXCEPT !.pc = "doc"]
           r2 == [r1 EXCEPT !.refs = Tail(r.refs)]
           r3 == [r2 EXCEPT !.failed = r.failed \cup {d0}]
<1>1. TypeOK /\ r \in Place /\ Running(p) /\ LastBatch(p)
  BY DEF IInv, TypeOK, OneBatch, Running, LastBatch
<1>2. Accounted(p) /\ Indexed(p)
  BY <1>1 DEF IInv, BatchInv
<1>3. /\ d0 \in Doc /\ Tail(r.refs) \in Seq(Doc) /\ IsInjective(Tail(r.refs))
      /\ d0 \notin ToSet(Tail(r.refs)) /\ ToSet(r.refs) = {d0} \cup ToSet(Tail(r.refs))
  BY <1>1, <1>2, HeadOut DEF Accounted, Current, Place
<1>4. runner' = [runner EXCEPT ![p] = r3]
  BY <1>1 DEF Fails, TypeOK, Place
<1> HIDE DEF d0
<1>5. r3 \in Place
  BY <1>1, <1>3 DEF Place
<1>6. /\ r3.pc = "doc" /\ r3.refs = Tail(r.refs) /\ r3.failed = r.failed \cup {d0}
      /\ r3.gateway = r.gateway /\ r3.run = r.run /\ r3.batch = r.batch
      /\ r3.committed = r.committed
  BY <1>1 DEF Place
<1> HIDE DEF r3, r2, r1
<1>7. TypeOK' /\ runner'[p] = r3
  BY <1>1, <1>4, <1>5 DEF TypeOK
<1> HIDE DEF r
<1>8. Accounted(p)'
  <2>1. r.batch = r3.failed \cup {row.doc : row \in r.committed} \cup ToSet(r3.refs)
    BY <1>2, <1>3, <1>6 DEF Accounted, r
  <2>2. r3.failed \cap ToSet(r3.refs) = {}
    BY <1>2, <1>3, <1>6 DEF Accounted, r
  <2>3. ASSUME NEW row \in r.committed
        PROVE  /\ row.doc \notin r3.failed \cup ToSet(r3.refs)
               /\ manifest'[row.doc] = row.edition /\ private'[row.doc] = row.edition
    <3>1. row.doc \in Doc
      BY <1>1 DEF Place, Row, r
    <3>2. row.doc \notin r.failed /\ row.doc \notin ToSet(r.refs)
          /\ manifest[row.doc] = row.edition /\ private[row.doc] = row.edition
      BY <1>2 DEF Accounted, r
    <3>3. row.doc # d0
      BY <1>3, <3>2
    <3>4. manifest'[row.doc] = manifest[row.doc] /\ private'[row.doc] = private[row.doc]
      BY <3>1, <3>3 DEF d0
    <3> QED
      BY <1>3, <1>6, <3>2, <3>3, <3>4
  <2>4. \A d \in ToSet(r3.refs) : inbox'[d] # 0
    BY <1>2, <1>3, <1>6 DEF Accounted, r
  <2> QED
    BY <1>3, <1>6, <1>7, <2>1, <2>2, <2>3, <2>4 DEF Accounted
<1>9. Indexed(p)' /\ Persisted(p)' /\ IndexWhole'
  BY <1>2, <1>6, <1>7 DEF Indexed, Persisted, IndexWhole, IInv, r
<1> QED
  BY <1>1, <1>4, <1>5, <1>6, <1>7, <1>8, <1>9, RunnerStep DEF r

\* What a commit leaves that is cut short concerns no other document.
LEMMA RemainsElsewhere ==
    ASSUME TypeOK, NEW d \in Doc, Remains(d)
    PROVE  /\ manifest' \in [Doc -> Edition] /\ private' \in [Doc -> Edition]
           /\ \A e \in Doc \ {d} : manifest'[e] = manifest[e] /\ private'[e] = private[e]
<1>1. 0 \in Edition
  BY TextAssumption DEF Edition
<1>2. manifest' \in {[manifest EXCEPT ![d] = 0], [manifest EXCEPT ![d] = inbox[d]]}
      /\ private' \in {private, [private EXCEPT ![d] = 0]}
  BY DEF Remains
<1> QED
  BY <1>1, <1>2 DEF TypeOK

\* A document that fails goes on the list of the failed ones; what other
\* documents left in the vault stays.
LEMMA FailSteps ==
    ASSUME IInv, NEW p \in Runner, GivesUp(p) \/ ProcessFails(p) \/ ReloadFails(p)
    PROVE  IInv'
<1>1. TypeOK /\ BatchInv(p)
  BY DEF IInv
<1>2. runner[p].pc \in {"doc", "reload"} /\ runner[p].refs # << >> /\ Fails(p)
      /\ UNCHANGED <<inbox, index, tmp, runs>>
  <2>1. CASE GivesUp(p) \/ ProcessFails(p)
    BY <2>1 DEF GivesUp, ProcessFails, HasDoc
  <2>2. CASE ReloadFails(p)
    BY <2>2 DEF ReloadFails, HasDoc
  <2> QED
    BY <2>1, <2>2
<1>3. Current(p) \in Doc
  BY <1>1, <1>2, HeadTailProperties DEF TypeOK, Place, Current
<1>4. manifest' \in [Doc -> Edition] /\ private' \in [Doc -> Edition]
      /\ \A d \in Doc \ {Current(p)} :
            manifest'[d] = manifest[d] /\ private'[d] = private[d]
  <2>1. CASE GivesUp(p) \/ ReloadFails(p)
    BY <1>1, <2>1 DEF GivesUp, ReloadFails, files, TypeOK
  <2>2. CASE ProcessFails(p)
    BY <1>1, <1>3, <2>2, RemainsElsewhere DEF ProcessFails
  <2> QED
    BY <2>1, <2>2
<1> QED
  BY <1>2, <1>4, FailsInv

\* A document is committed: both files have the edition of the inbox.
LEMMA ProcessInv ==
    ASSUME IInv, NEW p \in Runner, Process(p)
    PROVE  IInv'
<1> DEFINE r  == runner[p]
           d0 == Current(p)
           r1 == [r EXCEPT !.pc = "reload"]
<1>1. /\ TypeOK /\ r \in Place /\ Running(p) /\ LastBatch(p)
      /\ r.refs # << >> /\ UNCHANGED <<inbox, index, tmp, runs>>
  BY DEF IInv, TypeOK, OneBatch, Running, LastBatch, Process, HasDoc
<1>2. Accounted(p) /\ Indexed(p)
  BY <1>1 DEF IInv, BatchInv
<1>3. d0 \in Doc /\ d0 \in ToSet(r.refs)
  BY <1>1, <1>2, HeadOut DEF Accounted, Current, Place
<1>4. runner' = [runner EXCEPT ![p] = r1]
  BY <1>1 DEF Process, TypeOK, Place
<1>5. /\ manifest' = [manifest EXCEPT ![d0] = inbox[d0]]
      /\ private' = [private EXCEPT ![d0] = inbox[d0]]
  BY DEF Process
<1> HIDE DEF d0
<1>6. r1 \in Place /\ r1.pc = "reload" /\ r1.refs = r.refs /\ r1.failed = r.failed
      /\ r1.gateway = r.gateway /\ r1.run = r.run /\ r1.batch = r.batch
      /\ r1.committed = r.committed
  BY <1>1 DEF Place
<1> HIDE DEF r1
<1>7. TypeOK' /\ runner'[p] = r1
  BY <1>1, <1>3, <1>4, <1>5, <1>6 DEF TypeOK
<1>8. manifest'[d0] = inbox[d0] /\ private'[d0] = inbox[d0]
      /\ \A d \in Doc : d # d0 => manifest'[d] = manifest[d] /\ private'[d] = private[d]
  BY <1>1, <1>3, <1>5 DEF TypeOK
<1>9. inbox[d0] # 0
  BY <1>2, <1>3 DEF Accounted
<1>10. Current(p)' = d0
  BY <1>6, <1>7 DEF Current, d0
<1> HIDE DEF r
<1>11. Accounted(p)'
  <2>1. ASSUME NEW row \in r.committed
        PROVE  /\ row.doc \notin r.failed \cup ToSet(r.refs)
               /\ manifest'[row.doc] = row.edition /\ private'[row.doc] = row.edition
    <3>1. row.doc \in Doc
      BY <1>1 DEF Place, Row, r
    <3>2. row.doc \notin r.failed \cup ToSet(r.refs)
          /\ manifest[row.doc] = row.edition /\ private[row.doc] = row.edition
      BY <1>2 DEF Accounted, r
    <3> QED
      BY <1>3, <1>8, <3>1, <3>2
  <2> QED
    BY <1>1, <1>2, <1>6, <1>7, <1>8, <1>9, <1>10, <2>1 DEF Accounted, r
<1>12. Indexed(p)' /\ Persisted(p)' /\ IndexWhole'
  BY <1>1, <1>2, <1>6, <1>7 DEF Indexed, Persisted, IndexWhole, IInv, r
<1> QED
  BY <1>1, <1>4, <1>6, <1>7, <1>11, <1>12, RunnerStep DEF r

\* The committed document is indexed: its row is the last of its document.
LEMMA ReloadInv ==
    ASSUME IInv, NEW p \in Runner, Reload(p)
    PROVE  IInv'
<1> DEFINE r   == runner[p]
           d0  == Current(p)
           new == [doc |-> d0, edition |-> manifest[d0]]
           r1  == [r EXCEPT !.pc = "doc"]
           r2  == [r1 EXCEPT !.refs = Tail(r.refs)]
           r3  == [r2 EXCEPT !.gateway = Append(r.gateway, new)]
           r4  == [r3 EXCEPT !.committed = r.committed \cup {new}]
<1>1. /\ TypeOK /\ r \in Place /\ Running(p) /\ LastBatch(p) /\ r.pc = "reload"
      /\ r.refs # << >> /\ UNCHANGED <<inbox, manifest, private, index, tmp, runs>>
  BY DEF IInv, TypeOK, OneBatch, Running, LastBatch, Reload, HasDoc, files
<1>2. Accounted(p) /\ Indexed(p)
  BY <1>1 DEF IInv, BatchInv
<1>3. /\ d0 \in Doc /\ Tail(r.refs) \in Seq(Doc) /\ IsInjective(Tail(r.refs))
      /\ d0 \notin ToSet(Tail(r.refs)) /\ ToSet(r.refs) = {d0} \cup ToSet(Tail(r.refs))
  BY <1>1, <1>2, HeadOut DEF Accounted, Current, Place
<1>4. manifest[d0] # 0 /\ private[d0] = manifest[d0]
  BY <1>1, <1>2 DEF Accounted
<1>5. new \in Row /\ new.doc = d0 /\ new.edition = manifest[d0]
  <2>1. manifest[d0] \in 1..MaxEdition
    BY <1>1, <1>3, <1>4, TextAssumption DEF TypeOK, Edition
  <2> QED
    BY <1>3, <2>1 DEF Row
<1>6. runner' = [runner EXCEPT ![p] = r4]
  BY <1>1 DEF Reload, TypeOK, Place
<1> HIDE DEF d0, new
<1>7. /\ Append(r.gateway, new) \in Seq(Row)
      /\ Len(Append(r.gateway, new)) = Len(r.gateway) + 1
      /\ Append(r.gateway, new)[Len(r.gateway) + 1] = new
      /\ DOMAIN Append(r.gateway, new) = 1..(Len(r.gateway) + 1)
      /\ DOMAIN r.gateway = 1..Len(r.gateway) /\ Len(r.gateway) \in Nat
      /\ \A i \in DOMAIN r.gateway : Append(r.gateway, new)[i] = r.gateway[i]
  <2>1. r.gateway \in Seq(Row)
    BY <1>1 DEF Place
  <2> HIDE DEF r
  <2> QED
    BY <1>5, <2>1, AppendProperties
<1>8. r4 \in Place
  <2>1. r.committed \cup {new} \in SUBSET Row
    BY <1>1, <1>5 DEF Place
  <2> QED
    BY <1>1, <1>3, <1>7, <2>1 DEF Place
<1>9. /\ r4.pc = "doc" /\ r4.refs = Tail(r.refs) /\ r4.failed = r.failed
      /\ r4.gateway = Append(r.gateway, new) /\ r4.run = r.run /\ r4.batch = r.batch
      /\ r4.committed = r.committed \cup {new}
  BY <1>1 DEF Place
<1> HIDE DEF r4, r3, r2, r1
<1>10. TypeOK' /\ runner'[p] = r4
  BY <1>1, <1>6, <1>8 DEF TypeOK
<1> HIDE DEF r
<1>11. \A row \in r.committed :
          /\ row.doc # d0 /\ row.doc \notin r.failed \cup ToSet(r.refs)
          /\ manifest[row.doc] = row.edition /\ private[row.doc] = row.edition
  BY <1>2, <1>3 DEF Accounted, r
<1>12. Accounted(p)'
  <2>1. r.batch = r4.failed \cup {row.doc : row \in r4.committed} \cup ToSet(r4.refs)
    <3>1. {row.doc : row \in r4.committed} = {row.doc : row \in r.committed} \cup {d0}
      BY <1>5, <1>9
    <3> QED
      BY <1>2, <1>3, <1>9, <3>1 DEF Accounted, r
  <2>2. r4.failed \cap ToSet(r4.refs) = {} /\ d0 \notin r4.failed
    BY <1>2, <1>3, <1>9 DEF Accounted, r
  <2>3. ASSUME NEW row \in r4.committed
        PROVE  /\ row.doc \notin r4.failed \cup ToSet(r4.refs)
               /\ manifest[row.doc] = row.edition /\ private[row.doc] = row.edition
    BY <1>3, <1>4, <1>5, <1>9, <1>11, <2>2
  <2>4. \A d \in ToSet(r4.refs) : inbox[d] # 0
    BY <1>2, <1>3, <1>9 DEF Accounted, r
  <2> QED
    BY <1>1, <1>3, <1>9, <1>10, <2>1, <2>2, <2>3, <2>4 DEF Accounted
<1>13. Indexed(p)'
  <2> SUFFICES ASSUME NEW row \in r4.committed
               PROVE  \E i \in DOMAIN r4.gateway :
                         r4.gateway[i] = row /\ LastRow(r4.gateway, i)
    BY <1>10 DEF Indexed
  <2>1. CASE row = new
    <3>1. Len(r.gateway) + 1 \in DOMAIN r4.gateway
      BY <1>7, <1>9
    <3>2. \A j \in DOMAIN r4.gateway : j <= Len(r.gateway) + 1
      BY <1>7, <1>9
    <3> QED
      BY <1>7, <1>9, <2>1, <3>1, <3>2 DEF LastRow
  <2>2. CASE row \in r.committed
    <3>1. PICK i \in DOMAIN r.gateway :
             r.gateway[i] = row /\ LastRow(r.gateway, i)
      BY <1>2, <2>2 DEF Indexed, r
    <3>2. i \in DOMAIN r4.gateway /\ r4.gateway[i] = row
      BY <1>7, <1>9, <3>1
    <3>3. row.doc # d0
      BY <1>11, <2>2
    <3>4. \A j \in DOMAIN r4.gateway :
             (j \in DOMAIN r.gateway /\ r4.gateway[j] = r.gateway[j]) \/ r4.gateway[j].doc = d0
      BY <1>5, <1>7, <1>9
    <3> QED
      BY <3>1, <3>2, <3>3, <3>4 DEF LastRow
  <2> QED
    BY <1>9, <2>1, <2>2
<1>14. Persisted(p)' /\ IndexWhole'
  BY <1>1, <1>9, <1>10 DEF Persisted, IndexWhole, IInv
<1> QED
  BY <1>1, <1>6, <1>8, <1>9, <1>10, <1>12, <1>13, <1>14, RunnerStep DEF r

-----------------------------------------------------------------------------
\* The inductive invariant: the snapshot

\* When all documents are through, the account of them does not change.
LEMMA ThroughInv ==
    ASSUME IInv, NEW p \in Runner, Running(p), runner[p].refs = << >>,
           NEW r \in Place, runner' = [runner EXCEPT ![p] = r],
           r.pc \in {"write", "replace", "done"},
           r.run = runner[p].run, r.batch = runner[p].batch, r.refs = runner[p].refs,
           r.committed = runner[p].committed, r.failed = runner[p].failed,
           r.gateway = runner[p].gateway,
           r.pc = "done" => r.exit = IF r.failed = {} THEN 0 ELSE 2,
           UNCHANGED <<inbox, files, runs>>, index' \in File, tmp' \in File,
           IndexWhole', Persisted(p)'
    PROVE  IInv'
<1>1. TypeOK /\ LastBatch(p)
  BY DEF IInv, OneBatch, Running, LastBatch
<1>2. Accounted(p) /\ Indexed(p)
  BY <1>1 DEF IInv, BatchInv
<1>3. TypeOK' /\ runner'[p] = r
  BY <1>1 DEF TypeOK, files
<1>4. Accounted(p)'
  BY <1>2, <1>3 DEF Accounted, files
<1>5. Indexed(p)'
  BY <1>2, <1>3 DEF Indexed
<1> QED
  BY <1>3, <1>4, <1>5, RunnerStep

\* The loop over the documents is done: the status is what was collected.
LEMMA FinishInv ==
    ASSUME IInv, NEW p \in Runner, Finish(p)
    PROVE  IInv'
<1> DEFINE r    == runner[p]
           done == IF r.status = "PENDING" THEN r.status
                   ELSE IF r.committed # {} \/ r.failed = {} THEN "DONE" ELSE "FAILED"
           r1   == [r EXCEPT !.pc = "write"]
           r2   == [r1 EXCEPT !.attempt = 1]
           r3   == [r2 EXCEPT !.status = done]
<1>1. /\ TypeOK /\ r \in Place /\ Running(p) /\ r.refs = << >>
      /\ UNCHANGED <<inbox, files, index, tmp, runs>>
  BY DEF IInv, TypeOK, Running, Finish
<1>2. runner' = [runner EXCEPT ![p] = r3]
  BY <1>1 DEF Finish, TypeOK, Place
<1>3. done \in {"PENDING", "DONE", "FAILED"}
  OBVIOUS
<1> HIDE DEF done
<1>4. r3 \in Place
  BY <1>1, <1>3 DEF Place
<1>5. /\ r3.pc = "write" /\ r3.refs = r.refs /\ r3.failed = r.failed
      /\ r3.gateway = r.gateway /\ r3.run = r.run /\ r3.batch = r.batch
      /\ r3.committed = r.committed
  BY <1>1 DEF Place
<1> HIDE DEF r3, r2, r1
<1>6. runner'[p] = r3 /\ index' \in File /\ tmp' \in File /\ IndexWhole'
  BY <1>1, <1>2 DEF TypeOK, IndexWhole, IInv
<1>7. Persisted(p)'
  BY <1>5, <1>6 DEF Persisted
<1> QED
  BY <1>1, <1>2, <1>4, <1>5, <1>6, <1>7, ThroughInv

\* When a batch is at its snapshot, no document is still to come.
LEMMA AtSnapshot ==
    ASSUME IInv, NEW p \in Runner, runner[p].pc \in {"write", "replace"}
    PROVE  /\ TypeOK /\ runner[p] \in Place /\ Running(p) /\ runner[p].refs = << >>
           /\ Accounted(p) /\ Indexed(p) /\ Persisted(p)
<1>1. TypeOK /\ runner[p] \in Place /\ Running(p) /\ LastBatch(p)
  BY DEF IInv, TypeOK, OneBatch, Running, LastBatch
<1>2. Accounted(p) /\ Indexed(p) /\ Persisted(p)
  BY <1>1 DEF IInv, BatchInv
<1> QED
  BY <1>1, <1>2 DEF Accounted

\* The batch returns: the summary says of the index what became of it.
LEMMA ReturnsInv ==
    ASSUME IInv, NEW p \in Runner, runner[p].pc \in {"write", "replace"},
           NEW persisted \in BOOLEAN, Returns(p, persisted),
           UNCHANGED <<inbox, files, runs>>, index' \in File, tmp' \in File,
           IndexWhole',
           persisted => runner[p].committed \subseteq ToSet(index'.rows)
    PROVE  IInv'
<1> DEFINE r    == runner[p]
           code == IF r.failed = {} THEN 0 ELSE 2
           r1   == [r EXCEPT !.pc = "done"]
           r2   == [r1 EXCEPT !.persisted = persisted]
           r3   == [r2 EXCEPT !.exit = code]
<1>1. TypeOK /\ r \in Place /\ Running(p) /\ r.refs = << >>
  BY AtSnapshot
<1>2. runner' = [runner EXCEPT ![p] = r3]
  BY <1>1 DEF Returns, TypeOK, Place
<1>3. code \in {0, 2}
  OBVIOUS
<1>4. r3 \in Place
  BY <1>1, <1>3 DEF Place
<1>5. /\ r3.pc = "done" /\ r3.refs = r.refs /\ r3.failed = r.failed
      /\ r3.gateway = r.gateway /\ r3.run = r.run /\ r3.batch = r.batch
      /\ r3.committed = r.committed /\ r3.persisted = persisted
      /\ r3.exit = IF r3.failed = {} THEN 0 ELSE 2
  BY <1>1 DEF Place
<1> HIDE DEF r3, r2, r1
<1>6. runner'[p] = r3
  BY <1>1, <1>2 DEF TypeOK
<1>7. Persisted(p)'
  BY <1>5, <1>6 DEF Persisted
<1> QED
  BY <1>1, <1>2, <1>4, <1>5, <1>7, ThroughInv

\* A snapshot that raises leaves the index file of before.
LEMMA SnapshotRefusedInv ==
    ASSUME IInv, NEW p \in Runner, SnapshotRefused(p)
    PROVE  IInv'
<1>1. /\ runner[p].pc \in {"write", "replace"} /\ Returns(p, FALSE)
      /\ UNCHANGED <<inbox, files, index, tmp, runs>>
  BY DEF SnapshotRefused
<1>2. index' \in File /\ tmp' \in File /\ IndexWhole'
  BY <1>1 DEF IInv, TypeOK, IndexWhole
<1> QED
  BY <1>1, <1>2, ReturnsInv

\* The temporary file has the last row of each document of the gateway.
LEMMA WriteInv ==
    ASSUME IInv, NEW p \in Runner, Write(p)
    PROVE  IInv'
<1> DEFINE r  == runner[p]
           r1 == [r EXCEPT !.pc = "replace"]
<1>1. /\ TypeOK /\ r \in Place /\ Running(p) /\ r.refs = << >> /\ Indexed(p)
      /\ UNCHANGED <<inbox, files, index, runs>>
  BY AtSnapshot DEF Write
<1>2. runner' = [runner EXCEPT ![p] = r1]
  BY <1>1 DEF Write, TypeOK, Place
<1>3. /\ r1 \in Place /\ r1.pc = "replace" /\ r1.refs = r.refs /\ r1.failed = r.failed
      /\ r1.gateway = r.gateway /\ r1.run = r.run /\ r1.batch = r.batch
      /\ r1.committed = r.committed
  BY <1>1 DEF Place
<1> HIDE DEF r1
<1>4. /\ Latest(r.gateway) \in Seq(Row) /\ DocOnce(Latest(r.gateway))
      /\ \A i \in DOMAIN r.gateway :
            LastRow(r.gateway, i) => r.gateway[i] \in ToSet(Latest(r.gateway))
  <2>1. r.gateway \in Seq(Row)
    BY <1>1 DEF Place
  <2> HIDE DEF r
  <2> QED
    BY <2>1, LatestRows
<1>5. tmp' = Whole(Latest(r.gateway))
  BY DEF Write
<1>6. tmp'.state = "whole" /\ tmp'.rows = Latest(r.gateway) /\ tmp' \in File
  BY <1>4, <1>5 DEF Whole, File
<1>7. r.committed \subseteq ToSet(Latest(r.gateway))
  BY <1>1, <1>4 DEF Indexed
<1>8. runner'[p] = r1 /\ index' \in File /\ IndexWhole'
  BY <1>1, <1>2 DEF TypeOK, IndexWhole, IInv
<1>9. Persisted(p)'
  BY <1>3, <1>4, <1>6, <1>7, <1>8 DEF Persisted
<1> QED
  BY <1>1, <1>2, <1>3, <1>6, <1>8, <1>9, ThroughInv

\* The rename puts the whole temporary file in the place of the index.
LEMMA ReplaceInv ==
    ASSUME IInv, NEW p \in Runner, Replace(p)
    PROVE  IInv'
<1>1. /\ runner[p].pc = "replace" /\ Returns(p, TRUE) /\ index' = tmp /\ tmp' = Absent
      /\ UNCHANGED <<inbox, files, runs>>
  BY DEF Replace
<1>2. TypeOK /\ Persisted(p)
  BY <1>1, AtSnapshot
<1>3. index' \in File /\ IndexWhole' /\ runner[p].committed \subseteq ToSet(index'.rows)
  BY <1>1, <1>2 DEF TypeOK, Persisted, IndexWhole, DocOnce
<1>4. tmp' \in File
  BY <1>1, EmptySeq DEF Absent, File
<1> QED
  BY <1>1, <1>3, <1>4, ReturnsInv

\* A failed attempt leaves the index as it was.
LEMMA AttemptFailsInv ==
    ASSUME IInv, NEW p \in Runner, AttemptFails(p)
    PROVE  IInv'
<1> DEFINE r  == runner[p]
           r1 == [r EXCEPT !.pc = "write"]
           r2 == [r1 EXCEPT !.attempt = r.attempt + 1]
<1>1. /\ TypeOK /\ r \in Place /\ Running(p) /\ r.refs = << >>
      /\ r.pc \in {"write", "replace"} /\ UNCHANGED <<inbox, files, index, runs>>
  BY AtSnapshot DEF AttemptFails
<1>2. Absent \in File /\ Partial \in File
  BY EmptySeq DEF Absent, Partial, File
<1>3. tmp' \in File /\ index' \in File /\ IndexWhole'
  BY <1>1, <1>2 DEF AttemptFails, TypeOK, IndexWhole, IInv
<1>4. CASE Returns(p, FALSE)
  BY <1>1, <1>3, <1>4, ReturnsInv
<1>5. CASE runner' = [runner EXCEPT ![p].pc = "write", ![p].attempt = @ + 1]
  <2>1. runner' = [runner EXCEPT ![p] = r2]
    BY <1>1, <1>5 DEF TypeOK, Place
  <2>2. r.attempt + 1 \in Nat
    BY <1>1 DEF Place
  <2>3. r2 \in Place
    BY <1>1, <2>2 DEF Place
  <2>4. /\ r2.pc = "write" /\ r2.refs = r.refs /\ r2.failed = r.failed
        /\ r2.gateway = r.gateway /\ r2.run = r.run /\ r2.batch = r.batch
        /\ r2.committed = r.committed
    BY <1>1 DEF Place
  <2> HIDE DEF r2, r1
  <2>5. runner'[p] = r2
    BY <1>1, <2>1 DEF TypeOK
  <2>6. Persisted(p)'
    BY <2>4, <2>5 DEF Persisted
  <2> QED
    BY <1>1, <1>3, <2>1, <2>3, <2>4, <2>6, ThroughInv
<1> QED
  BY <1>4, <1>5 DEF AttemptFails

-----------------------------------------------------------------------------
\* The inductive invariant: processes come and go

\* A new process has a place's shape, and runs no batch.
LEMMA FreshPlace == Fresh \in Place /\ Fresh.pc = "idle" /\ Fresh.run = 0
BY EmptySeq DEF Fresh, Place

\* A process that ends in the middle of a batch, or after one, takes its
\* gateway and its summary with it.
LEMMA GoneInv ==
    ASSUME IInv, NEW p \in Runner, runner' = [runner EXCEPT ![p] = Fresh],
           runs' = runs, TypeOK', IndexWhole',
           Running(p) \/ UNCHANGED <<inbox, files, index, tmp>>
    PROVE  IInv'
<1>1. TypeOK /\ OneBatch
  BY DEF IInv
<1>2. runner'[p] = Fresh /\ \A q \in Runner : q # p => runner'[q] = runner[q]
  BY <1>1 DEF TypeOK
<1>3. OneBatch'
  <2>1. \A q \in Runner :
           /\ runner'[q].run <= runs'
           /\ (runner'[q].pc = "idle" <=> runner'[q].run = 0)
           /\ (Running(q)' => runner'[q].run = runs')
    BY <1>1, <1>2, FreshPlace DEF OneBatch, Running, TypeOK
  <2>2. \A q \in Runner : runner'[q].run # 0 => q # p /\ runner'[q] = runner[q]
    BY <1>2, FreshPlace
  <2>3. \A q, o \in Runner :
           runner'[q].run = runner'[o].run /\ runner'[q].run # 0 => q = o
    BY <1>1, <2>2 DEF OneBatch
  <2> QED
    BY <2>1, <2>3 DEF OneBatch
<1>4. BatchInv(p)'
  BY <1>2, FreshPlace DEF BatchInv, LastBatch
<1>5. ASSUME NEW q \in Runner, q # p PROVE BatchInv(q)'
  <2>1. CASE Running(p)
    <3>1. ~LastBatch(q)
      BY <1>1, <1>5, <2>1, OneLast DEF OneBatch, Running
    <3>2. ~LastBatch(q)'
      BY <1>2, <1>5, <3>1 DEF LastBatch
    <3> QED
      BY <3>2 DEF BatchInv
  <2>2. CASE UNCHANGED <<inbox, files, index, tmp>>
    <3>1. ToSet(runner[q].refs) \subseteq Doc
      BY <1>1 DEF TypeOK, Place, ToSet
    <3> QED
      BY <1>2, <1>5, <2>2, <3>1, BatchFrame DEF IInv
  <2> QED
    BY <2>1, <2>2
<1> QED
  BY <1>3, <1>4, <1>5 DEF IInv

\* A process that dies leaves the index whole, whatever it was writing beside it.
LEMMA CrashInv ==
    ASSUME IInv, NEW p \in Runner, Crash(p)
    PROVE  IInv'
<1>1. /\ TypeOK /\ Running(p) /\ runner' = [runner EXCEPT ![p] = Fresh]
      /\ UNCHANGED <<inbox, index, runs>>
  BY DEF Crash, IInv
<1>2. tmp' \in File
  <2>1. Partial \in File
    BY EmptySeq DEF Partial, File
  <2> QED
    BY <1>1, <2>1 DEF Crash, TypeOK
<1>3. manifest' \in [Doc -> Edition] /\ private' \in [Doc -> Edition]
  <2>1. CASE UNCHANGED files
    BY <1>1, <2>1 DEF files, TypeOK
  <2>2. CASE HasDoc(p, "doc") /\ Remains(Current(p))
    <3>1. Current(p) \in Doc
      BY <1>1, <2>2, HeadTailProperties DEF HasDoc, TypeOK, Place, Current
    <3> QED
      BY <1>1, <2>2, <3>1, RemainsElsewhere
  <2> QED
    BY <2>1, <2>2 DEF Crash
<1>4. TypeOK' /\ IndexWhole'
  BY <1>1, <1>2, <1>3, FreshPlace DEF TypeOK, IndexWhole, IInv
<1> QED
  BY <1>1, <1>4, GoneInv

\* A process that ends takes its gateway with it and leaves the files.
LEMMA EndsInv ==
    ASSUME IInv, NEW p \in Runner, Ends(p)
    PROVE  IInv'
<1>1. /\ runner' = [runner EXCEPT ![p] = Fresh] /\ TypeOK
      /\ UNCHANGED <<inbox, files, index, tmp, runs>>
  BY DEF Ends, IInv
<1>2. TypeOK' /\ IndexWhole'
  BY <1>1, FreshPlace DEF TypeOK, IndexWhole, IInv, files
<1> QED
  BY <1>1, <1>2, GoneInv

\* A load adds to a gateway whose batch, if it had one, is over.
LEMMA LoadInv ==
    ASSUME IInv, NEW p \in Runner, Load(p)
    PROVE  IInv'
<1> DEFINE r    == runner[p]
           rows == r.gateway \o index.rows
           r1   == [r EXCEPT !.gateway = rows]
           r2   == [r1 EXCEPT !.loads = r.loads + 1]
<1>1. /\ TypeOK /\ OneBatch /\ r \in Place /\ ~Running(p)
      /\ UNCHANGED <<inbox, manifest, private, index, tmp, runs>>
  BY DEF IInv, TypeOK, Load, files
<1>2. rows \in Seq(Row) /\ r.loads + 1 \in Nat
  <2>1. r.gateway \in Seq(Row) /\ index.rows \in Seq(Row)
    BY <1>1 DEF Place, TypeOK, File
  <2>2. r.loads + 1 \in Nat
    BY <1>1 DEF Place
  <2> QED
    BY <2>1, <2>2, ConcatProperties
<1>3. runner' = [runner EXCEPT ![p] = r2]
  BY <1>1 DEF Load, TypeOK, Place
<1> HIDE DEF rows
<1>4. r2 \in Place
  BY <1>1, <1>2 DEF Place
<1>5. /\ r2.pc = r.pc /\ r2.refs = r.refs /\ r2.failed = r.failed /\ r2.run = r.run
      /\ r2.batch = r.batch /\ r2.committed = r.committed
      /\ r2.persisted = r.persisted /\ r2.exit = r.exit
  BY <1>1 DEF Place
<1> HIDE DEF r2, r1
<1>6. /\ TypeOK' /\ IndexWhole' /\ runner'[p] = r2
      /\ \A q \in Runner : q # p => runner'[q] = runner[q]
  BY <1>1, <1>3, <1>4 DEF TypeOK, IndexWhole, IInv
<1>7. OneBatch'
  <2>1. \A q \in Runner : runner'[q].run = runner[q].run /\ runner'[q].pc = runner[q].pc
    BY <1>5, <1>6
  <2> QED
    BY <1>1, <2>1 DEF OneBatch, Running
<1>8. BatchInv(p)'
  <2>1. LastBatch(p)' => LastBatch(p)
    BY <1>1, <1>5, <1>6 DEF LastBatch
  <2>2. ~Running(p)'
    BY <1>1, <1>5, <1>6 DEF Running
  <2>3. Accounted(p) => Accounted(p)'
    BY <1>1, <1>5, <1>6 DEF Accounted, Current
  <2>4. Persisted(p) => Persisted(p)'
    BY <1>1, <1>5, <1>6 DEF Persisted
  <2> QED
    BY <2>1, <2>2, <2>3, <2>4 DEF BatchInv, IInv
<1>9. ASSUME NEW q \in Runner, q # p PROVE BatchInv(q)'
  <2>1. ToSet(runner[q].refs) \subseteq Doc
    BY <1>1 DEF TypeOK, Place, ToSet
  <2> QED
    BY <1>1, <1>6, <1>9, <2>1, BatchFrame DEF IInv, files
<1> QED
  BY <1>6, <1>7, <1>8, <1>9 DEF IInv

\* A new edition in the inbox changes nothing that was processed.
LEMMA EditInv ==
    ASSUME IInv, NEW d \in Doc, Edit(d)
    PROVE  IInv'
<1>1. /\ TypeOK /\ inbox[d] < MaxEdition /\ inbox' = [inbox EXCEPT ![d] = inbox[d] + 1]
      /\ UNCHANGED <<manifest, private, index, tmp, runner, runs>>
  BY DEF Edit, IInv, files
<1>2. inbox[d] + 1 \in Edition
  BY <1>1, TextAssumption DEF TypeOK, Edition
<1>3. TypeOK' /\ \A e \in Doc : inbox[e] # 0 => inbox'[e] # 0
  BY <1>1, <1>2 DEF TypeOK, Edition
<1>4. \A q \in Runner : BatchInv(q)'
  <2>1. \A q \in Runner : ToSet(runner[q].refs) \subseteq Doc
    BY <1>1 DEF TypeOK, Place, ToSet
  <2> QED
    BY <1>1, <1>3, <2>1, BatchFrame DEF IInv, files
<1>5. OneBatch' /\ IndexWhole'
  BY <1>1 DEF IInv, OneBatch, Running, IndexWhole
<1> QED
  BY <1>3, <1>4, <1>5 DEF IInv

\* A batch begins when none is running: it is the last one from then on.
LEMMA BeginInv ==
    ASSUME IInv, NEW p \in Runner, Begin(p)
    PROVE  IInv'
<1> DEFINE I    == {i \in DOMAIN Sorted : inbox[Sorted[i]] # 0}
           refs == Picked(Sorted, I)
           r    == [Fresh EXCEPT !.pc = "doc", !.run = runs + 1,
                        !.gateway = runner[p].gateway, !.loads = runner[p].loads,
                        !.refs = refs, !.batch = ToSet(refs),
                        !.status = IF refs = << >> THEN "PENDING" ELSE "RUNNING"]
<1>1. /\ TypeOK /\ OneBatch /\ \A q \in Runner : ~Running(q)
      /\ runs' = runs + 1 /\ runner' = [runner EXCEPT ![p] = r]
      /\ UNCHANGED <<inbox, manifest, private, index, tmp>>
  BY DEF IInv, Begin, files
<1>2. /\ refs \in Seq(Doc) /\ IsInjective(refs)
      /\ \A d \in ToSet(refs) : d \in Doc /\ inbox[d] # 0
  <2>1. Sorted \in Seq(Doc) /\ \A h, i \in I : Sorted[h] = Sorted[i] => h = i
    BY RunnerAssumption DEF IsInjective
  <2>2. I \in SUBSET DOMAIN Sorted
    OBVIOUS
  <2>3. \A i \in I : inbox[Sorted[i]] # 0
    OBVIOUS
  <2> HIDE DEF I
  <2>4. /\ Picked(Sorted, I) \in Seq(Doc) /\ IsInjective(Picked(Sorted, I))
        /\ \A k \in DOMAIN Picked(Sorted, I) : \E i \in I : Picked(Sorted, I)[k] = Sorted[i]
    BY <2>1, <2>2, PickedSeq
  <2>5. \A k \in DOMAIN Picked(Sorted, I) : Picked(Sorted, I)[k] \in Doc
    BY <2>4
  <2> QED
    BY <2>3, <2>4, <2>5 DEF ToSet
<1> HIDE DEF refs
<1>3. /\ r.pc = "doc" /\ r.run = runs + 1 /\ r.refs = refs /\ r.batch = ToSet(refs)
      /\ r.committed = {} /\ r.failed = {} /\ r.gateway = runner[p].gateway
  BY DEF Fresh
<1>4. r \in Place
  <2>1. /\ runner[p].gateway \in Seq(Row) /\ runner[p].loads \in Nat /\ runs + 1 \in Nat
        /\ ToSet(refs) \in SUBSET Doc
    BY <1>1, <1>2 DEF TypeOK, Place
  <2> QED
    BY <1>2, <2>1 DEF Fresh, Place
<1> HIDE DEF r
<1>5. /\ TypeOK' /\ IndexWhole' /\ runner'[p] = r
      /\ \A q \in Runner : q # p => runner'[q] = runner[q]
  BY <1>1, <1>4 DEF TypeOK, IndexWhole, IInv, Place
<1>6. runs \in Nat /\ \A q \in Runner : runner[q].run \in Nat /\ runner[q].run <= runs
  BY <1>1 DEF TypeOK, Place, OneBatch
<1>7. \A q \in Runner : runner[q].run # runs'
  BY <1>1, <1>6
<1>8. OneBatch'
  <2>1. \A q \in Runner : runner'[q].run <= runs'
    BY <1>1, <1>3, <1>5, <1>6
  <2>2. \A q \in Runner : Running(q)' => q = p
    BY <1>1, <1>5 DEF Running
  <2>3. \A q \in Runner : runner'[q].pc = "idle" <=> runner'[q].run = 0
    BY <1>1, <1>3, <1>5, <1>6 DEF OneBatch
  <2>4. runner'[p].run = runs'
    BY <1>1, <1>3, <1>5
  <2>5. \A q, o \in Runner :
           runner'[q].run = runner'[o].run /\ runner'[q].run # 0 => q = o
    BY <1>1, <1>5, <1>7, <2>4 DEF OneBatch
  <2> QED
    BY <2>1, <2>2, <2>3, <2>4, <2>5 DEF OneBatch
<1>9. BatchInv(p)'
  <2>1. Accounted(p)'
    BY <1>1, <1>2, <1>3, <1>5 DEF Accounted
  <2>2. Indexed(p)' /\ Persisted(p)'
    BY <1>3, <1>5 DEF Indexed, Persisted
  <2> QED
    BY <2>1, <2>2 DEF BatchInv
<1>10. \A q \in Runner : q # p => BatchInv(q)'
  BY <1>5, <1>7 DEF BatchInv, LastBatch
<1> QED
  BY <1>5, <1>8, <1>9, <1>10 DEF IInv

\* Empty files and places that have not begun satisfy all of it.
LEMMA InitInv == Init => IInv
<1> SUFFICES ASSUME Init PROVE IInv
  OBVIOUS
<1>1. Absent \in File /\ Absent.state = "absent" /\ Absent.rows = << >>
  BY EmptySeq DEF Absent, File
<1>2. 0 \in Edition /\ 1 \in Edition
  BY TextAssumption DEF Edition
<1>3. TypeOK
  BY <1>1, <1>2, FreshPlace DEF Init, TypeOK
<1>4. OneBatch /\ \A p \in Runner : BatchInv(p)
  BY FreshPlace DEF Init, OneBatch, Running, BatchInv, LastBatch
<1>5. IndexWhole
  BY <1>1 DEF Init, IndexWhole
<1> QED
  BY <1>3, <1>4, <1>5 DEF IInv

\* The invariant that ties the summaries, the vault and the written index
\* together holds of every behaviour, with any number of places.
THEOREM Inductive == Spec => []IInv
<1>1. Init => IInv
  BY InitInv
<1>2. IInv /\ [Next]_vars => IInv'
  <2> SUFFICES ASSUME IInv, [Next]_vars PROVE IInv'
    OBVIOUS
  <2>1. ASSUME NEW p \in Runner, Step(p) PROVE IInv'
    BY <2>1, FailSteps, ProcessInv, ReloadInv, FinishInv, SnapshotRefusedInv, WriteInv,
       ReplaceInv, AttemptFailsInv DEF Step
  <2>2. ASSUME NEW p \in Runner, Begin(p) \/ Crash(p) \/ Ends(p) \/ Load(p) PROVE IInv'
    BY <2>2, BeginInv, CrashInv, EndsInv, LoadInv
  <2>3. CASE UNCHANGED vars
    BY <2>3 DEF vars, files, IInv, TypeOK, OneBatch, Running, IndexWhole, BatchInv,
                LastBatch, Accounted, Current, Indexed, Persisted
  <2> QED
    BY <2>1, <2>2, <2>3, EditInv DEF Next
<1> QED
  BY <1>1, <1>2, PTL DEF Spec

-----------------------------------------------------------------------------
\* What follows from it

\* Whoever opens the written index finds whole rows and each document once,
\* whatever failed and whoever died on the way.
THEOREM IndexIsWhole == Spec => []IndexWhole
<1>1. IInv => IndexWhole
  BY DEF IInv
<1> QED
  BY <1>1, Inductive, PTL

\* The summary of the last batch accounts for every document, and what it does
\* not list as failed is in the vault with its dictionary as it was indexed.
THEOREM CommittedAreWhole == Spec => []CommittedIsWhole
<1>1. IInv => CommittedIsWhole
  <2> SUFFICES ASSUME IInv, NEW p \in Runner, LastSummary(p)
               PROVE  /\ runner[p].batch =
                            runner[p].failed \cup {row.doc : row \in runner[p].committed}
                      /\ \A row \in runner[p].committed :
                            /\ row.doc \notin runner[p].failed
                            /\ manifest[row.doc] = row.edition
                            /\ private[row.doc] = row.edition
                      /\ runner[p].exit = 0 =>
                            \A d \in runner[p].batch :
                               manifest[d] = private[d] /\ manifest[d] # 0
    BY DEF CommittedIsWhole
  <2>1. Accounted(p) /\ runner[p].pc = "done" /\ runner[p] \in Place
    BY DEF LastSummary, LastBatch, BatchInv, IInv, TypeOK
  <2>2. ToSet(runner[p].refs) = {}
    BY <2>1 DEF Accounted, ToSet
  <2>3. \A row \in runner[p].committed : row.edition # 0
    BY <2>1, TextAssumption DEF Place, Row
  <2>4. runner[p].exit = 0 => runner[p].failed = {}
    BY <2>1 DEF Accounted
  <2> QED
    BY <2>1, <2>2, <2>3, <2>4 DEF Accounted
<1> QED
  BY <1>1, Inductive, PTL

\* A summary that says that the index was persisted is right: the written
\* index has each committed document of the batch as it was committed.
THEOREM CommittedAreServed == Spec => []CommittedIsServed
<1>1. IInv => CommittedIsServed
  BY DEF IInv, CommittedIsServed, LastSummary, LastBatch, BatchInv, Persisted
<1> QED
  BY <1>1, Inductive, PTL

\* A search with a resolver returns a document once, whatever a gateway holds;
\* a search without one does so in what was just loaded from the written index.
THEOREM HitsAreOncePerDoc == Spec => []HitsOncePerDoc
<1>1. ASSUME IInv
      PROVE  HitsOncePerDoc
  <2>1. \A p \in Runner : runner[p].gateway \in Seq(Row)
    BY <1>1 DEF IInv, TypeOK, Place
  <2>2. index.rows \in Seq(Row) /\ DocOnce(index.rows)
    BY <1>1 DEF IInv, TypeOK, File, IndexWhole, DocOnce
  <2>3. Len(Sorted) \in Nat
    BY RunnerAssumption, LenProperties
  <2>4. \A needles \in SeqOf(Needle, Len(Sorted)) : Len(needles) \in Nat
    <3> SUFFICES ASSUME NEW m \in 0..Len(Sorted), NEW needles \in [1..m -> Needle]
                 PROVE  Len(needles) \in Nat
      BY DEF SeqOf
    <3>1. m \in Nat
      BY <2>3
    <3>2. needles \in Seq(Needle)
      BY <3>1, IsASeq
    <3> QED
      BY <3>2, LenProperties
  <2>5. \A top_k \in 1..(Len(Sorted) + 1) : top_k \in Nat
    BY <2>3
  <2> QED
    BY <2>1, <2>2, <2>4, <2>5, ResolvedOnce, PlainOnce DEF HitsOncePerDoc
<1> QED
  BY <1>1, Inductive, PTL

=============================================================================
