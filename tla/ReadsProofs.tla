---------------------------- MODULE ReadsProofs -----------------------------
(***************************************************************************)
(* Proofs about the store's reads: every list is the first rows of what    *)
(* matches, but for the swaps SQLite filters or sorts after its LIMIT, of  *)
(* which the answer is still a part of what matches, in order; the column  *)
(* stays in step with the documents; and a client that pages back through  *)
(* a pool sees each trade once.                                            *)
(***************************************************************************)
EXTENDS Reads, FiniteSetTheorems, SequenceTheorems, TLAPS

(***************************************************************************)
(* The operators a page is built from                                      *)
(***************************************************************************)
\* A sequence made of a finite set's elements lists each of them once.
LEMMA SeqsOfSet ==
  ASSUME NEW S, IsFiniteSet(S), NEW s \in SetToSeqs(S)
  PROVE  /\ s \in Seq(S) /\ Len(s) = Cardinality(S) /\ Len(s) \in Nat /\ DOMAIN s = 1 .. Len(s)
         /\ Range(s) = S
         /\ \A i, j \in 1 .. Len(s) : s[i] = s[j] => i = j
<1>1. Cardinality(S) \in Nat
  BY FS_CardinalityType
<1>2. s \in [1 .. Cardinality(S) -> S] /\ IsInjective(s)
  BY <1>1 DEF SetToSeqs, IsInjective
<1>3. s \in Injection(1 .. Cardinality(S), S)
  BY <1>2 DEF Injection, IsInjective
<1>4. Cardinality(1 .. Cardinality(S)) = Cardinality(S)
  BY <1>1, FS_Interval
<1>5. s \in Surjection(1 .. Cardinality(S), S)
  BY <1>3, <1>4, FS_Injection
<1> QED
  BY <1>1, <1>2, <1>5 DEF Surjection, Range, IsInjective

\* The smaller of two numbers.
LEMMA MinOfTwo ==
  ASSUME NEW a \in Nat, NEW b \in Nat
  PROVE  Min({a, b}) = IF a <= b THEN a ELSE b
BY DEF Min

\* The larger of two numbers.
LEMMA MaxOfTwo ==
  ASSUME NEW a \in Nat, NEW b \in Nat
  PROVE  Max({a, b}) = IF a <= b THEN b ELSE a
BY DEF Max

\* A cut keeps the first rows, as many as it may.
LEMMA CutKeepsFirst ==
  ASSUME NEW S, NEW s \in Seq(S), NEW n \in Nat
  PROVE  /\ Cut(s, n) \in Seq(S) /\ Len(Cut(s, n)) = Min({n, Len(s)})
         /\ Len(Cut(s, n)) \in 0 .. Len(s) /\ DOMAIN Cut(s, n) = 1 .. Len(Cut(s, n))
         /\ Len(Cut(s, n)) < Len(s) => Len(Cut(s, n)) = n
         /\ \A i \in 1 .. Len(Cut(s, n)) : Cut(s, n)[i] = s[i]
<1> DEFINE k == Min({n, Len(s)})
<1>1. Len(s) \in Nat /\ \A i \in 1 .. Len(s) : s[i] \in S
  BY LenProperties, ElementOfSeq
<1>2. k = IF n <= Len(s) THEN n ELSE Len(s)
  BY <1>1, MinOfTwo
<1>3. k \in 0 .. Len(s) /\ (k < Len(s) => k = n)
  BY <1>1, <1>2
<1> HIDE DEF k
<1>4. /\ SubSeq(s, 1, k) \in Seq(S) /\ Len(SubSeq(s, 1, k)) = k
      /\ \A i \in 1 .. k : SubSeq(s, 1, k)[i] = s[i]
  BY <1>1, <1>3, SubSeqProperties
<1>5. Cut(s, n) = SubSeq(s, 1, k)
  BY DEF Cut, k
<1>6. DOMAIN Cut(s, n) = 1 .. k
  BY <1>4, <1>5, LenProperties
<1> QED
  BY <1>3, <1>4, <1>5, <1>6 DEF k

\* A query as the engine hands it down: `first` absent or a number.
IsQuery(q) ==
  /\ q \in [first : Seq(Int), orderBy : {q.orderBy}, dir : {q.dir}, where : {q.where}]
  /\ Len(q.first) \in {0, 1}

\* parseListArgs asks for at least one row, whatever `first` says.
LEMMA LimitPositive ==
  ASSUME NEW q, IsQuery(q)
  PROVE  limit(q) \in Nat \ {0}
<1>1. q.first = <<>> \/ q.first[1] \in Int
  BY DEF IsQuery
<1> QED
  BY <1>1, ReadsConstants DEF limit

\* The image of a finite set of ids is a finite set of rows.
LEMMA ImageFinite ==
  ASSUME NEW S, IsFiniteSet(S), NEW f, DOMAIN f = S
  PROVE  IsFiniteSet({f[x] : x \in S})
<1> DEFINE g == [x \in S |-> f[x]]
<1>1. g \in Surjection(S, {f[x] : x \in S})
  BY DEF Surjection
<1> QED
  BY <1>1, FS_Surjection

\* page: matched, sorted and cut in that order is a page, whatever order the rows
\* came in and however large `first` is.
LEMMA PageIsPage ==
  ASSUME NEW S, IsFiniteSet(S), NEW q, IsQuery(q), NEW ans \in page(S, q)
  PROVE  IsPage(ans, S, q) /\ Len(ans) \in Nat /\ DOMAIN ans = 1 .. Len(ans)
<1> DEFINE all == FilterResults(S, q.where)
<1>1. PICK s \in sortResults(all, q) : ans = Cut(s, limit(q))
  BY DEF page
<1>2. IsFiniteSet(all)
  BY FS_Subset DEF FilterResults
<1>3. /\ s \in SetToSeqs(all) /\ \A i, j \in 1 .. Len(s) : i < j => ~Before(s[j], s[i], q)
  BY DEF sortResults
<1>4. all = {m \in S : matchesWhere(m, q.where)}
  BY DEF FilterResults
<1> HIDE DEF all
<1>5. /\ s \in Seq(all) /\ Len(s) = Cardinality(all) /\ Len(s) \in Nat /\ DOMAIN s = 1 .. Len(s)
      /\ Range(s) = all /\ \A i, j \in 1 .. Len(s) : s[i] = s[j] => i = j
  BY <1>2, <1>3, SeqsOfSet
<1>6. /\ Len(ans) = Min({limit(q), Cardinality(all)}) /\ Len(ans) \in 0 .. Len(s)
      /\ DOMAIN ans = 1 .. Len(ans) /\ \A i \in 1 .. Len(ans) : ans[i] = s[i]
  <2>1. limit(q) \in Nat
    BY LimitPositive
  <2>2. \A n \in Nat : /\ Len(Cut(s, n)) = Min({n, Len(s)})
                        /\ Len(Cut(s, n)) \in 0 .. Len(s) /\ DOMAIN Cut(s, n) = 1 .. Len(Cut(s, n))
                        /\ \A i \in 1 .. Len(Cut(s, n)) : Cut(s, n)[i] = s[i]
    <3>1. s \in Seq(all)
      BY <1>5
    <3> QED
      BY <3>1, CutKeepsFirst, Zenon
  <2> QED
    BY <1>1, <1>5, <2>1, <2>2
<1>a. Len(s) \in Nat /\ Len(ans) \in Nat /\ Len(ans) <= Len(s)
      /\ \A i \in 1 .. Len(ans) : i \in 1 .. Len(s) /\ ans[i] = s[i] /\ s[i] \in all
  <2>1. \A i \in 1 .. Len(s) : s[i] \in all
    BY <1>5 DEF Range
  <2>2. Len(s) \in Nat /\ Len(ans) \in 0 .. Len(s)
    BY <1>5, <1>6
  <2>3. \A i \in 1 .. Len(ans) : ans[i] = s[i]
    BY <1>6
  <2> QED
    BY <2>1, <2>2, <2>3
<1>7. Range(ans) \subseteq all /\ IsInjective(ans)
  BY <1>5, <1>6, <1>a DEF Range, IsInjective
<1>8. \A i, j \in DOMAIN ans : i < j => ~Before(ans[j], ans[i], q)
  BY <1>3, <1>6, <1>a
<1>9. \A m \in all \ Range(ans), x \in Range(ans) : ~Before(m, x, q)
  <2> SUFFICES ASSUME NEW m \in all \ Range(ans), NEW x \in Range(ans) PROVE ~Before(m, x, q)
    OBVIOUS
  <2>1. PICK j \in 1 .. Len(s) : m = s[j]
    BY <1>5 DEF Range
  <2>2. PICK i \in 1 .. Len(ans) : x = s[i]
    BY <1>6 DEF Range
  <2>3. j > Len(ans)
    <3>1. DOMAIN ans = 1 .. Len(ans)
      BY <1>6
    <3>2. j \notin 1 .. Len(ans)
      BY <1>a, <2>1, <3>1 DEF Range
    <3> QED
      BY <1>a, <3>2
  <2> QED
    BY <1>3, <1>5, <1>6, <2>1, <2>2, <2>3
<1>b. Len(ans) <= limit(q)
  <2>1. limit(q) \in Nat /\ Cardinality(all) \in Nat
    BY <1>2, LimitPositive, FS_CardinalityType
  <2>2. Len(ans) = IF limit(q) <= Cardinality(all) THEN limit(q) ELSE Cardinality(all)
    BY <1>6, <2>1, MinOfTwo
  <2> QED
    BY <2>1, <2>2
<1>10. IsPage(ans, S, q)
  BY <1>6, <1>7, <1>8, <1>9, <1>b DEF IsPage, IsAnswer, NoGap, all
<1> QED
  BY <1>6, <1>a, <1>10

\* FilterResults of a list in which everything matches gives the list again: a page
\* that is filtered once more is still that page.
LEMMA FilteredPageIsPage ==
  ASSUME NEW S, NEW q, NEW s, IsPage(s, S, q), Len(s) \in Nat, DOMAIN s = 1 .. Len(s),
         NEW t \in FilterInOrder(s, q.where)
  PROVE  IsPage(t, S, q) /\ Len(t) \in Nat /\ DOMAIN t = 1 .. Len(t)
<1> DEFINE all == FilterResults(S, q.where)
           hits == {n \in DOMAIN s : matchesWhere(s[n], q.where)}
<1>1. /\ Range(s) \subseteq all /\ IsInjective(s) /\ Len(s) = Min({limit(q), Cardinality(all)})
      /\ \A i, j \in DOMAIN s : i < j => ~Before(s[j], s[i], q)
      /\ \A m \in all \ Range(s), x \in Range(s) : ~Before(m, x, q)
      /\ Len(s) <= limit(q)
  BY DEF IsPage, IsAnswer, NoGap
<1>2. hits = 1 .. Len(s)
  BY <1>1 DEF Range, FilterResults
<1>3. PICK at \in SetToSeqs(hits) : /\ t = [n \in DOMAIN at |-> s[at[n]]]
                                    /\ \A i, j \in DOMAIN at : i < j => at[i] < at[j]
  BY DEF FilterInOrder
<1> HIDE DEF hits, all
<1>4. IsFiniteSet(1 .. Len(s)) /\ Cardinality(1 .. Len(s)) = Len(s)
  <2>1. 1 \in Int /\ Len(s) \in Int
    OBVIOUS
  <2>2. /\ IsFiniteSet(1 .. Len(s))
        /\ Cardinality(1 .. Len(s)) = IF 1 > Len(s) THEN 0 ELSE Len(s) - 1 + 1
    BY <2>1, FS_Interval, Zenon
  <2> QED
    BY <2>2
<1>5. /\ DOMAIN at = 1 .. Len(s) /\ Range(at) = 1 .. Len(s)
      /\ \A i, j \in 1 .. Len(s) : at[i] = at[j] => i = j
  BY <1>2, <1>3, <1>4, SeqsOfSet
<1>6. DOMAIN t = 1 .. Len(s) /\ \A n \in 1 .. Len(s) : at[n] \in 1 .. Len(s) /\ t[n] = s[at[n]]
  BY <1>3, <1>5 DEF Range
<1>7. Len(t) = Len(s)
  <2>1. t \in [1 .. Len(s) -> Range(s)]
    BY <1>3, <1>5 DEF Range
  <2>2. t \in Seq(Range(s))
    BY <2>1, SeqDef
  <2>3. 1 .. Len(t) = 1 .. Len(s) /\ Len(t) \in Nat
    BY <1>6, <2>2, LenProperties
  <2> QED
    BY <2>3
<1>8. Range(t) = Range(s)
  BY <1>5, <1>6 DEF Range
<1>9. IsInjective(t)
  <2> SUFFICES ASSUME NEW i \in 1 .. Len(s), NEW j \in 1 .. Len(s), t[i] = t[j] PROVE i = j
    BY <1>6 DEF IsInjective
  <2>1. at[i] \in DOMAIN s /\ at[j] \in DOMAIN s /\ s[at[i]] = s[at[j]]
    BY <1>6
  <2>2. at[i] = at[j]
    BY <1>1, <2>1 DEF IsInjective
  <2> QED
    BY <1>5, <2>2
<1>10. \A i, j \in DOMAIN t : i < j => ~Before(t[j], t[i], q)
  BY <1>1, <1>3, <1>5, <1>6
<1>11. IsPage(t, S, q)
  BY <1>1, <1>7, <1>8, <1>9, <1>10 DEF IsPage, IsAnswer, NoGap, all
<1> QED
  BY <1>6, <1>7, <1>11

\* What the query of GetSwaps can answer: filters on the pool and a time bound, ordered
\* by time.
SqlAnswers(q) == DOMAIN q.where \subseteq Pushed /\ q.orderBy \in {"", "timestamp"}

\* The defaults GetSwaps fills in leave a query a query.
LEMMA NormalQuery ==
  ASSUME NEW q, IsQuery(q)
  PROVE  /\ IsQuery(Normal(q)) /\ Normal(q).where = q.where /\ Normal(q).first = q.first
         /\ Normal(q).orderBy = IF q.orderBy = "" THEN "timestamp" ELSE q.orderBy
         /\ Normal(q).dir = IF q.dir = "" THEN "desc" ELSE q.dir
<1> DEFINE o == IF q.orderBy = "" THEN "timestamp" ELSE q.orderBy
           d == IF q.dir = "" THEN "desc" ELSE q.dir
           n == [q EXCEPT !.orderBy = o, !.dir = d]
<1>1. Normal(q) = n
  BY DEF Normal
<1> HIDE DEF o, d
<1>3. n.where = q.where /\ n.first = q.first /\ n.orderBy = o /\ n.dir = d
  BY DEF IsQuery
<1>4. IsQuery(n)
  BY <1>3 DEF IsQuery
<1> QED
  BY <1>1, <1>3, <1>4 DEF o, d

\* The filters that go beside the LIMIT match what the whole `where` matches.
LEMMA PushedMatches ==
  ASSUME NEW q, DOMAIN q.where \subseteq Pushed, NEW m
  PROVE  matchesWhere(m, pushedWhere(q)) <=> matchesWhere(m, q.where)
<1>1. DOMAIN pushedWhere(q) = DOMAIN q.where /\ \A k \in DOMAIN q.where : pushedWhere(q)[k] = q.where[k]
  BY DEF pushedWhere
<1> QED
  BY <1>1 DEF matchesWhere

\* GetSwaps of SQLite: the cut in the query takes nothing the filters after it would
\* have kept, so what it answers is a page.
LEMMA SwapsArePage ==
  ASSUME IsFiniteSet(Stored), NEW q, IsQuery(q), SqlAnswers(q), NEW ans \in GetSwaps(q)
  PROVE  IsPage(ans, Stored, Normal(q)) /\ Len(ans) \in Nat /\ DOMAIN ans = 1 .. Len(ans)
<1> DEFINE n == Normal(q)
           rows == FilterResults(Stored, pushedWhere(n))
<1>1. IsQuery(n) /\ n.orderBy = "timestamp" /\ DOMAIN n.where \subseteq Pushed
  BY NormalQuery DEF SqlAnswers
<1>2. rows = FilterResults(Stored, n.where)
  BY <1>1, PushedMatches DEF FilterResults
<1>3. PICK s \in sortResults(rows, n) : ans \in FilterInOrder(Cut(s, limit(n)), n.where)
  BY <1>1 DEF GetSwaps
<1>4. Cut(s, limit(n)) \in page(Stored, n)
  BY <1>2, <1>3 DEF page
<1> HIDE DEF n
<1>5. /\ IsPage(Cut(s, limit(n)), Stored, n) /\ Len(Cut(s, limit(n))) \in Nat
      /\ DOMAIN Cut(s, limit(n)) = 1 .. Len(Cut(s, limit(n)))
  BY <1>1, <1>4, PageIsPage
<1>6. IsPage(ans, Stored, n) /\ Len(ans) \in Nat /\ DOMAIN ans = 1 .. Len(ans)
  BY <1>3, <1>5, FilteredPageIsPage
<1> QED
  BY <1>6 DEF n

\* What the LIMIT leaves of rows in any order: some of them, each once, and all of them
\* when there are no more than it asks for.
LEMMA CutOfRows ==
  ASSUME NEW S, IsFiniteSet(S), NEW s \in SetToSeqs(S), NEW n \in Nat, NEW c, c = Cut(s, n)
  PROVE  /\ Len(c) \in Nat /\ Len(c) <= n /\ Len(c) <= Len(s) /\ DOMAIN c = 1 .. Len(c)
         /\ \A i \in 1 .. Len(c) : c[i] = s[i]
         /\ \A i, j \in 1 .. Len(c) : c[i] = c[j] => i = j
         /\ Range(c) \subseteq S /\ IsFiniteSet(Range(c)) /\ Cardinality(Range(c)) = Len(c)
         /\ Cardinality(S) <= n => Range(c) = S
<1>1. /\ s \in Seq(S) /\ Len(s) = Cardinality(S) /\ Len(s) \in Nat /\ DOMAIN s = 1 .. Len(s)
      /\ Range(s) = S /\ \A i, j \in 1 .. Len(s) : s[i] = s[j] => i = j
  BY SeqsOfSet
<1>2. /\ Len(c) = Min({n, Len(s)}) /\ Len(c) \in 0 .. Len(s) /\ DOMAIN c = 1 .. Len(c)
      /\ \A i \in 1 .. Len(c) : c[i] = s[i]
  <2>1. s \in Seq(S)
    BY <1>1
  <2>2. /\ Len(Cut(s, n)) = Min({n, Len(s)}) /\ Len(Cut(s, n)) \in 0 .. Len(s)
        /\ DOMAIN Cut(s, n) = 1 .. Len(Cut(s, n))
        /\ \A i \in 1 .. Len(Cut(s, n)) : Cut(s, n)[i] = s[i]
    BY <2>1, CutKeepsFirst, Zenon
  <2> QED
    BY <2>2, Zenon
<1>3. Len(c) = IF n <= Len(s) THEN n ELSE Len(s)
  BY <1>1, <1>2, MinOfTwo
<1>4. Len(c) \in Nat /\ Len(c) <= n /\ Len(c) <= Len(s) /\ (Cardinality(S) <= n => Len(c) = Len(s))
  BY <1>1, <1>2, <1>3
<1>9. \A i \in 1 .. Len(c) : i \in 1 .. Len(s)
  BY <1>1, <1>4
<1>5. \A i, j \in 1 .. Len(c) : c[i] = c[j] => i = j
  <2> SUFFICES ASSUME NEW i \in 1 .. Len(c), NEW j \in 1 .. Len(c), c[i] = c[j] PROVE i = j
    OBVIOUS
  <2>1. s[i] = s[j] /\ i \in 1 .. Len(s) /\ j \in 1 .. Len(s)
    BY <1>2, <1>9
  <2> QED
    BY <1>1, <2>1
<1>6. Range(c) \subseteq S
  <2> SUFFICES ASSUME NEW i \in DOMAIN c PROVE c[i] \in S
    BY DEF Range
  <2>1. c[i] = s[i] /\ i \in DOMAIN s
    BY <1>1, <1>2, <1>9
  <2> QED
    BY <1>1, <2>1 DEF Range
<1>7. IsFiniteSet(Range(c)) /\ Cardinality(Range(c)) = Len(c)
  <2>1. c \in Bijection(1 .. Len(c), Range(c))
    <3>0. c = [i \in 1 .. Len(c) |-> c[i]]
      <4>1. Cut(s, n) \in Seq(S)
        BY <1>1, CutKeepsFirst, Zenon
      <4> QED
        BY <1>2, <4>1
    <3>1. c \in [1 .. Len(c) -> Range(c)]
      BY <1>2, <3>0 DEF Range
    <3> QED
      BY <1>2, <1>5, <3>1 DEF Bijection, Injection, Surjection, IsInjective, Range
  <2>2. IsFiniteSet(1 .. Len(c)) /\ Cardinality(1 .. Len(c)) = Len(c)
    <3>1. 1 \in Int /\ Len(c) \in Int
      BY <1>4
    <3>2. /\ IsFiniteSet(1 .. Len(c))
          /\ Cardinality(1 .. Len(c)) = IF 1 > Len(c) THEN 0 ELSE Len(c) - 1 + 1
      BY <3>1, FS_Interval, Zenon
    <3> QED
      BY <1>4, <3>2
  <2> QED
    BY <2>1, <2>2, FS_Bijection DEF ExistsBijection
<1>8. Cardinality(S) <= n => Range(c) = S
  <2>1. ASSUME Len(c) = Len(s) PROVE Range(c) = Range(s)
    <3>1. DOMAIN c = DOMAIN s /\ \A i \in DOMAIN s : c[i] = s[i]
      BY <1>1, <1>2, <2>1
    <3> QED
      BY <3>1, Zenon DEF Range
  <2> QED
    BY <1>1, <1>4, <2>1
<1> QED
  BY <1>2, <1>4, <1>5, <1>6, <1>7, <1>8

\* A row that matches a query matches the filters that go beside the LIMIT.
LEMMA MatchIsPushed ==
  ASSUME NEW S, NEW q
  PROVE  FilterResults(S, q.where) \subseteq FilterResults(S, pushedWhere(q))
<1>1. /\ DOMAIN pushedWhere(q) \subseteq DOMAIN q.where
      /\ \A k \in DOMAIN pushedWhere(q) : pushedWhere(q)[k] = q.where[k]
  BY DEF pushedWhere
<1> QED
  BY <1>1 DEF FilterResults, matchesWhere

\* A list of matches, each once, that holds all of them and has room for them is a page.
LEMMA AllIsPage ==
  ASSUME NEW S, IsFiniteSet(S), NEW q, IsQuery(q), NEW ans, IsAnswer(ans, S, q),
         Range(ans) = FilterResults(S, q.where),
         Len(ans) = Cardinality(FilterResults(S, q.where))
  PROVE  IsPage(ans, S, q)
<1> DEFINE all == FilterResults(S, q.where)
<1>1. IsFiniteSet(all)
  BY FS_Subset DEF FilterResults
<1>2. Cardinality(all) \in Nat /\ limit(q) \in Nat /\ Len(ans) <= limit(q)
  BY <1>1, LimitPositive, FS_CardinalityType DEF IsAnswer
<1> HIDE DEF all
<1>3. Len(ans) = Min({limit(q), Cardinality(all)})
  BY <1>2, MinOfTwo DEF all
<1> QED
  BY <1>3 DEF IsPage, NoGap, all

\* GetSwaps of SQLite, ordered by time: filtered after the LIMIT, it keeps the matches
\* of the newest (or oldest) rows, so it skips none; with room for every row it is whole.
LEMMA TimeOrdered ==
  ASSUME IsFiniteSet(Stored), NEW q, IsQuery(q), q.orderBy = "timestamp",
         NEW s \in sortResults(FilterResults(Stored, pushedWhere(q)), q),
         NEW ans \in FilterInOrder(Cut(s, limit(q)), q.where)
  PROVE  /\ IsAnswer(ans, Stored, q) /\ NoGap(ans, Stored, q)
         /\ Cardinality(FilterResults(Stored, pushedWhere(q))) <= limit(q)
              => IsPage(ans, Stored, q)
<1> DEFINE rows == FilterResults(Stored, pushedWhere(q))
           all == FilterResults(Stored, q.where)
           c == Cut(s, limit(q))
           hits == {n \in DOMAIN c : matchesWhere(c[n], q.where)}
<1>1. s \in SetToSeqs(rows) /\ \A i, j \in 1 .. Len(s) : i < j => ~Before(s[j], s[i], q)
  BY DEF sortResults
<1>2. IsFiniteSet(rows) /\ IsFiniteSet(all) /\ all \subseteq rows /\ limit(q) \in Nat
  BY FS_Subset, MatchIsPushed, LimitPositive DEF FilterResults
<1>3. all = {m \in Stored : matchesWhere(m, q.where)} /\ rows \subseteq Stored
  BY DEF FilterResults
<1>4. PICK at \in SetToSeqs(hits) : /\ ans = [n \in DOMAIN at |-> c[at[n]]]
                                    /\ \A i, j \in DOMAIN at : i < j => at[i] < at[j]
  BY DEF FilterInOrder
<1>5. hits \subseteq DOMAIN c /\ \A n \in DOMAIN c : n \in hits <=> matchesWhere(c[n], q.where)
  OBVIOUS
<1> HIDE DEF rows, all, c, hits
<1>6. /\ s \in Seq(rows) /\ Len(s) \in Nat /\ DOMAIN s = 1 .. Len(s) /\ Range(s) = rows
  BY <1>1, <1>2, SeqsOfSet
<1>7. /\ Len(c) \in Nat /\ Len(c) <= limit(q) /\ Len(c) <= Len(s) /\ DOMAIN c = 1 .. Len(c)
      /\ \A i \in 1 .. Len(c) : c[i] = s[i]
      /\ \A i, j \in 1 .. Len(c) : c[i] = c[j] => i = j
      /\ Range(c) \subseteq rows
      /\ Cardinality(rows) <= limit(q) => Range(c) = rows
  BY <1>1, <1>2, CutOfRows DEF c
<1>8. /\ IsFiniteSet(hits) /\ Cardinality(hits) \in Nat /\ Cardinality(hits) <= Len(c)
  <2>1. 1 \in Int /\ Len(c) \in Int
    BY <1>7
  <2>2. /\ IsFiniteSet(1 .. Len(c))
        /\ Cardinality(1 .. Len(c)) = IF 1 > Len(c) THEN 0 ELSE Len(c) - 1 + 1
    BY <2>1, FS_Interval, Zenon
  <2>3. Cardinality(1 .. Len(c)) = Len(c)
    BY <1>7, <2>2
  <2> QED
    BY <1>5, <1>7, <2>2, <2>3, FS_Subset, FS_CardinalityType
<1>9. /\ Len(at) = Cardinality(hits) /\ DOMAIN at = 1 .. Len(at) /\ Range(at) = hits
      /\ at \in Seq(hits) /\ \A i, j \in 1 .. Len(at) : at[i] = at[j] => i = j
  BY <1>4, <1>8, SeqsOfSet
<1>10. /\ DOMAIN ans = 1 .. Len(at)
       /\ \A n \in 1 .. Len(at) : at[n] \in hits /\ at[n] \in 1 .. Len(c) /\ ans[n] = c[at[n]]
  BY <1>4, <1>5, <1>7, <1>9 DEF Range
<1>11. Len(ans) = Cardinality(hits)
  <2>1. ans \in [1 .. Len(at) -> Range(c)]
    BY <1>4, <1>7, <1>9, <1>10 DEF Range
  <2>2. ans \in Seq(Range(c))
    BY <1>8, <1>9, <2>1, SeqDef
  <2>3. 1 .. Len(ans) = 1 .. Len(at) /\ Len(ans) \in Nat
    BY <1>10, <2>2, LenProperties
  <2> QED
    BY <1>8, <1>9, <2>3
<1>12. \A x : x \in Range(ans) <=> \E k \in hits : x = c[k]
  BY <1>9, <1>10 DEF Range
<1>13. Range(ans) \subseteq all
  <2> SUFFICES ASSUME NEW k \in hits PROVE c[k] \in all
    BY <1>12
  <2>1. c[k] \in rows /\ matchesWhere(c[k], q.where)
    BY <1>5, <1>7 DEF Range
  <2> QED
    BY <1>3, <2>1
<1>14. IsInjective(ans)
  <2> SUFFICES ASSUME NEW i \in 1 .. Len(at), NEW j \in 1 .. Len(at), ans[i] = ans[j]
               PROVE  i = j
    BY <1>10 DEF IsInjective
  <2>1. at[i] = at[j]
    BY <1>7, <1>10
  <2> QED
    BY <1>9, <2>1
<1>15. \A i, j \in DOMAIN ans : i < j => ~Before(ans[j], ans[i], q)
  <2> SUFFICES ASSUME NEW i \in 1 .. Len(at), NEW j \in 1 .. Len(at), i < j
               PROVE  ~Before(ans[j], ans[i], q)
    BY <1>10
  <2>0. \A k \in 1 .. Len(c) : k \in 1 .. Len(s)
    BY <1>6, <1>7
  <2>1. at[i] < at[j] /\ at[i] \in 1 .. Len(s) /\ at[j] \in 1 .. Len(s)
    BY <1>4, <1>9, <1>10, <2>0
  <2>2. ans[i] = s[at[i]] /\ ans[j] = s[at[j]]
    BY <1>7, <1>10
  <2> QED
    BY <1>1, <2>1, <2>2
<1>16. Len(ans) <= limit(q)
  BY <1>2, <1>7, <1>8, <1>11
<1>17. IsAnswer(ans, Stored, q)
  BY <1>13, <1>14, <1>15, <1>16 DEF IsAnswer, all
<1>18. ASSUME NEW m \in all \ Range(ans), NEW x \in Range(ans) PROVE ~Before(m, x, q)
  <2>1. PICK j \in 1 .. Len(s) : m = s[j]
    BY <1>2, <1>6 DEF Range
  <2>2. PICK k \in hits : x = c[k]
    BY <1>12
  <2>3. k \in 1 .. Len(c) /\ x = s[k]
    BY <1>5, <1>7, <2>2
  <2>4. j \notin 1 .. Len(c)
    <3>1. ASSUME j \in 1 .. Len(c) PROVE FALSE
      <4>1. c[j] = m /\ matchesWhere(m, q.where) /\ j \in DOMAIN c
        BY <1>3, <1>7, <1>18, <2>1, <3>1
      <4> QED
        BY <1>5, <1>12, <1>18, <4>1
    <3> QED
      BY <3>1
  <2>5. k < j /\ k \in 1 .. Len(s)
    BY <1>6, <1>7, <2>1, <2>3, <2>4
  <2> QED
    BY <1>1, <2>1, <2>3, <2>5
<1>19. NoGap(ans, Stored, q)
  BY <1>18 DEF NoGap, all
<1>20. ASSUME Cardinality(rows) <= limit(q) PROVE IsPage(ans, Stored, q)
  <2>1. all \subseteq Range(ans)
    <3> SUFFICES ASSUME NEW m \in all PROVE m \in Range(ans)
      OBVIOUS
    <3>1. PICK k \in DOMAIN c : m = c[k]
      BY <1>2, <1>7, <1>20 DEF Range
    <3> QED
      BY <1>3, <1>5, <1>12, <3>1
  <2>2. Range(ans) = all
    BY <1>13, <2>1
  <2>3. Len(ans) = Cardinality(all)
    <3>1. ans \in Bijection(1 .. Len(at), all)
      <4>1. ans = [n \in 1 .. Len(at) |-> ans[n]]
        BY <1>4, <1>9, <1>10
      <4>2. ans \in [1 .. Len(at) -> all]
        BY <1>10, <2>2, <4>1 DEF Range
      <4> QED
        BY <1>10, <1>14, <2>2, <4>2 DEF Bijection, Injection, Surjection, IsInjective, Range
    <3>2. Len(at) \in Nat
      BY <1>8, <1>9
    <3>3. /\ IsFiniteSet(1 .. Len(at))
          /\ Cardinality(1 .. Len(at)) = IF 1 > Len(at) THEN 0 ELSE Len(at) - 1 + 1
      <4>1. 1 \in Int /\ Len(at) \in Int
        BY <3>2
      <4> QED
        BY <4>1, FS_Interval, Zenon
    <3>4. Cardinality(1 .. Len(at)) = Len(at)
      BY <3>2, <3>3
    <3>5. Cardinality(all) = Cardinality(1 .. Len(at))
      BY <3>1, <3>3, FS_Bijection DEF ExistsBijection
    <3> QED
      BY <1>9, <1>11, <3>4, <3>5
  <2> QED
    BY <1>17, <2>2, <2>3, AllIsPage DEF all
<1> QED
  BY <1>17, <1>19, <1>20 DEF rows

\* GetSwaps of SQLite in another order: what it sorts is a cut in no order, so an answer
\* is matches in order, and whole only when the LIMIT had room for every row.
LEMMA OtherOrdered ==
  ASSUME IsFiniteSet(Stored), NEW q, IsQuery(q),
         NEW s \in SetToSeqs(FilterResults(Stored, pushedWhere(q))),
         NEW ans \in sortResults(FilterResults(Range(Cut(s, limit(q))), q.where), q)
  PROVE  /\ IsAnswer(ans, Stored, q)
         /\ Cardinality(FilterResults(Stored, pushedWhere(q))) <= limit(q)
              => IsPage(ans, Stored, q)
<1> DEFINE rows == FilterResults(Stored, pushedWhere(q))
           all == FilterResults(Stored, q.where)
           c == Cut(s, limit(q))
           left == FilterResults(Range(c), q.where)
<1>1. IsFiniteSet(rows) /\ all \subseteq rows /\ limit(q) \in Nat /\ rows \subseteq Stored
  BY FS_Subset, MatchIsPushed, LimitPositive DEF FilterResults
<1>2. /\ Len(c) \in Nat /\ Len(c) <= limit(q) /\ Range(c) \subseteq rows
      /\ IsFiniteSet(Range(c)) /\ Cardinality(Range(c)) = Len(c)
      /\ Cardinality(rows) <= limit(q) => Range(c) = rows
  <2> HIDE DEF rows
  <2> QED
    BY <1>1, CutOfRows DEF rows
<1>3. /\ left \subseteq Range(c) /\ left \subseteq all
      /\ \A m \in all : m \in Range(c) => m \in left
  BY <1>1, <1>2 DEF FilterResults
<1>4. IsFiniteSet(left) /\ Cardinality(left) \in Nat /\ Cardinality(left) <= Len(c)
  BY <1>2, <1>3, FS_Subset, FS_CardinalityType
<1>5. ans \in SetToSeqs(left) /\ \A i, j \in 1 .. Len(ans) : i < j => ~Before(ans[j], ans[i], q)
  BY DEF sortResults
<1> HIDE DEF rows, all, c, left
<1>6. /\ Len(ans) = Cardinality(left) /\ DOMAIN ans = 1 .. Len(ans) /\ Range(ans) = left
      /\ \A i, j \in 1 .. Len(ans) : ans[i] = ans[j] => i = j
  BY <1>4, <1>5, SeqsOfSet
<1>7. Len(ans) <= limit(q)
  BY <1>1, <1>2, <1>4, <1>6
<1>8. IsAnswer(ans, Stored, q)
  BY <1>3, <1>5, <1>6, <1>7 DEF IsAnswer, IsInjective, all
<1>9. ASSUME Cardinality(rows) <= limit(q) PROVE IsPage(ans, Stored, q)
  <2>1. left = all
    BY <1>1, <1>2, <1>3, <1>9
  <2> QED
    BY <1>6, <1>8, <2>1, AllIsPage DEF all
<1> QED
  BY <1>8, <1>9 DEF rows

-----------------------------------------------------------------------------
(***************************************************************************)
(* Type correctness, and what one page gives the walking client            *)
(***************************************************************************)
\* The ids of the history are 1 .. Len(Swap).
LEMMA IdsInterval == Len(Swap) \in Nat /\ Ids = 1 .. Len(Swap)
BY ReadsConstants, LenProperties DEF Ids

\* The stored swaps are finitely many.
LEMMA StoredFinite ==
  ASSUME held \in Nat
  PROVE  IsFiniteSet(Stored)
<1> DEFINE f == [i \in 1 .. held |-> swapToMap(i)]
<1>1. IsFiniteSet(1 .. held)
  BY FS_Interval
<1>2. IsFiniteSet({f[i] : i \in 1 .. held})
  BY <1>1, ImageFinite
<1>3. Stored = {f[i] : i \in 1 .. held}
  BY DEF Stored
<1> QED
  BY <1>2, <1>3

\* The client's request is one the SQL can answer in full.
LEMMA WalkQuerySql == IsQuery(walkQuery) /\ SqlAnswers(walkQuery)
<1>1. walkQuery.first = <<WalkFirst>> /\ walkQuery.orderBy = ""
      /\ DOMAIN walkQuery.where \subseteq {<<"pool", "eq">>, <<"timestamp", "lt">>}
  BY DEF walkQuery
<1>2. <<WalkFirst>> \in Seq(Int) /\ Len(<<WalkFirst>>) = 1
  BY ReadsConstants
<1>3. IsQuery(walkQuery)
  BY <1>1, <1>2 DEF IsQuery, walkQuery
<1> QED
  BY <1>1, <1>3 DEF SqlAnswers, Pushed

\* A swap the client has still to be given: one of the pool, before its bound.
Due(i) == Swap[i].pool = WalkPool /\ (bound # 0 => Swap[i].timestamp < bound)

\* And that is what its filter matches.
LEMMA WalkMatches ==
  ASSUME NEW i
  PROVE  matchesWhere(swapToMap(i), walkQuery.where) <=> Due(i)
<1> DEFINE m == swapToMap(i)
           w == walkQuery.where
           P == <<"pool", "eq">>
           T == <<"timestamp", "lt">>
<1>1. /\ DOMAIN w = {P} \cup (IF bound = 0 THEN {} ELSE {T}) /\ P # T
      /\ P[1] = "pool" /\ P[2] = "eq" /\ T[1] = "timestamp" /\ T[2] = "lt"
      /\ w[P] = WalkPool /\ (bound # 0 => w[T] = bound)
  BY DEF walkQuery
<1>2. /\ "pool" \in DOMAIN m /\ "timestamp" \in DOMAIN m
      /\ m["pool"] = Swap[i].pool /\ m["timestamp"] = Swap[i].timestamp
  BY DEF swapToMap
<1> HIDE DEF m, w, P, T
<1>3. matchesWhere(m, w) <=> Due(i)
  BY <1>1, <1>2 DEF matchesWhere, Due
<1> QED
  BY <1>3 DEF m, w

\* What a page gives the client: swaps that are due; when it is empty nothing was; and
\* otherwise the newest of those due, down to the time the next page starts from.
LEMMA WalkAnswer ==
  ASSUME held \in 0 .. Len(Swap), NEW ans \in GetSwaps(walkQuery),
         NEW given, given = {ans[n].id : n \in DOMAIN ans}
  PROVE  /\ \A i \in given : i \in 1 .. held /\ Due(i)
         /\ ans = <<>> => given = {} /\ \A i \in 1 .. held : ~Due(i)
         /\ ans # <<>> =>
              /\ \E k \in given : Last(ans).timestamp = Swap[k].timestamp
              /\ \A i \in given : Last(ans).timestamp <= Swap[i].timestamp
              /\ \A i \in (1 .. held) \ given :
                   Due(i) => Swap[i].timestamp <= Last(ans).timestamp
<1> DEFINE q == Normal(walkQuery)
           all == {m \in Stored : matchesWhere(m, q.where)}
<1>0. held \in Nat /\ \A i \in 1 .. held : Swap[i].timestamp \in Nat
  BY IdsInterval, ReadsConstants DEF Ids
<1>1. /\ IsPage(ans, Stored, q) /\ Len(ans) \in Nat /\ DOMAIN ans = 1 .. Len(ans)
  BY <1>0, StoredFinite, WalkQuerySql, SwapsArePage
<1>2. /\ q.orderBy = "timestamp" /\ q.dir = "desc" /\ q.where = walkQuery.where /\ IsQuery(q)
  <2>1. walkQuery.orderBy = "" /\ walkQuery.dir = ""
    BY DEF walkQuery
  <2> QED
    BY <2>1, WalkQuerySql, NormalQuery
<1>3. /\ Range(ans) \subseteq all /\ Len(ans) = Min({limit(q), Cardinality(all)})
      /\ \A i, j \in DOMAIN ans : i < j => ~Before(ans[j], ans[i], q)
      /\ \A m \in all \ Range(ans), x \in Range(ans) : ~Before(m, x, q)
  BY <1>1 DEF IsPage, IsAnswer, NoGap, FilterResults
<1> HIDE DEF q
<1>4. \A m \in all : \E i \in 1 .. held : m = swapToMap(i) /\ Due(i)
  BY <1>2, WalkMatches DEF Stored
<1>5. \A i \in 1 .. held : Due(i) => swapToMap(i) \in all
  BY <1>2, WalkMatches DEF Stored
<1>6. \A i : /\ swapToMap(i).id = i /\ swapToMap(i).timestamp = Swap[i].timestamp
             /\ swapToMap(i)["timestamp"] = Swap[i].timestamp /\ "timestamp" \in DOMAIN swapToMap(i)
  BY DEF swapToMap
<1>7. \A n \in 1 .. Len(ans) : ans[n].id \in 1 .. held /\ Due(ans[n].id) /\ ans[n] = swapToMap(ans[n].id)
  <2> SUFFICES ASSUME NEW n \in 1 .. Len(ans)
               PROVE  ans[n].id \in 1 .. held /\ Due(ans[n].id) /\ ans[n] = swapToMap(ans[n].id)
    OBVIOUS
  <2>1. ans[n] \in all
    BY <1>1, <1>3 DEF Range
  <2>2. PICK i \in 1 .. held : ans[n] = swapToMap(i) /\ Due(i)
    BY <1>4, <2>1
  <2>3. ans[n].id = i
    BY <1>6, <2>2
  <2> QED
    BY <2>2, <2>3
<1>8. \A i, j \in 1 .. held : ~Before(swapToMap(i), swapToMap(j), q) =>
        Swap[i].timestamp <= Swap[j].timestamp
  <2> SUFFICES ASSUME NEW i \in 1 .. held, NEW j \in 1 .. held,
                      Swap[j].timestamp < Swap[i].timestamp
               PROVE  Before(swapToMap(i), swapToMap(j), q)
    BY <1>0
  <2>1. Less(swapToMap(j), swapToMap(i), "timestamp")
    BY <1>6 DEF Less
  <2> QED
    BY <1>2, <2>1 DEF Before
<1>9. \A i \in given : i \in 1 .. held /\ Due(i)
  BY <1>1, <1>7
<1>10. ASSUME ans = <<>> PROVE given = {} /\ \A i \in 1 .. held : ~Due(i)
  <2>1. Len(ans) = 0 /\ DOMAIN ans = {}
    BY <1>1, <1>10
  <2>2. IsFiniteSet(all)
    BY <1>0, StoredFinite, FS_Subset
  <2>3. Cardinality(all) \in Nat /\ limit(q) \in Nat \ {0}
    BY <1>2, <2>2, FS_CardinalityType, LimitPositive
  <2>4. Cardinality(all) = 0
    BY <1>3, <2>1, <2>3, MinOfTwo
  <2>5. all = {}
    BY <2>2, <2>4, FS_EmptySet
  <2> QED
    BY <1>5, <2>1, <2>5
<1>11. ASSUME ans # <<>>
       PROVE  /\ \E k \in given : Last(ans).timestamp = Swap[k].timestamp
              /\ \A i \in given : Last(ans).timestamp <= Swap[i].timestamp
              /\ \A i \in (1 .. held) \ given : Due(i) => Swap[i].timestamp <= Last(ans).timestamp
  <2> DEFINE L == Len(ans)
             k == ans[L].id
  <2>1. L \in 1 .. L /\ Last(ans) = ans[L]
    <3>1. Len(ans) # 0
      BY <1>1, <1>11
    <3> QED
      BY <1>1, <3>1 DEF Last
  <2>2. k \in 1 .. held /\ ans[L] = swapToMap(k) /\ k \in given
    BY <1>1, <1>7, <2>1
  <2>3. Last(ans).timestamp = Swap[k].timestamp
    BY <1>6, <2>1, <2>2
  <2>4. ASSUME NEW i \in given PROVE Swap[k].timestamp <= Swap[i].timestamp
    <3>1. PICK n \in 1 .. L : i = ans[n].id
      BY <1>1
    <3>2. i \in 1 .. held /\ ans[n] = swapToMap(i)
      BY <1>7, <3>1
    <3>3. n = L \/ n < L
      <4>1. L \in Nat
        BY <1>1
      <4> QED
        BY <4>1
    <3>4. n < L => ~Before(ans[L], ans[n], q)
      BY <1>1, <1>3, <2>1
    <3>5. CASE n = L
      <4>1. i = k /\ Swap[i].timestamp \in Nat
        BY <1>0, <3>1, <3>2, <3>5
      <4> QED
        BY <4>1
    <3>6. CASE n < L
      <4>1. ~Before(swapToMap(k), swapToMap(i), q)
        BY <2>2, <3>2, <3>4, <3>6
      <4> QED
        BY <1>8, <2>2, <3>2, <4>1
    <3> QED
      BY <3>3, <3>5, <3>6
  <2>5. ASSUME NEW i \in (1 .. held) \ given, Due(i) PROVE Swap[i].timestamp <= Swap[k].timestamp
    <3>1. swapToMap(i) \in all
      BY <1>5, <2>5
    <3>2. swapToMap(i) \notin Range(ans)
      BY <1>1, <1>6, <2>5 DEF Range
    <3>3. ans[L] \in Range(ans)
      BY <1>1, <2>1 DEF Range
    <3>4. ~Before(swapToMap(i), swapToMap(k), q)
      BY <1>3, <2>2, <3>1, <3>2, <3>3
    <3> QED
      BY <1>8, <2>2, <3>4
  <2> QED
    BY <2>2, <2>3, <2>4, <2>5
<1> QED
  BY <1>9, <1>10, <1>11

\* TypeOK is inductive; the walk's page needs the two lemmas above.
LEMMA TypeInit == Init => TypeOK
<1> SUFFICES ASSUME Init PROVE TypeOK
  OBVIOUS
<1>1. usd \in [Ids -> 0 .. MaxUsd] /\ col \in [Ids -> 0 .. MaxUsd]
  BY ReadsConstants DEF Init
<1>2. \A i \in Ids : i > held => usd[i] = 0 /\ col[i] = 0
  BY DEF Init
<1>3. held \in 0 .. Len(Swap) /\ stops \in 0 .. MaxStops
  BY ReadsConstants DEF Init
<1> QED
  BY <1>1, <1>2, <1>3 DEF Init, TypeOK

\* Every step keeps the types.
LEMMA TypeStep == TypeOK /\ [Next]_vars => TypeOK'
<1> SUFFICES ASSUME TypeOK, [Next]_vars PROVE TypeOK'
  OBVIOUS
<1> USE IdsInterval
<1>1. CASE Open
  BY <1>1 DEF Open, TypeOK, table, client
<1>2. CASE projectAmounts
  <2>1. col' \in [Ids -> 0 .. MaxUsd] /\ \A i \in Ids : i > held => col'[i] = 0
    BY <1>2, ReadsConstants DEF projectAmounts, TypeOK
  <2> QED
    BY <1>2, <2>1 DEF projectAmounts, TypeOK, client
<1>3. CASE Stop
  BY <1>3, ReadsConstants DEF Stop, TypeOK, table, client
<1>4. CASE WalkBegin
  <2>1. wanted' \subseteq Ids
    BY <1>4 DEF WalkBegin, TypeOK
  <2> QED
    BY <1>4, <2>1 DEF WalkBegin, TypeOK, table
<1>5. CASE WalkPage
  <2>1. PICK ans \in GetSwaps(walkQuery) :
          /\ walk' \in {"on", "done"} /\ got' = got \cup {ans[n].id : n \in DOMAIN ans}
          /\ twice' \in BOOLEAN
    BY <1>5 DEF WalkPage
  <2>2. \A i \in {ans[n].id : n \in DOMAIN ans} : i \in 1 .. held
    BY WalkAnswer DEF TypeOK
  <2>3. got' \subseteq Ids
    <3>1. 1 .. held \subseteq Ids /\ got \subseteq Ids
      BY DEF TypeOK
    <3> QED
      BY <2>1, <2>2, <3>1, Zenon
  <2> QED
    BY <1>5, <2>1, <2>3 DEF WalkPage, TypeOK, table
<1>6. ASSUME NEW i \in Ids, SeedSwap(i) PROVE TypeOK'
  <2>1. held' \in 0 .. Len(Swap) /\ held' >= held /\ held' >= i
    BY <1>6, MaxOfTwo DEF SeedSwap, TypeOK
  <2>2. usd' \in [Ids -> 0 .. MaxUsd] /\ col' \in [Ids -> 0 .. MaxUsd]
    BY <1>6, ReadsConstants DEF SeedSwap, TypeOK
  <2>3. \A j \in Ids : j > held' => usd'[j] = 0 /\ col'[j] = 0
    BY <1>6, <2>1 DEF SeedSwap, TypeOK
  <2> QED
    BY <1>6, <2>1, <2>2, <2>3 DEF SeedSwap, TypeOK, client
<1>7. ASSUME NEW S \in SUBSET Ids \ {{}}, NEW v \in 1 .. MaxUsd, ValueSwaps(S, v) PROVE TypeOK'
  <2>1. usd' \in [Ids -> 0 .. MaxUsd] /\ col' \in [Ids -> 0 .. MaxUsd]
    BY <1>7, ReadsConstants DEF ValueSwaps, TypeOK
  <2>2. \A j \in Ids : j > held => usd'[j] = 0 /\ col'[j] = 0
    BY <1>7 DEF ValueSwaps, TypeOK
  <2> QED
    BY <1>7, <2>1, <2>2 DEF ValueSwaps, TypeOK, client
<1>8. ASSUME NEW p \in Pools, SeedPool(p) PROVE TypeOK'
  BY <1>8 DEF SeedPool, TypeOK, client
<1>9. ASSUME NEW t \in Tokens, SeedToken(t) PROVE TypeOK'
  BY <1>9 DEF SeedToken, TypeOK, client
<1>10. ASSUME NEW d \in Day, SetEntity(d) PROVE TypeOK'
  BY <1>10 DEF SetEntity, TypeOK, client
<1>11. CASE UNCHANGED vars
  BY <1>11 DEF vars, table, client, TypeOK
<1> QED
  BY <1>1, <1>2, <1>3, <1>4, <1>5, <1>6, <1>7, <1>8, <1>9, <1>10, <1>11 DEF Next

\* The tables keep their shape, and no write values a swap that is not stored: a late
\* ValueSwaps of a dropped id updates nothing and makes no row.
THEOREM TypeCorrect == Spec => []TypeOK
BY TypeInit, TypeStep, PTL DEF Spec

-----------------------------------------------------------------------------
(***************************************************************************)
(* Every list is the first rows of what matches                            *)
(***************************************************************************)
\* Queries as the engine hands them to the store.
QueriesFormed == \A q \in ListQueries \cup SwapQueries : IsQuery(q)

\* Entities, GetPools and GetTokens of both backends: for every query and whatever is
\* stored, the first of the rows that match, in the order asked for, and no row that
\* belongs before one of them is left out.
THEOREM ListsAreFirst == QueriesFormed => (Spec => []ListPagesRight)
<1> SUFFICES ASSUME QueriesFormed PROVE Spec => []ListPagesRight
  OBVIOUS
<1>1. TypeOK => ListPagesRight
  <2> SUFFICES ASSUME TypeOK, NEW q \in ListQueries
               PROVE  /\ \A ans \in Entities(q) \cup memEntities(q) : IsPage(ans, days, q)
                      /\ \A ans \in GetPools(q) \cup memGetPools(q) :
                           IsPage(ans, {poolToMap(p) : p \in pools}, q)
                      /\ \A ans \in GetTokens(q) \cup memGetTokens(q) :
                           IsPage(ans, {[id |-> t] : t \in tokens}, q)
    BY DEF ListPagesRight
  <2>0. IsQuery(q)
    BY DEF QueriesFormed
  <2>1. IsFiniteSet(days)
    BY ReadsConstants, FS_Subset DEF TypeOK
  <2>2. IsFiniteSet({poolToMap(p) : p \in pools})
    <3> DEFINE f == [p \in pools |-> poolToMap(p)]
    <3>1. IsFiniteSet(pools)
      BY ReadsConstants, FS_Subset DEF TypeOK, Pools
    <3>2. IsFiniteSet({f[p] : p \in pools})
      BY <3>1, ImageFinite
    <3>3. {f[p] : p \in pools} = {poolToMap(p) : p \in pools}
      OBVIOUS
    <3> QED
      BY <3>2, <3>3
  <2>3. IsFiniteSet({[id |-> t] : t \in tokens})
    <3> DEFINE f == [t \in tokens |-> [id |-> t]]
    <3>1. IsFiniteSet(Tokens)
      BY ReadsConstants, ImageFinite DEF Tokens, Pools
    <3>2. IsFiniteSet(tokens)
      BY <3>1, FS_Subset DEF TypeOK
    <3>3. IsFiniteSet({f[t] : t \in tokens})
      BY <3>2, ImageFinite
    <3>4. {f[t] : t \in tokens} = {[id |-> t] : t \in tokens}
      OBVIOUS
    <3> QED
      BY <3>3, <3>4
  <2>4. \A ans \in Entities(q) \cup memEntities(q) : IsPage(ans, days, q)
    BY <2>0, <2>1, PageIsPage DEF Entities, memEntities
  <2>5. \A ans \in GetPools(q) \cup memGetPools(q) : IsPage(ans, {poolToMap(p) : p \in pools}, q)
    BY <2>0, <2>2, PageIsPage DEF GetPools, memGetPools
  <2>6. \A ans \in GetTokens(q) \cup memGetTokens(q) : IsPage(ans, {[id |-> t] : t \in tokens}, q)
    BY <2>0, <2>3, PageIsPage DEF GetTokens, memGetTokens
  <2> QED
    BY <2>4, <2>5, <2>6
<1> QED
  BY <1>1, TypeCorrect, PTL

\* GetSwaps of the memory backend gives the first of the swaps that match, for every
\* query.  That of SQLite gives, for every query, matches in order, none skipped when
\* ordered by time; and the page itself when the filters are the two that stand beside
\* the LIMIT and the order is by time, or when the LIMIT has room for all they let by.
THEOREM SwapsAreFirst == QueriesFormed => (Spec => []SwapPagesRight)
<1> SUFFICES ASSUME QueriesFormed PROVE Spec => []SwapPagesRight
  OBVIOUS
<1>1. TypeOK => SwapPagesRight
  <2> SUFFICES ASSUME TypeOK, NEW query \in SwapQueries
               PROVE  /\ \A ans \in memGetSwaps(query) : IsPage(ans, Stored, Normal(query))
                      /\ \A ans \in GetSwaps(query) :
                           /\ IsAnswer(ans, Stored, Normal(query))
                           /\ Normal(query).orderBy = "timestamp" => NoGap(ans, Stored, Normal(query))
                           /\ Unhurt(Normal(query)) => IsPage(ans, Stored, Normal(query))
    BY Zenon DEF SwapPagesRight
  <2>1. IsQuery(query) /\ IsFiniteSet(Stored)
    BY IdsInterval, StoredFinite DEF QueriesFormed, TypeOK
  <2> DEFINE q == Normal(query)
             rows == FilterResults(Stored, pushedWhere(q))
  <2>2. IsQuery(q) /\ (q.orderBy = "timestamp" => query.orderBy \in {"", "timestamp"})
        /\ q.where = query.where
    BY <2>1, NormalQuery
  <2>3. \A ans \in memGetSwaps(query) : IsPage(ans, Stored, q)
    BY <2>1, <2>2, PageIsPage DEF memGetSwaps
  <2>4. Unhurt(q) => \/ q.orderBy = "timestamp" /\ SqlAnswers(query)
                     \/ limit(q) >= Cardinality(rows)
    BY <2>2 DEF Unhurt, SqlAnswers, Paging, Pushed, pushedWhere
  <2>5. limit(q) \in Nat /\ Cardinality(rows) \in Nat
    BY <2>1, <2>2, LimitPositive, FS_Subset, FS_CardinalityType DEF FilterResults
  <2>6. ASSUME NEW ans \in GetSwaps(query)
        PROVE  /\ IsAnswer(ans, Stored, q)
               /\ q.orderBy = "timestamp" => NoGap(ans, Stored, q)
               /\ Unhurt(q) => IsPage(ans, Stored, q)
    <3>1. SqlAnswers(query) => IsPage(ans, Stored, q)
      BY <2>1, SwapsArePage
    <3>2. CASE q.orderBy = "timestamp"
      <4>1. PICK s \in sortResults(rows, q) : ans \in FilterInOrder(Cut(s, limit(q)), q.where)
        BY <3>2 DEF GetSwaps
      <4> HIDE DEF q
      <4>2. /\ IsAnswer(ans, Stored, q) /\ NoGap(ans, Stored, q)
            /\ Cardinality(rows) <= limit(q) => IsPage(ans, Stored, q)
        BY <2>1, <2>2, <3>2, <4>1, TimeOrdered
      <4> HIDE DEF rows
      <4> QED
        BY <2>4, <2>5, <3>1, <4>2
    <3>3. CASE q.orderBy # "timestamp"
      <4>1. PICK s \in SetToSeqs(rows) :
              ans \in sortResults(FilterResults(Range(Cut(s, limit(q))), q.where), q)
        BY <3>3 DEF GetSwaps
      <4> HIDE DEF q
      <4>2. /\ IsAnswer(ans, Stored, q)
            /\ Cardinality(rows) <= limit(q) => IsPage(ans, Stored, q)
        BY <2>1, <2>2, <4>1, OtherOrdered
      <4> HIDE DEF rows
      <4> QED
        BY <2>4, <2>5, <3>3, <4>2
    <3> QED
      BY <3>2, <3>3
  <2> QED
    BY <2>3, <2>6
<1> QED
  BY <1>1, TypeCorrect, PTL

-----------------------------------------------------------------------------
(***************************************************************************)
(* The column and the documents in step                                    *)
(***************************************************************************)
\* An open table has the column filled, and so has a closed one that has the column:
\* the upgrade is not cut between the ALTER and projectAmounts.
InStep ==
  /\ stage = "altered" => column
  /\ stage = "open" => column /\ col = usd
  /\ stage = "closed" /\ column => col = usd

\* Every step keeps the value column and the stored map in step.
LEMMA InStepStep ==
  ASSUME ~StopInUpgrade, TypeOK, InStep, [Next]_vars
  PROVE  InStep'
<1>1. CASE Open
  BY <1>1 DEF Open, InStep, table
<1>2. CASE projectAmounts
  <2>1. col' = usd
    <3>1. usd = [i \in Ids |-> usd[i]] /\ \A i \in Ids : i \in Int
      BY IdsInterval DEF TypeOK
    <3>2. \A i \in Ids : (IF i <= held THEN usd[i] ELSE 0) = usd[i]
      BY <3>1, IdsInterval DEF TypeOK
    <3> QED
      BY <1>2, <3>1, <3>2 DEF projectAmounts
  <2> QED
    BY <1>2, <2>1 DEF projectAmounts, InStep
<1>3. CASE Stop
  BY <1>3 DEF Stop, InStep, table, TypeOK
<1>4. CASE WalkBegin \/ WalkPage
  BY <1>4 DEF WalkBegin, WalkPage, InStep, table
<1>5. ASSUME NEW i \in Ids, SeedSwap(i) PROVE InStep'
  BY <1>5 DEF SeedSwap, InStep
<1>6. ASSUME NEW S, NEW v, ValueSwaps(S, v) PROVE InStep'
  BY <1>6 DEF ValueSwaps, InStep
<1>7. ASSUME NEW p, SeedPool(p) \/ SeedToken(p) \/ SetEntity(p) PROVE InStep'
  BY <1>7 DEF SeedPool, SeedToken, SetEntity, InStep
<1>8. CASE UNCHANGED vars
  BY <1>8 DEF vars, table, InStep
<1> QED
  BY <1>1, <1>2, <1>3, <1>4, <1>5, <1>6, <1>7, <1>8 DEF Next

\* TradedByPool: unless a stop cuts the upgrade in two, what a pool is said to have
\* traded is the sum of the trades listed under it, in both backends, whatever is
\* seeded again and valued in whatever order.
THEOREM VolumeInStep == ~StopInUpgrade => (Spec => []VolumeIsTrades)
<1> SUFFICES ASSUME ~StopInUpgrade PROVE Spec => []VolumeIsTrades
  OBVIOUS
<1>1. Init => InStep
  BY DEF Init, InStep
<1>2. TypeOK /\ InStep /\ [Next]_vars => InStep'
  BY InStepStep
<1>3. InStep => VolumeIsTrades
  BY DEF InStep, VolumeIsTrades, TradedByPool, memTradedByPool
<1> QED
  BY <1>1, <1>2, <1>3, TypeCorrect, PTL DEF Spec

-----------------------------------------------------------------------------
(***************************************************************************)
(* A walk back through a pool                                              *)
(***************************************************************************)
\* No two swaps of the walked pool have one time, so a time bound parts them.
TimesPart ==
  \A i, j \in {k \in Ids : Swap[k].pool = WalkPool} :
    Swap[i].timestamp = Swap[j].timestamp => i = j

\* What the client has lies at or after its bound, and what it wants and has not been
\* given lies before it, so it is still due.
WalkInv ==
  /\ bound \in Nat
  /\ walk = "idle" => bound = 0
  /\ bound = 0 => got = {}
  /\ wanted \subseteq {i \in 1 .. held : Swap[i].pool = WalkPool}
  /\ \A i \in got : Swap[i].timestamp >= bound
  /\ \A i \in wanted \ got : Due(i)
  /\ walk = "done" => wanted \subseteq got
  /\ ~twice

\* No walk has begun at the start.
LEMMA WalkInit == Init => WalkInv
BY DEF Init, WalkInv

\* Every page the client takes, and every insert beside it, keeps the walk whole.
LEMMA WalkStep ==
  ASSUME TimesPart, TypeOK, WalkInv, [Next]_vars
  PROVE  WalkInv'
<1>0. \A i \in Ids : Swap[i].timestamp \in Nat \ {0}
  BY ReadsConstants DEF Ids
<1>1. ASSUME UNCHANGED client, held' \in Nat, held' >= held PROVE WalkInv'
  BY <1>1, IdsInterval DEF client, WalkInv, Due, TypeOK
<1>2. CASE Open \/ projectAmounts \/ Stop \/ UNCHANGED vars
  <2>1. UNCHANGED <<client, held>>
    BY <1>2 DEF Open, projectAmounts, Stop, vars, table
  <2> QED
    BY <1>1, <2>1, IdsInterval DEF TypeOK
<1>3. ASSUME NEW i \in Ids, SeedSwap(i) PROVE WalkInv'
  BY <1>1, <1>3, IdsInterval, MaxOfTwo DEF SeedSwap, TypeOK
<1>4. ASSUME NEW S, NEW v, ValueSwaps(S, v) PROVE WalkInv'
  BY <1>1, <1>4, IdsInterval DEF ValueSwaps, TypeOK
<1>5. ASSUME NEW p, SeedPool(p) \/ SeedToken(p) \/ SetEntity(p) PROVE WalkInv'
  BY <1>1, <1>5, IdsInterval DEF SeedPool, SeedToken, SetEntity, TypeOK
<1>6. CASE WalkBegin
  BY <1>6 DEF WalkBegin, table, WalkInv, Due
<1>7. CASE WalkPage
  <2>1. PICK ans \in GetSwaps(walkQuery) :
          /\ walk' = IF ans = <<>> THEN "done" ELSE "on"
          /\ bound' = IF ans = <<>> THEN bound ELSE Last(ans).timestamp
          /\ got' = got \cup {ans[n].id : n \in DOMAIN ans}
          /\ twice' = (twice \/ {ans[n].id : n \in DOMAIN ans} \cap got # {})
    BY <1>7 DEF WalkPage
  <2> DEFINE given == {ans[n].id : n \in DOMAIN ans}
  <2>2. /\ \A i \in given : i \in 1 .. held /\ Due(i)
        /\ ans = <<>> => given = {} /\ \A i \in 1 .. held : ~Due(i)
        /\ ans # <<>> =>
             /\ \E k \in given : Last(ans).timestamp = Swap[k].timestamp
             /\ \A i \in given : Last(ans).timestamp <= Swap[i].timestamp
             /\ \A i \in (1 .. held) \ given :
                  Due(i) => Swap[i].timestamp <= Last(ans).timestamp
    BY WalkAnswer DEF TypeOK
  <2>3. /\ got' = got \cup given /\ twice' = (twice \/ given \cap got # {})
        /\ UNCHANGED <<held, wanted>> /\ walk # "idle"
    BY <1>7, <2>1 DEF WalkPage, table
  <2> HIDE DEF given
  <2>4. 1 .. held \subseteq Ids /\ got \subseteq Ids /\ given \subseteq Ids /\ wanted \subseteq 1 .. held
    BY <2>2, IdsInterval DEF TypeOK, WalkInv
  <2>5. given \cap got = {}
    BY <1>0, <2>2, <2>4 DEF WalkInv, Due
  <2>6. CASE ans = <<>>
    BY <2>1, <2>2, <2>3, <2>4, <2>5, <2>6 DEF WalkInv, Due
  <2>7. CASE ans # <<>>
    <3> DEFINE b == Last(ans).timestamp
    <3>1. PICK k \in given : b = Swap[k].timestamp
      BY <2>2, <2>7
    <3>2. b \in Nat \ {0} /\ bound' = b /\ walk' = "on" /\ Due(k)
      BY <1>0, <2>1, <2>2, <2>4, <2>7, <3>1
    <3>3. bound # 0 => b < bound
      BY <3>1, <3>2 DEF Due
    <3>4. \A i \in got' : Swap[i].timestamp >= b
      <4>1. \A i \in given : Swap[i].timestamp >= b
        BY <1>0, <2>2, <2>4, <2>7, <3>2
      <4>2. \A i \in got : Swap[i].timestamp >= b
        BY <1>0, <2>4, <3>2, <3>3 DEF WalkInv
      <4> QED
        BY <2>3, <4>1, <4>2
    <3>5. \A i \in wanted \ got' : Swap[i].pool = WalkPool /\ Swap[i].timestamp < b
      <4> SUFFICES ASSUME NEW i \in wanted, i \notin got, i \notin given
                   PROVE  Swap[i].pool = WalkPool /\ Swap[i].timestamp < b
        BY <2>3
      <4>1. i \in Ids /\ i \in 1 .. held /\ Due(i)
        BY <2>4 DEF WalkInv
      <4>2. Swap[i].timestamp <= b /\ i # k
        BY <2>2, <2>7, <4>1
      <4>3. Swap[i].timestamp # b
        BY <2>2, <2>4, <3>1, <4>1, <4>2 DEF TimesPart, Due
      <4> QED
        BY <1>0, <3>2, <4>1, <4>2, <4>3 DEF Due
    <3> HIDE DEF b
    <3> QED
      BY <2>3, <2>5, <3>2, <3>4, <3>5 DEF WalkInv, Due
  <2> QED
    BY <2>6, <2>7
<1> QED
  BY <1>2, <1>3, <1>4, <1>5, <1>6, <1>7 DEF Next

\* GetSwaps: for every history in which a pool's trades have times of their own, every
\* page size and every interleaving with seeds, revaluations and restarts, a client that
\* pages back until a page is empty has been given each trade there was, once.
THEOREM WalkIsWhole == TimesPart => (Spec => []WalkWhole)
<1> SUFFICES ASSUME TimesPart PROVE Spec => []WalkWhole
  OBVIOUS
<1>1. TypeOK /\ WalkInv /\ [Next]_vars => WalkInv'
  BY WalkStep
<1>2. WalkInv => WalkWhole
  BY DEF WalkInv, WalkWhole
<1> QED
  BY <1>1, <1>2, WalkInit, TypeCorrect, PTL DEF Spec

=============================================================================
