------------------------------- MODULE Reads -------------------------------
(***************************************************************************)
(* The store's list reads, over both backends (storage/store.go,           *)
(* store_sqlite.go, store_memory.go), the column amountUSD that projects a *)
(* document, and a client that walks a pool's history page by page while   *)
(* the indexer writes.                                                     *)
(*                                                                         *)
(* A row is what a resolver hands out: a function from field names to      *)
(* values.  A reference is the id it points at, which is what a filter on  *)
(* it compares, and "nil" when its row is missing.  SQLite and a Go map    *)
(* promise no order among equals, so a read is the SET of its answers.     *)
(***************************************************************************)
EXTENDS Integers, Sequences, FiniteSets, SequencesExt, FiniteSetsExt

CONSTANTS
  Swap,          \* the history: Swap[i] = [timestamp, pool, sender], oldest first
  Old,           \* how many of them an older build wrote, without the column
  TokenOf,       \* TokenOf[p]: the token0 of pool p
  Day,           \* day rows the pass may write: a set of rows
  SwapQueries,   \* queries for swaps: [first, orderBy, dir, where], `first` <<>> for none
  ListQueries,   \* and for the other collections
  WalkPool,      \* the pool the client walks, and its page size
  WalkFirst,
  DefaultFirst, MaxFirst,   \* parseListArgs: 100 and 1000
  MaxUsd,        \* bound on what a swap is worth
  StopInUpgrade, \* may the process stop between ALTER TABLE and projectAmounts
  MaxStops       \* bound on stops

ASSUME ReadsConstants ==
  /\ Swap \in Seq(Range(Swap)) /\ \A i \in DOMAIN Swap : Swap[i].timestamp \in Nat \ {0}
  /\ IsFiniteSet(DOMAIN TokenOf) /\ IsFiniteSet(Day)
  /\ Old \in 0 .. Len(Swap) /\ StopInUpgrade \in BOOLEAN
  /\ {MaxUsd, MaxStops} \subseteq Nat /\ {DefaultFirst, MaxFirst, WalkFirst} \subseteq Nat \ {0}

Ids == DOMAIN Swap
Pools == DOMAIN TokenOf
Tokens == {TokenOf[p] : p \in Pools}

VARIABLES
  stage,     \* the database: "closed", "altered" (column there, not filled), "open"
  column,    \* does the table have amountUSD
  held,      \* swaps 1 .. held are stored
  usd,       \* usd[i]: AmountUSD in the document of swap i, 0 for unpriced
  col,       \* col[i]: the column
  pools, tokens, days,   \* the other tables
  walk,      \* the client: "idle", "on", "done"
  bound,     \* its timestamp_lt, 0 for none yet
  wanted,    \* history: swaps of the pool when it began
  got,       \* what it has been given
  twice,     \* history: was it given one twice
  stops

table == <<held, usd, col, pools, tokens, days>>
client == <<walk, bound, wanted, got, twice>>
vars == <<stage, column, table, client, stops>>

(***************************************************************************)
(* Lists: match, sort the matches, cut                                     *)
(***************************************************************************)
\* compareValues on the values of one field; nothing sorts before a missing one.
Less(a, b, f) == f \in DOMAIN a /\ f \in DOMAIN b /\ a[f] < b[f]

\* sortResults' order; no orderBy leaves the rows as they come.
Before(a, b, q) ==
  q.orderBy # "" /\ IF q.dir = "desc" THEN Less(b, a, q.orderBy) ELSE Less(a, b, q.orderBy)

\* matchesWhere: a filter is keyed by field and comparison; a row without the field fails.
matchesWhere(m, where) ==
  \A k \in DOMAIN where :
    /\ k[1] \in DOMAIN m
    /\ CASE k[2] = "eq"  -> m[k[1]] = where[k]
         [] k[2] = "lt"  -> m[k[1]] < where[k]
         [] k[2] = "gt"  -> m[k[1]] > where[k]
         [] k[2] = "lte" -> m[k[1]] <= where[k]
         [] k[2] = "gte" -> m[k[1]] >= where[k]

FilterResults(S, where) == {m \in S : matchesWhere(m, where)}

\* The same of a list that is in order already: the matches, as they came.  There is one.
FilterInOrder(s, where) ==
  LET hits == {n \in DOMAIN s : matchesWhere(s[n], where)} IN
    {[n \in DOMAIN at |-> s[at[n]]] :
       at \in {f \in SetToSeqs(hits) : \A i, j \in DOMAIN f : i < j => f[i] < f[j]}}

\* The orders a stable sort may leave rows in that came in any order.
sortResults(S, q) ==
  {s \in SetToSeqs(S) : \A i, j \in 1 .. Len(s) : i < j => ~Before(s[j], s[i], q)}

Cut(s, n) == SubSeq(s, 1, Min({n, Len(s)}))

\* parseListArgs: `first`, or the default when there is none, between 1 and 1000.
limit(q) ==
  LET n == IF q.first = <<>> THEN DefaultFirst ELSE q.first[1]
  IN  IF n < 1 THEN 1 ELSE IF n > MaxFirst THEN MaxFirst ELSE n

\* Mutant: the rows are cut before they are sorted.
pageCutFirst(S, q) ==
  UNION {sortResults(Range(Cut(s, limit(q))), q) : s \in SetToSeqs(FilterResults(S, q.where))}

\* page, the same for both backends.
page(S, q) == {Cut(s, limit(q)) : s \in sortResults(FilterResults(S, q.where), q)}

\* poolToMap: a token whose row is missing is dropped from the pool.
poolToMap(p) ==
  [id |-> p, token0 |-> IF TokenOf[p] \in tokens THEN TokenOf[p] ELSE "nil"]

\* GetTokens, GetPools (and GetPairs), Entities: every row is read, then paged.
GetTokens(q) == page({[id |-> t] : t \in tokens}, q)
GetPools(q)  == page({poolToMap(p) : p \in pools}, q)
Entities(q)  == page(days, q)

\* The same three of the memory backend.
memGetTokens(q) == page({[id |-> t] : t \in tokens}, q)
memGetPools(q)  == page({poolToMap(p) : p \in pools}, q)
memEntities(q)  == page(days, q)

(***************************************************************************)
(* Swaps                                                                   *)
(***************************************************************************)
\* swapToMap
swapToMap(i) ==
  [id |-> i, timestamp |-> Swap[i].timestamp, pool |-> Swap[i].pool,
       sender |-> Swap[i].sender, amountUSD |-> usd[i]]

Stored == {swapToMap(i) : i \in 1 .. held}

\* GetSwaps answers newest first unless told otherwise.
Normal(q) == [q EXCEPT !.orderBy = IF @ = "" THEN "timestamp" ELSE @,
                       !.dir = IF @ = "" THEN "desc" ELSE @]

\* Mutant: the time bound is left to FilterResults, after the LIMIT.
PushedPoolOnly == {<<"pool", "eq">>}

\* Mutant: and so is the pool.
PushedTimeOnly == {<<"timestamp", "lt">>}

\* whereString, whereNumber: the two filters that can go beside the LIMIT.
Pushed == {<<"pool", "eq">>, <<"timestamp", "lt">>}

pushedWhere(q) == [k \in DOMAIN q.where \cap Pushed |-> q.where[k]]

\* GetSwaps of SQLite: the query filters, orders by time alone and cuts; the other
\* filters, and any other order, see only what it returned.
GetSwaps(query) ==
  LET q     == Normal(query)
      rows  == FilterResults(Stored, pushedWhere(q))
      first == {Cut(s, limit(q)) :
                  s \in IF q.orderBy = "timestamp" THEN sortResults(rows, q) ELSE SetToSeqs(rows)}
  IN  UNION {IF q.orderBy = "timestamp" THEN FilterInOrder(s, q.where)
             ELSE sortResults(FilterResults(Range(s), q.where), q) : s \in first}

\* GetSwaps of the memory backend: everything, then matched, sorted and cut.
memGetSwaps(query) == page(Stored, Normal(query))

\* TradedByPool: SQLite sums the column, the memory backend the documents.
SumOver(amount, p) == MapThenSumSet(LAMBDA i : amount[i], {i \in 1 .. held : Swap[i].pool = p})
TradedByPool(p) == SumOver(col, p)
memTradedByPool(p) == SumOver(usd, p)

(***************************************************************************)
(* Writes                                                                  *)
(***************************************************************************)
Init ==
  /\ stage = "closed" /\ column = FALSE /\ stops = 0
  /\ held = Old
  /\ usd \in {u \in [Ids -> 0 .. MaxUsd] : \A i \in Ids : i > Old => u[i] = 0}
  /\ col = [i \in Ids |-> 0]
  /\ pools = {} /\ tokens = {} /\ days = {}
  /\ walk = "idle" /\ bound = 0 /\ wanted = {} /\ got = {} /\ twice = FALSE

\* Store.Init: the ALTER succeeds once; where it fails the column is taken as filled.
Open ==
  /\ stage = "closed"
  /\ stage' = IF column THEN "open" ELSE "altered"
  /\ column' = TRUE
  /\ UNCHANGED <<table, client, stops>>

\* projectAmounts, in one transaction.
projectAmounts ==
  /\ stage = "altered"
  /\ stage' = "open"
  /\ col' = [i \in Ids |-> IF i <= held THEN usd[i] ELSE 0]
  /\ UNCHANGED <<column, held, usd, pools, tokens, days, client, stops>>

Stop ==
  /\ stage # "closed" /\ stops < MaxStops
  /\ stage = "altered" => StopInUpgrade
  /\ stage' = "closed" /\ stops' = stops + 1
  /\ UNCHANGED <<column, table, client>>

\* Mutant: a replaced row keeps the value it had in the column.
SeedKeepingColumn(i) ==
  /\ stage = "open" /\ i \in 1 .. held + 1 /\ i \in Ids
  /\ held' = Max({held, i})
  /\ usd' = [usd EXCEPT ![i] = 0]
  /\ UNCHANGED <<stage, column, col, pools, tokens, days, client, stops>>

\* SeedSwap: the next swap, or one of a batch read again, unpriced either way.
SeedSwap(i) ==
  /\ stage = "open" /\ i \in 1 .. held + 1 /\ i \in Ids
  /\ held' = Max({held, i})
  /\ usd' = [usd EXCEPT ![i] = 0]
  /\ col' = [col EXCEPT ![i] = 0]
  /\ UNCHANGED <<stage, column, pools, tokens, days, client, stops>>

\* Mutant: a swap that is not stored is written all the same.
ValueUpsert(S, v) ==
  /\ stage = "open"
  /\ usd' = [i \in Ids |-> IF i \in S THEN v ELSE usd[i]]
  /\ col' = [i \in Ids |-> IF i \in S THEN v ELSE col[i]]
  /\ UNCHANGED <<stage, column, held, pools, tokens, days, client, stops>>

\* ValueSwaps: documents and column of a batch in one transaction; what is not stored
\* (any more) is passed over.
ValueSwaps(S, v) ==
  /\ stage = "open"
  /\ usd' = [i \in Ids |-> IF i \in S /\ i <= held THEN v ELSE usd[i]]
  /\ col' = [i \in Ids |-> IF i \in S /\ i <= held THEN v ELSE col[i]]
  /\ UNCHANGED <<stage, column, held, pools, tokens, days, client, stops>>

\* SeedPool, SeedToken, SetEntity.
SeedPool(p) ==
  /\ stage = "open" /\ p \notin pools
  /\ pools' = pools \cup {p}
  /\ UNCHANGED <<stage, column, held, usd, col, tokens, days, client, stops>>

SeedToken(t) ==
  /\ stage = "open" /\ t \notin tokens
  /\ tokens' = tokens \cup {t}
  /\ UNCHANGED <<stage, column, held, usd, col, pools, days, client, stops>>

SetEntity(d) ==
  /\ stage = "open" /\ d \notin days
  /\ days' = days \cup {d}
  /\ UNCHANGED <<stage, column, held, usd, col, pools, tokens, client, stops>>

(***************************************************************************)
(* A client that asks for "the N before this time" until there are none    *)
(***************************************************************************)
WalkBegin ==
  /\ stage = "open" /\ walk = "idle"
  /\ walk' = "on"
  /\ wanted' = {i \in 1 .. held : Swap[i].pool = WalkPool}
  /\ UNCHANGED <<stage, column, table, bound, got, twice, stops>>

\* Its request: the pool's swaps, and from the second page on those before the last one.
walkQuery ==
  [first |-> <<WalkFirst>>, orderBy |-> "", dir |-> "",
   where |-> [k \in {<<"pool", "eq">>} \cup IF bound = 0 THEN {} ELSE {<<"timestamp", "lt">>} |->
                IF k[1] = "pool" THEN WalkPool ELSE bound]]

WalkPage ==
  /\ stage = "open" /\ walk = "on"
  /\ \E ans \in GetSwaps(walkQuery) :
       LET given == {ans[n].id : n \in DOMAIN ans} IN
         /\ walk' = IF ans = <<>> THEN "done" ELSE "on"
         /\ bound' = IF ans = <<>> THEN bound ELSE Last(ans).timestamp
         /\ got' = got \cup given
         /\ twice' = (twice \/ given \cap got # {})
  /\ UNCHANGED <<stage, column, table, wanted, stops>>

Next ==
  \/ Open \/ projectAmounts \/ Stop \/ WalkBegin \/ WalkPage
  \/ \E i \in Ids : SeedSwap(i)
  \/ \E S \in SUBSET Ids \ {{}}, v \in 1 .. MaxUsd : ValueSwaps(S, v)
  \/ \E p \in Pools : SeedPool(p)
  \/ \E t \in Tokens : SeedToken(t)
  \/ \E d \in Day : SetEntity(d)

Spec == Init /\ [][Next]_vars

(***************************************************************************)
(* Properties                                                              *)
(***************************************************************************)
\* Type correctness, and no row or column value of a swap the store does not hold:
\* ValueSwaps is an UPDATE and makes none.
TypeOK ==
  /\ stage \in {"closed", "altered", "open"} /\ column \in BOOLEAN
  /\ held \in 0 .. Len(Swap)
  /\ {usd, col} \subseteq [Ids -> 0 .. MaxUsd]
  /\ \A i \in Ids : i > held => usd[i] = 0 /\ col[i] = 0
  /\ pools \subseteq Pools /\ tokens \subseteq Tokens /\ days \subseteq Day
  /\ walk \in {"idle", "on", "done"} /\ twice \in BOOLEAN
  /\ wanted \subseteq Ids /\ got \subseteq Ids /\ stops \in 0 .. MaxStops

\* Rows of a collection that match a query, each once, in its order, `first` at most.
IsAnswer(ans, S, q) ==
  /\ Range(ans) \subseteq FilterResults(S, q.where) /\ IsInjective(ans)
  /\ Len(ans) <= limit(q)
  /\ \A i, j \in DOMAIN ans : i < j => ~Before(ans[j], ans[i], q)

\* None is left out that belongs before one that is in.
NoGap(ans, S, q) ==
  \A m \in FilterResults(S, q.where) \ Range(ans), x \in Range(ans) : ~Before(m, x, q)

\* What `first` rows in an order are: those, as many as match or as were asked for.
IsPage(ans, S, q) ==
  /\ IsAnswer(ans, S, q) /\ NoGap(ans, S, q)
  /\ Len(ans) = Min({limit(q), Cardinality(FilterResults(S, q.where))})

\* The filters a client pages through a history with.
Paging == {<<"pool", "eq">>, <<"timestamp", "lt">>}

\* A query whose filters are those, ordered by time, or one that asks for as many rows as
\* pass them.
Unhurt(q) ==
  \/ q.orderBy = "timestamp" /\ DOMAIN q.where \subseteq Paging
  \/ limit(q) >= Cardinality(FilterResults(Stored, [k \in DOMAIN q.where \cap Paging |-> q.where[k]]))

\* page: "match, then sort the matches, then cut", of whatever a map hands over: from the
\* memory backend a client gets the first of all swaps that match, by any filter and
\* order.  SQLite cuts before it applies the other filters and orders: of such a query
\* its answer may be short, but what it gives matches and is in order, ordered by time it
\* skips no match, and it is the page whenever the LIMIT had nothing else to cut.
SwapPagesRight ==
  stage = "open" => \A query \in SwapQueries : LET q == Normal(query) IN
    /\ \A ans \in memGetSwaps(query) : IsPage(ans, Stored, q)
    /\ \A ans \in GetSwaps(query) :
         /\ IsAnswer(ans, Stored, q)
         /\ q.orderBy = "timestamp" => NoGap(ans, Stored, q)
         /\ Unhurt(q) => IsPage(ans, Stored, q)

\* GetSwaps: "a limit that runs before the filter answers with the first N rows rather
\* than the first N matches".  False of SQLite for a filter that is not in Paging, and
\* for an order that is not by time.
FirstMatches ==
  stage = "open" => \A query \in SwapQueries :
    \A ans \in GetSwaps(query) : IsPage(ans, Stored, Normal(query))

\* Entities: "a chart asking for the newest 90 days" gets those, and pools and tokens
\* likewise, from either backend.
ListPagesRight ==
  \A q \in ListQueries :
    /\ \A ans \in Entities(q) \cup memEntities(q) : IsPage(ans, days, q)
    /\ \A ans \in GetPools(q) \cup memGetPools(q) : IsPage(ans, {poolToMap(p) : p \in pools}, q)
    /\ \A ans \in GetTokens(q) \cup memGetTokens(q) : IsPage(ans, {[id |-> t] : t \in tokens}, q)

\* projectAmounts, SeedSwap and ValueSwaps keep "the two in step": what a pool is said
\* to have traded is the sum of the trades listed under it.
VolumeIsTrades ==
  stage = "open" => \A p \in Pools : TradedByPool(p) = memTradedByPool(p)

\* GetSwaps: a client that pages back through a pool's history with timestamp_lt until
\* a page is empty has seen every trade there was, once, whatever was written meanwhile.
WalkWhole == walk = "done" => wanted \subseteq got /\ ~twice

=============================================================================
