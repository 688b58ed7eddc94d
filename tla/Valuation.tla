----------------------------- MODULE Valuation -----------------------------
(***************************************************************************)
(* The valuation pass of indexer/valuation.go and indexer/series.go: which *)
(* stored swaps a pass prices, how far its mark through history moves and  *)
(* which day rows it replaces, beside the poller that inserts swaps and    *)
(* the heal of indexer/blocks.go that dates the rows of an older build.    *)
(* The three goroutines share the swaps table and nothing else.            *)
(*                                                                         *)
(* A swap is its position in chain order.  A price is abstracted to        *)
(* whether a pass can price the swap's pool, a day row to the set of swaps *)
(* folded into it.  The poller is an abstraction of module Poller: it      *)
(* inserts swaps in order and re-inserts those above its stored cursor     *)
(* after an abandoned batch.                                               *)
(***************************************************************************)
EXTENDS Integers, FiniteSets, Sequences

CONSTANTS
  Time,        \* Time[i]: when the block of swap i was mined
  PoolOf,      \* PoolOf[i]: the pool of swap i
  Valued,      \* pools readBalances asks about: those whose id is an address
  Priceable,   \* those of them that pools connect to a stablecoin
  Legacy,      \* how many swaps an older build stored, undated
  DayLength,   \* dayLength
  Window,      \* maxValuedSwaps, the limit of every batch read
  MaxLag,      \* bound on swaps inserted between two tail reads
  Faults,      \* the faults that may happen, of FaultKinds
  MaxFaults    \* bound on how many happen

\* "write": ValueSwaps' transaction fails; "read": a query fails, which every raw
\* accessor answers with no rows; "quote": a balance does not come back; "abort":
\* the poller abandons a batch; "drop": a restart under another address set.
FaultKinds == {"write", "read", "quote", "abort", "drop"}

N     == Len(Time)
Swaps == 1 .. N
Day(t) == t \div DayLength
Days  == {Day(Time[i]) : i \in Swaps}

ASSUME ValuationConstants ==
  /\ Time \in Seq(Nat \ {0})
  /\ PoolOf \in Seq(STRING) /\ Len(PoolOf) = Len(Time)
  /\ Priceable \subseteq Valued
  /\ Legacy \in 0 .. N
  /\ DayLength \in Nat \ {0} /\ Window \in Nat \ {0}
  /\ MaxLag \in Nat /\ MaxFaults \in Nat /\ Faults \subseteq FaultKinds

\* Blocks are mined in time order, and a block number is small beside a time.
ASSUME TimesInOrder ==
  \A i, j \in Swaps : (i < j => Time[i] <= Time[j]) /\ i < Time[j]

VARIABLES
  next, cursor,               \* the poller: swaps handled, and below the stored cursor
  have, stamp, dated, usd,    \* the swaps table: rows, timestamp, Block set, AmountUSD set
  mark,                       \* meta key pricedThrough
  dayRow, total,              \* FactoryDayData rows; what the Factory row's volume counts
  pc, known, quoted,          \* the pass: its step, the pools it read and could price
  batch, reached,             \* the swaps it read and how far forward they reach
  heal, stale, staleUsd,      \* keepSwapTimes: its step and the rows it read
  lag,                        \* swaps inserted since the last tail read
  faults                      \* faults so far

pollerVars == <<next, cursor>>
tableVars  == <<have, stamp, dated, usd>>
passVars   == <<pc, known, quoted, batch, reached>>
healVars   == <<heal, stale, staleUsd>>
vars == <<pollerVars, tableVars, mark, dayRow, total, passVars, healVars, lag, faults>>

Fault(kind) == kind \in Faults /\ faults < MaxFaults /\ faults' = faults + 1

(***************************************************************************)
(* Reads of the swaps table                                                *)
(***************************************************************************)
\* ORDER BY timestamp LIMIT Window over rows R: any Window of them that no other
\* row precedes.  SQL leaves the order of equal timestamps open.
FirstRows(R) ==
  {T \in SUBSET R :
     /\ Cardinality(T) = IF Cardinality(R) < Window THEN Cardinality(R) ELSE Window
     /\ \A a \in T, b \in R \ T : stamp[a] <= stamp[b]}

LastRows(R) ==
  {T \in SUBSET R :
     /\ Cardinality(T) = IF Cardinality(R) < Window THEN Cardinality(R) ELSE Window
     /\ \A a \in T, b \in R \ T : stamp[a] >= stamp[b]}

DaysOf(T) == {Day(stamp[i]) : i \in T}

\* The lo wholeDays ends with: its zero value stands for "none yet", so a batch
\* that holds day 0 may end with any of its days, by the order of a map.
LowDays(T) ==
  IF 0 \in DaysOf(T) THEN DaysOf(T) ELSE {d \in DaysOf(T) : \A e \in DaysOf(T) : d <= e}

HighDay(T) == CHOOSE d \in DaysOf(T) : \A e \in DaysOf(T) : e <= d

Without(T, d) == {i \in T : Day(stamp[i]) # d}

\* Mutant: the cut day stays in the batch.
AllDays(T, cut) == {T}

\* wholeDays drops the day the read's own cut falls in.
WholeDays(T, cut) ==
  IF Cardinality(T) < Window
  THEN {T}
  ELSE {IF lo = HighDay(T) THEN T ELSE Without(T, IF cut = "oldest" THEN lo ELSE HighDay(T)) :
          lo \in LowDays(T)}

(***************************************************************************)
(* One pass: revalue                                                       *)
(***************************************************************************)
PassDone ==
  /\ pc' = "idle"
  /\ known' = {} /\ quoted' = {} /\ reached' = 0
  /\ batch' = [i \in Swaps |-> "unread"]

\* The pools PoolsRaw returns that readBalances asks about.
PoolsRead == {PoolOf[i] : i \in have} \cap Valued

\* PoolsRaw, readBalances and priceTokens.  With no pool to value the pass ends
\* here, as it does when the head is far behind or no balance was read.
BeginPass ==
  /\ pc = "idle"
  /\ PoolsRead # {}
  /\ known' = PoolsRead
  /\ quoted' = PoolsRead \cap Priceable
  /\ pc' = "head"
  /\ UNCHANGED <<pollerVars, tableVars, mark, dayRow, total, batch, reached, healVars, lag,
                 faults>>

\* The balances that connect p to a stablecoin did not come back.
BeginPassUnquoted(p) ==
  /\ Fault("quote")
  /\ pc = "idle"
  /\ p \in PoolsRead \cap Priceable
  /\ known' = PoolsRead
  /\ quoted' = (PoolsRead \cap Priceable) \ {p}
  /\ pc' = "head"
  /\ UNCHANGED <<pollerVars, tableVars, mark, dayRow, total, batch, reached, healVars, lag>>

Take(T) ==
  batch' = [i \in Swaps |-> IF i \notin T THEN batch[i]
                            ELSE IF dated[i] THEN "dated" ELSE "undated"]

\* valuedTrades, first read: RecentSwapsRaw.
ReadHead ==
  /\ pc = "head"
  /\ \E T \in LastRows(have) : \E W \in WholeDays(T, "oldest") : Take(W)
  /\ pc' = "tail"
  /\ UNCHANGED <<pollerVars, tableVars, mark, dayRow, total, known, quoted, reached, healVars,
                 lag, faults>>

\* The query failed, and the pass goes on with no recent swap.
ReadHeadFails ==
  /\ Fault("read")
  /\ pc = "head"
  /\ pc' = "tail"
  /\ UNCHANGED <<pollerVars, tableVars, mark, dayRow, total, known, quoted, batch, reached,
                 healVars, lag>>

\* Mutant: no read but the head's, as in the build the comment tells of.
ReadTailNone ==
  /\ pc = "tail"
  /\ lag' = 0
  /\ pc' = "value"
  /\ UNCHANGED <<pollerVars, tableVars, mark, dayRow, total, known, quoted, batch, reached,
                 healVars, faults>>

\* Second read: SwapsAfter(PricedThrough).
ReadTail ==
  /\ pc = "tail"
  /\ \E T \in FirstRows({i \in have : stamp[i] > mark}) :
       \E W \in IF T = {} THEN {{}} ELSE WholeDays(T, "newest") :
         /\ Take(W)
         /\ reached' \in {stamp[i] : i \in W} \cup {0}
         /\ \A i \in W : stamp[i] <= reached'
  /\ lag' = 0
  /\ pc' = "value"
  /\ UNCHANGED <<pollerVars, tableVars, mark, dayRow, total, known, quoted, healVars, faults>>

ReadTailFails ==
  /\ Fault("read")
  /\ pc = "tail"
  /\ pc' = "value"
  /\ UNCHANGED <<pollerVars, tableVars, mark, dayRow, total, known, quoted, batch, reached,
                 healVars, lag>>

\* The swaps this pass could price.
Priced == {i \in Swaps : batch[i] # "unread" /\ PoolOf[i] \in quoted}

\* ValueSwaps, one transaction, over the rows that are still there.
ValueSwaps ==
  /\ pc = "value"
  /\ usd' = usd \cup (Priced \cap have)
  /\ pc' = "mark"
  /\ UNCHANGED <<pollerVars, have, stamp, dated, mark, dayRow, total, known, quoted, batch,
                 reached, healVars, lag, faults>>

\* Mutant: the mark moves although the values were not written.
ValueFailsMarked ==
  /\ Fault("write")
  /\ pc = "value"
  /\ pc' = "mark"
  /\ UNCHANGED <<pollerVars, tableVars, mark, dayRow, total, known, quoted, batch, reached,
                 healVars, lag>>

\* The transaction failed: the mark stays, the rest of the pass goes on.
ValueFails ==
  /\ Fault("write")
  /\ pc = "value"
  /\ pc' = "totals"
  /\ UNCHANGED <<pollerVars, tableVars, mark, dayRow, total, known, quoted, batch, reached,
                 healVars, lag>>

\* SetPricedThrough, forward only.
Mark ==
  /\ pc = "mark"
  /\ mark' = IF reached > mark THEN reached ELSE mark
  /\ pc' = "totals"
  /\ UNCHANGED <<pollerVars, tableVars, dayRow, total, known, quoted, batch, reached,
                 healVars, lag, faults>>

\* TradedByPool over the whole table, folded into the Factory row.
Totals ==
  /\ pc = "totals"
  /\ total' = usd
  /\ pc' = "series"
  /\ UNCHANGED <<pollerVars, tableVars, mark, dayRow, known, quoted, batch, reached, healVars,
                 lag, faults>>

\* rollDays: the swaps of day d, dated when they were read, of a pool this pass read.
Cell(d) ==
  {i \in Swaps : batch[i] = "dated" /\ PoolOf[i] \in known /\ Day(Time[i]) = d}

\* writeSeries: each cell that is not empty replaces its day's row; a cell equal to
\* the one last written is the row already.  Today's cell is never empty, for it
\* records what the pools hold.
WriteSeries(today) ==
  /\ pc = "series"
  /\ \A i \in have : Day(Time[i]) <= today
  /\ dayRow' = [d \in Days |->
       IF d = today \/ Cell(d) \cap Priced # {} THEN Cell(d) ELSE dayRow[d]]
  /\ PassDone
  /\ UNCHANGED <<pollerVars, tableVars, mark, total, healVars, lag, faults>>

(***************************************************************************)
(* The heal: keepSwapTimes                                                 *)
(***************************************************************************)
\* Mutant: the rows are looked for in the newest window.
HealReadNewest ==
  /\ heal = "read"
  /\ \E T \in LastRows(have) : stale' = {i \in T : ~dated[i]}
  /\ staleUsd' = usd \cap stale'
  /\ heal' = IF stale' = {} THEN "done" ELSE "write"
  /\ UNCHANGED <<pollerVars, tableVars, mark, dayRow, total, passVars, lag, faults>>

\* UndatedSwapsRaw; none found ends the loop for good.
HealRead ==
  /\ heal = "read"
  /\ \E T \in FirstRows(have) : stale' = {i \in T : ~dated[i]}
  /\ staleUsd' = usd \cap stale'
  /\ heal' = IF stale' = {} THEN "done" ELSE "write"
  /\ UNCHANGED <<pollerVars, tableVars, mark, dayRow, total, passVars, lag, faults>>

\* A failed query returns no row and no error: found is 0 and err is nil.
HealReadFails ==
  /\ Fault("read")
  /\ heal = "read"
  /\ stale' = {} /\ staleUsd' = {}
  /\ heal' = "done"
  /\ UNCHANGED <<pollerVars, tableVars, mark, dayRow, total, passVars, lag>>

\* Mutant: the time is written and the block is not.
HealTimeOnly(i) ==
  /\ heal = "write"
  /\ i \in stale
  /\ stamp' = [stamp EXCEPT ![i] = Time[i]]
  /\ usd' = IF i \in staleUsd THEN usd \cup {i} ELSE usd \ {i}
  /\ stale' = stale \ {i}
  /\ heal' = IF stale = {i} THEN "read" ELSE "write"
  /\ UNCHANGED <<pollerVars, have, dated, mark, dayRow, total, passVars, staleUsd, lag, faults>>

\* SeedSwap of the row as it was read, with its time and block.
HealWrite(i) ==
  /\ heal = "write"
  /\ i \in stale
  /\ stamp' = [stamp EXCEPT ![i] = Time[i]]
  /\ dated' = [dated EXCEPT ![i] = TRUE]
  /\ usd' = IF i \in staleUsd THEN usd \cup {i} ELSE usd \ {i}
  /\ stale' = stale \ {i}
  /\ heal' = IF stale = {i} THEN "read" ELSE "write"
  /\ UNCHANGED <<pollerVars, have, mark, dayRow, total, passVars, staleUsd, lag, faults>>

\* No header answered for the row's block: it is left alone.
HealSkip(i) ==
  /\ heal = "write"
  /\ i \in stale
  /\ stale' = stale \ {i}
  /\ heal' = IF stale = {i} THEN "read" ELSE "write"
  /\ UNCHANGED <<pollerVars, tableVars, mark, dayRow, total, passVars, staleUsd, lag, faults>>

(***************************************************************************)
(* The poller, and restarts                                                *)
(***************************************************************************)
\* handleSwapV2, handleSwapV3, handleSwapV4: the row is replaced, value and all.
Insert ==
  LET i == next + 1 IN
    /\ next < N
    /\ lag < MaxLag
    /\ next' = i
    /\ have' = have \cup {i}
    /\ stamp' = [stamp EXCEPT ![i] = Time[i]]
    /\ dated' = [dated EXCEPT ![i] = TRUE]
    /\ usd' = usd \ {i}
    /\ lag' = lag + 1
    /\ UNCHANGED <<cursor, mark, dayRow, total, passVars, healVars, faults>>

\* SetLastBlock.
Commit ==
  /\ cursor < next
  /\ cursor' = next
  /\ UNCHANGED <<next, tableVars, mark, dayRow, total, passVars, healVars, lag, faults>>

\* Mutant: the read starts again one swap too early.
AbandonOneMore ==
  /\ Fault("abort")
  /\ cursor < next
  /\ next' = cursor - 1
  /\ UNCHANGED <<cursor, tableVars, mark, dayRow, total, passVars, healVars, lag>>

\* A panic in the batch: the next poll reads it again.
Abandon ==
  /\ Fault("abort")
  /\ cursor < next
  /\ next' = cursor
  /\ UNCHANGED <<cursor, tableVars, mark, dayRow, total, passVars, healVars, lag>>

\* A restart under another address set whose pools traded the same swaps:
\* DropDerived empties the tables and the cursor, and no other meta key.
Drop ==
  /\ Fault("drop")
  /\ next' = 0 /\ cursor' = 0
  /\ have' = {} /\ usd' = {}
  /\ dayRow' = [d \in Days |-> {}]
  /\ total' = {}
  /\ PassDone
  /\ heal' = "read" /\ stale' = {} /\ staleUsd' = {}
  /\ lag' = 0
  /\ UNCHANGED <<stamp, dated, mark>>

Init ==
  /\ next = Legacy /\ cursor = Legacy
  /\ have = 1 .. Legacy
  /\ stamp = [i \in Swaps |-> IF i <= Legacy THEN i ELSE 0]
  /\ dated = [i \in Swaps |-> FALSE]
  /\ usd = {} /\ mark = 0
  /\ dayRow = [d \in Days |-> {}] /\ total = {}
  /\ pc = "idle" /\ known = {} /\ quoted = {} /\ reached = 0
  /\ batch = [i \in Swaps |-> "unread"]
  /\ heal = "read" /\ stale = {} /\ staleUsd = {}
  /\ lag = 0 /\ faults = 0

Pass ==
  \/ BeginPass \/ ReadHead \/ ReadTail \/ ValueSwaps \/ Mark \/ Totals
  \/ \E today \in Days : WriteSeries(today)

PassFault ==
  \/ \E p \in Priceable : BeginPassUnquoted(p)
  \/ ReadHeadFails \/ ReadTailFails \/ ValueFails

Heal == HealRead \/ HealReadFails \/ \E i \in Swaps : HealWrite(i) \/ HealSkip(i)

Poller == Insert \/ Commit

Next == Pass \/ PassFault \/ Heal \/ Poller \/ Abandon \/ Drop

Spec == Init /\ [][Next]_vars

\* The tickers keep firing, and a node that has a block's header answers for it
\* sooner or later.
Fairness ==
  /\ WF_vars(Pass)
  /\ WF_vars(Insert) /\ WF_vars(Commit)
  /\ WF_vars(Heal)
  /\ \A i \in Swaps : SF_vars(HealWrite(i))

FairSpec == Spec /\ Fairness

(***************************************************************************)
(* Properties                                                              *)
(***************************************************************************)
\* Type correctness of the pass, the heal, the poller and the rows they share.
TypeOK ==
  /\ next \in 0 .. N /\ cursor \in 0 .. N
  /\ have \subseteq Swaps /\ usd \subseteq Swaps
  /\ stamp \in [Swaps -> Nat] /\ dated \in [Swaps -> BOOLEAN]
  /\ mark \in Nat
  /\ dayRow \in [Days -> SUBSET Swaps] /\ total \subseteq Swaps
  /\ pc \in {"idle", "head", "tail", "value", "mark", "totals", "series"}
  /\ known \subseteq Valued /\ quoted \subseteq Priceable
  /\ batch \in [Swaps -> {"unread", "undated", "dated"}] /\ reached \in Nat
  /\ heal \in {"read", "write", "done"}
  /\ stale \subseteq Swaps /\ staleUsd \subseteq Swaps
  /\ lag \in 0 .. MaxLag /\ faults \in 0 .. MaxFaults

\* revalue: the mark is moved after the write because otherwise swaps would be
\* left "behind the mark and unpriced for good".  No priceable swap at or behind
\* the mark is unpriced.
NoneLeftBehind ==
  \A i \in have : PoolOf[i] \in Priceable /\ stamp[i] <= mark => i \in usd

\* valuedTrades: "a table longer than any window is covered a batch at a time
\* and eventually entirely".  Every priceable swap ends up priced and counted in
\* the protocol's all-time volume.
AllPriced ==
  <>[](\A i \in Swaps : PoolOf[i] \in Priceable => i \in have /\ i \in usd /\ i \in total)

\* wholeDays: "a pass that saw half a day would put half a day's volume where a
\* whole day's had been".  A day's row never loses a swap it counted, short of
\* DropDerived.
DayNeverShrinks ==
  [][have \subseteq have' => \A d \in Days : dayRow[d] \subseteq dayRow'[d]]_vars

\* keepSwapTimes: the heal runs "until no row is left holding a block number
\* where a time belongs", and it does not stop before.
AllDated == (heal = "done") => \A i \in have : dated[i]

\* keepSwapTimes repeats "immediately while a pass is still dating rows": it ends.
HealFinishes == <>(heal = "done")

=============================================================================
