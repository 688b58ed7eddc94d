# Verification of luxfi/graph

TLA+ models of `graph`: the goroutines that index a chain into one SQLite store (the
EVM log poller, the native D-Chain CLOB source, the valuation pass with the heal
of old rows, the token metadata), and the parts that answer from it (store reads,
the GraphQL engine, quotes and the swaps built from them, the rate limiter). Each
is model-checked with TLC on small instances; what matters most of each is
proved with TLAPS for every value of the constants.

## 1. The system

`graphd` runs one `Indexer` per subgraph. An indexer is four goroutines that
share only the store (`indexer.go` `Run`):

| goroutine | code | reads | writes |
|---|---|---|---|
| EVM poller, every 2 s | `indexer.go`, `indexer_securities.go`, `blocks.go` | `eth_blockNumber`, `eth_getLogs`, block headers | pools, swaps, entities, meta `lastBlock` |
| CLOB source, every 3 s | `clob.go` | `dex_get_markets`, `_orders`, `_trades` | Market, Order and Fill entities |
| valuation, every 30 s | `valuation.go`, `series.go`, `supply.go` | balances at head, the swaps table | swap values, pools, tokens, Factory, day rows, meta `pricedThrough` |
| heal, until done | `blocks.go` `keepSwapTimes` | undated swaps, block headers | swaps |

The store (`storage/store_sqlite.go`) locks one call at a time. A read followed by
a write of the same row is two calls, and most writes discard the database's
error. Before `Run`, `BackfillTokens` asks the chain about token rows that lack an
answer (`erc20.go`); the log handlers and the pass write those rows too.

`graphd`'s HTTP server answers behind a rate limiter (`ratelimit.go`): GraphQL documents
(`engine/engine.go`, one resolver per top-level field, each one store call), and
quotes, swaps and approvals (`quote.go`, `swap.go`, `approval.go`), which read pools from the store and
amounts from the chain. They change nothing in the store; the quoter keeps a cache of
what kind of contract each pool is.

What is hard in this code:

- **Two cursors that outlive the process** (`lastBlock`, `pricedThrough`) and one
  that does not (`lastTradeHeight`), each with rows written beside it in another
  statement. A crash, a panic or a failed write falls between any two.
- **A chain that may be replaced** behind the same endpoint, and an endpoint that
  is several nodes at different heights.
- **An address set that may be changed** under a store full of another set's rows.
- **Read-modify-write over shared rows** by goroutines that know nothing of each
  other.
- **Answers put together from several reads**: legs of a quote priced in two rounds while
  blocks pass, pages cut by SQL before or after a filter, replies of a batch that
  are missing and must not be taken for reverts.
- **A hand-written scanner** that must split any document the way it was written.
- **Bounded windows** over a table that grows without bound, whose cuts fall in
  the middle of a day, a second or a height.

The properties that make each part correct: for the poller, what is below the
cursor is there, whole, and of the current book, and the cursor moves back only
for a new chain; for the CLOB source, no trade is skipped and a Market row keeps
what each writer owns; for the valuation, every swap that can be priced is, and
no day row loses trades; for the heal, it ends, and only when nothing is left; for the
token rows, no writer erases what another learned; for reads, a page is the first
matches in order and a walk back misses nothing; for quotes, the best way through the book,
at amounts the pools accept, and a call that fills exactly within the slippage; for
documents, the answer is what was written; for the limiter, at most burst plus rate times
time, and eviction changes nothing a client can see.
`PROJECT.json` lists every component and, under `hazards`, each place where one
of these can go wrong.

## 2. Modules

| module | models | checked by | proved in |
|---|---|---|---|
| `Poller` | `NewWithConfig`, `Run`, `poll`, every log handler, the meta keys, `DropDerived` | `MCPoller` | `PollerProofs` |
| `Clob` | `CLOBSource.Run`/`poll`, `writeMarket`, `refreshOrders`, `drainTrades`, and the EVM poller at a Market row | `MCClob` | `ClobProofs` |
| `Valuation` | `revalue`'s reads and writes of swaps, `wholeDays`, `rollDays`, `writeSeries`, the mark, `keepSwapTimes` | `MCValuation` | `ValuationProofs` |
| `Tokens` | `token`, `resolve`, `readERC20`, `BackfillTokens`, the bundle, token rows and native supply of `revalue` | `MCTokens` | `TokensProofs` |
| `Reads` | `page`, `FilterResults`, `GetSwaps`, `GetTokens`, `GetPools`, `Entities`, `TradedByPool` of both backends; `Init` with its upgrade; the writes of those rows | `MCReads` | `ReadsProofs` |
| `Quote` | `serve`, `classify`, `routes`, `priceReady`, `best`, `decorate`; `HandleSwap`; `HandleCheckApproval` | `MCQuote` | `QuoteProofs` |
| `Query` | `LoadBuiltin`, `Execute`, `parseTopFields`, `parseField`, `parseArgs`, `queryDepth` | `MCQuery` | `QueryProofs` |
| `Documents` | no code: the documents clients write, and what they should be answered with | `MCQuery` | |
| `RateLimit` | `allow`, `cleanup` | itself | `RateLimitProofs` |
| `Mirror` | the abstract mirror of a chain that `Poller` and `Clob` implement | in `Clob` | in `PollerProofs`, `ClobProofs` |
| `IdealLimiter` | the abstract limiter that `RateLimit` implements | in `RateLimit` | in `RateLimitProofs` |

### Mirror

What a source promises of its store: a book of entries, each due at a height; the entries that have their rows, which
stay while the book is the same; and a cursor that passes a height only when everything due there has its
rows, and goes back only to the start. For `Clob` the book is the D-Chain, an entry a trade, a row its Fill and the
cursor `lastTradeHeight`. For `Poller` the book is the chain with the address set, an entry a log, its rows what `Applied` asks for,
and the cursor the stored one: it counts for 0 while the recorded source is another's (the book of
a new address set is empty from the start of the process, not from the end of the drop) and once it has passed blocks of
an older chain.

### Poller

State: the chain behind the endpoint (`chain`, `height`), the process (`pc`, `cfg`,
and the `Indexer` fields `lastBlock`, `streak`, `genesis`), the locals of one
`poll` (`latest`, `toBlock`, `logChain`, `todo`), the store (`dLast`, `source`, `pools`,
`swaps`, `entities`, `tally`, `frozen`), and history variables (`headChain`,
`readOf`, `boot`) that properties refer to, and `kept`, the rows taken over under no known source. The file is new or, for
`OldStores`, one that a build before `SetSource` left with rows and a cursor: `Open` takes it over with nothing dropped, as it does
a store whose source it cannot read (`SourceMayFail`). `NoChain` in `readOf` says that the cursor was taken over so, or passed a log
whose write the store refused (`Lose`). Every RPC and every statement that
commits on its own is a step, so the chain can move and the process can stop
between any two:

    Start, Open, DropTable*, Adopt, Load            NewWithConfig
    ReadHead, EnsureGenesisHash, CountLowHead,
    Probe | ProbeFails, PersistRewind               head, maybeResetForRegenesis
    NothingNew | GetLogs | FetchFails               poll up to the logs
    HandleX per log, WriteFill then RollUpFill      processLog
    Advance, Persist                                poll's last lines
    Panic, Crash                                    pollGuarded, a stopped process

A log is its block, the handler its topic selects, its emitter and the one subject
the handler keys on. Its identity stands for `txHash#logIndex`, which is what makes
a second read of a block an overwrite. A log a handler rejects for being too short is of
the kind "Inert". The low-head streak is capped at `Confirmations`, the only number it is
compared with. `Market.tradeCount` is the one accumulator.

### Clob

A book is the set of its resting orders; a trade is its height and seq. `ReadMarket`
and `WriteMarket` are the two halves of `writeMarket`; `EvmRead` and one of
`EvmWriteFill` and `EvmInitialize` are those of the EVM handlers. A page of `drainTrades` is its GET (`GetTrades`), one `WriteTrade` or, when
the store refuses the row and the error is discarded, `TradeRefused` per trade, and `PageDone`, which moves the cursor; `NeverCutOff` are the
trades that no page can part from the earlier ones of their height.
A relaunched D-Chain starts at height 0 with no orders. The contents of the D-Chain and its
three read methods are external, and modelled from how `clob.go` uses them.

### Valuation

A swap is its position in chain order, with its time, its pool, its stored
`stamp`, and whether the row is dated and valued. A price is abstracted to whether
a pass can price the pool; a day row to the set of swaps folded into it. A pass is
seven steps (`BeginPass`, `ReadHead`, `ReadTail`, `ValueSwaps`, `Mark`, `Totals`, `WriteSeries`), each one
store call; the heal is a read and one write per row. The poller is reduced to
`Insert`, `Commit` and `Abandon`, as module `Poller` has them. SQL leaves the order of
equal timestamps open, so a read with a LIMIT is any set of rows no other row
precedes (`FirstRows`, `LastRows`). `wholeDays`' zero value for "no day yet" is kept (`LowDays`).
Passes that return early (no pool, head far behind, no balances) change nothing and are
not steps.

Faults are switched on by name: `write` (the values' transaction fails), `read` (a query
fails and is answered with no rows), `quote` (the balances that connect a pool to a
stablecoin do not come back), `abort` (a batch is abandoned), `drop` (an address change).

### Tokens

A token row is which of its fields the contract has answered, how its supply was scaled,
and the pass and the bundle its aggregates come from. There are three copies of it: `store`,
the handlers' cache `memo`, and `copies`, what the pass read when it began. `Consult` and
`Answer` are the two halves of `token` around the four `eth_call`s (`readERC20`), any of which
may not answer (`FailSets`); `Answer` applies `resolve` to the row as it was before the calls. `BackfillRow`
is one row of `BackfillTokens`; `PassRead`, `PassAnchor`, `PassToken` per row and `PublishNative` are
`revalue`'s. `Crash` and `PassPanics` stop the process and the pass.

### Reads

A query is `first`, `orderBy`, a direction and a `where` of field and comparison; an answer is
any sequence SQL or the iteration of a Go map allows, so each getter returns the set of
its possible answers. `GetSwaps` sorts and cuts in SQL with the part of `where` that is in `Pushed`, then
filters, sorts and cuts again; the memory backend has no SQL. `Open` and `projectAmounts` are the two
statements of the upgrade that adds the value column. `WalkBegin` and `WalkPage` are a client paging back
through one pool with `timestamp_lt` while rows are written and valued.

### Quote

A request is priced in steps between which blocks pass: `Ask` (the book and the
candidate routes), `Classify` (two calls for each pool of unknown venue), `Price1`, `Price2` (one batch each:
every leg whose input is known), `Decorate` (the answer, with the head's number). `NodeFails` is a batch that
does not come back; a reply of a pool in `Flaky` may be missing from one that does. Then `Build` makes the
call, `CheckApproval` reads the allowance, and `Execute` settles it at a later block by what the router and the
pools do (external: a V2 pair that checks its product, a V3 pool that pays from a table). Integer division is
the code's, with the fee in the index (`Recorded`); what a pair really takes is `Charge`, which need not be the same, and by which `Execute`
settles. `Nil` is Go's nil. The history variable `readAt` is the set of blocks the answer's
batches were read at.

### Query

A document is a sequence of lexemes. `scanField` finds the end of a field as `parseTopFields` does,
`parseField` and `parseArgs` read its text again; bracket matching is stated as "the first closing
bracket outside quotes that leaves none open". A request is any such sequence (`Requests`). `Documents` has
the ones clients write: `Write` lays out a sequence of fields, and `Meaning` is what it should be answered with, the
package that registered the field last and the arguments. `Unfinished` is a truncated document, for any text: it has no brace, or the
first one is never closed, its brackets nest as far as it goes, and its strings are in arguments. `MCQuery` assumes, and TLC evaluates,
that of the documents of the run exactly the cut ones are unfinished (`CutsAreUnfinished`). A text on which `parseArgs` panics is not
answered: the HTTP server recovers the request and closes the connection. `Execute` and one step per pass of the two loops follow the code; a resolver may fail at
any field, and an answer may be too large.

### RateLimit

Time is counted in units of credit, so a bucket is an integer. `AllowNew`, `AllowKnown`, `RefuseKnown` and
`Sweep` are the critical sections of one mutex. `IdealLimiter` has a bucket for every client from the start and
no sweep; the refinement maps an absent bucket to a full one, and any other to what it
will hold when it is next touched. `Observe` restarts a history counter, so that `Bounded` is about every window.

## 3. Runs

| run | checks | instance |
|---|---|---|
| `poller_whole` | `TypeOK`, `IndexedWhole`, `BookMatchesSource`, `TallyCovers`, `SnapshotNotBehind`, `RewindOnlyAfterRelaunch` | 2 chains of 10 and 5 logs, 2 address sets, a new store or one that names no source, 2 crashes, panics, refused writes or unreadable sources; 1,610,774 states |
| `poller_live` | `TallyExact`, `CatchesUp` | a relaunch under a running process, answers that lag; 4,523 states |
| `clob_mirror` | `TypeOK`, `TradesIngested`, `BookRefreshed`, `TradesMirrored` | 2 chains of 4 and 3 trades, pages that end between heights and inside one, an EVM write, a refused write, a restart; 455,877 states |
| `clob_skips` | `NeverSkipsFill`, expected to be violated | the same logs with 2 markets; the finding of `PROJECT.json` |
| `valuation_keepup` | `TypeOK`, `DayNeverShrinks` | 6 swaps over 3 days, window 4, a failed write or an abandoned batch; 17,616 states |
| `valuation_backlog` | `NoneLeftBehind`, `AllPriced` | 6 swaps, window 2, a failed read or write; 109,579 states |
| `valuation_heal` | `AllDated`, `HealFinishes` | 3 undated rows, window 2, one fault; 35,588 states |
| `tokens` | `TypeOK`, `KnownKept`, `NativeStands`, `QuotesMatchBundle`, `SupplyScaled` | 3 tokens, rows of an older build, calls lost (`decimals()` alone among them), 2 passes, a crash or panic; 394,676 states |
| `reads` | `TypeOK`, `SwapPagesRight`, `ListPagesRight`, `VolumeIsTrades`, `WalkWhole` | 4 swaps of 2 pools, 2 of them older than the column, 23 queries with filters and orders SQL has and has not, a restart; 26,888 states |
| `quote` | `TypeOK`, `BestOfBook`, `LegsOwnPool`, `PairsAccept`, `FillsAsQuoted` | 6 pools of 3 tokens, a pair with the tokens and fee of a concentrated pool, a pair that charges more than recorded, 3 blocks, 2 requests, 2 pools whose replies may be lost; 32,467 states |
| `query` | `TypeOK`, `AnsweredAsWritten`, `TruncatedRefused`, `ScanAdvances` | 8 fields, documents of up to 3, 4 layouts, up to 4 lexemes missing, a text that panics; 11,004 states |
| `ratelimit` | `TypeOK`, `Bounded`, `EvictionUnseen` | 2 clients, burst 2, 7 ticks; 334,452 states |

Bounds. Each constant of the code is scaled to the smallest value at which both
sides of every comparison with it happen: `reorgDepth` 1, `regenesisConfirmations` 2,
batches of 2 blocks, pages of 2 trades, windows of 2 to 4 swaps, days of 10
units. Two chains are enough for "old and new" and two address sets for "wrong and
corrected"; two faults allow a crash in the recovery from a crash. `MaxLag` bounds
the swaps inserted between two tail reads: 1 in `valuation_keepup`, which is about a
pass that keeps up, and the whole history in `valuation_backlog`. The bucket is evicted after exactly
the time that fills it (`Idle = Cap`), the tightest case the assumption allows. Pages of
one and two rows cut every list; `MaxTopFields` 2 and `MaxQueryDepth` 3 are passed by some documents and
not by others. Deadlock is not checked where the program or the bounded input may end: a finished
history (Valuation), a spent number of passes, swaps or requests (Tokens, Reads, Quote), an unknown schema (Query).

What the runs assume is in the constants and specifications: `poller_whole` has no lagging
`eth_getLogs`, no failing drop and no return to an earlier address set, each
of which breaks it (section 4); `RewindOnlyAfterRelaunch` is proved with all of them. What `poller_whole` says of blocks below
the cursor it says of cursors that were not taken over with a store and under which no write was refused. `LiveSpec` of `Poller` has the relaunch fall between two
polls of a process that has a baseline and a cursor more than a reorg above the new chain's
head, which is what `maybeResetForRegenesis` says it handles. `RelaunchRunning = FALSE` in the
Clob runs has the D-Chain relaunched only while the cursor is at 0, as after a restart.
`valuation_backlog` has no two swaps at one time, and `reads` no two of one pool. `quote` has no
exact-output trade paid in the coin. What each of these keeps out is in section 4.

Fairness. The tickers of `Run`, `runValuation`, `CLOBSource.Run` and the loop of
`keepSwapTimes` fire for as long as the process lives, which gives weak fairness of the next
step of each goroutine. That an endpoint does not fail, lag or lose a call for ever is
strong fairness of the successful call (`ReadHead(height)`, `GetLogs(height)`, `Probe`,
`RefreshOrders`, `GetTrades`, `HealWrite(i)`); the code retries each at its next tick and
nothing in it helps with an endpoint that never answers. No fairness is assumed of the
chains, of crashes or of any fault.

## 4. Where the code falls short of its comments

Some comments of the code do not hold as written. The first is the run `clob_skips`; each of the others is a definition
or a constant of the models, and with the change named here TLC refutes it.

- `clob.go:239` ("this never skips a fill"): `clob_skips` refutes `NeverSkipsFill` on a log with trades at heights 1, 2, 2 and pages of two;
  the page ends inside a height and the next asks from `height+1`. What the drain does keep, for every trade that no page parts from the
  earlier ones of its height, is `TradesMirrored`.
- `store_sqlite.go:287` (a store with no recorded source "is indistinguishable from a store built by another set, and is treated as one"):
  `UnknownIsDropped` added to `poller_whole` fails. `NewWithConfig` says the opposite (`indexer.go:197`, "unknown, not a mismatch") and takes
  the rows and the cursor over, whosever they are, also when the query for the source failed. `BookMatchesSource` is what remains true.
- `store_sqlite.go:302` on mixing two books ("an answer that was never true anywhere"): `DropMayFail` breaks
  `BookMatchesSource`; `indexer.go:209` logs a failed drop and records the new source all the same.
- `clob.go:277` ("never clobbers an EVM-accrued volume"): `VolumeKept` added to `clob_mirror` fails; a fill rolled
  up between `writeMarket`'s read and its write is overwritten.
- `store_sqlite.go:300` ("removes everything read off the chain"): the fault `drop` in `valuation_backlog` breaks
  `AllPriced`; `pricedThrough` outlives `DropDerived`.
- `quote.go:62` ("blockNumber says which block the answer came from"): `BlockIsTheOneRead` added to `quote` fails; the two
  pricing rounds and the head's number are three reads.
- `quote.go:578` ("answered neither; leave it unknown rather than guess"): `OwnPoolAlways` added to `quote` fails. `legCalls` and `absorb` take an
  unknown pool for a concentrated one, so a pair recorded with the tokens and the fee of a concentrated pool, whose classification was lost in
  this request, is priced at that pool's amount. `LegsOwnPool` says that this is the only case.
- `quote.go:538` (a pair's fee is recorded as 3000 "whether or not that is what it charges"): `PairsAcceptAsQuoted` added to `quote` fails for a
  pair that charges more; the amounts `amountOut` and `amountIn` give it are refused. `PairsAccept` says by how much they are short, the
  difference in the fee. `BestOfBook` is by the recorded fees for the same reason: at the real ones another way may pay more.
- `store_sqlite.go:742` on `GetSwaps` ("a limit that runs before the filter answers with the first N rows rather than the first N matches"):
  `FirstMatches` added to `reads` fails. A filter that is not `pool` or `timestamp_lt` is applied after SQL's LIMIT, and an `orderBy` that is
  not `timestamp` puts no ORDER BY before the LIMIT, so the rows that are sorted are any `first` of the table. `SwapPagesRight` says
  what such an answer still is.
- `engine.go:391` ("the same document pretty-printed or minified"): a layout with a newline between a name and
  its bracket breaks `AnsweredAsWritten`: `scanName` stops there, `parseField` does not, and the field is unknown. So do
  arguments of a nested field below a field that has none (`parseField` takes the first parenthesis of the whole
  text), arguments separated by white space alone, and a brace quoted inside an argument object. A value that is a lone opening
  brace is no document, but `parseArgs` slices `s[1:0]` of it and panics (`engine.go:631`).
- `store_sqlite.go:101`: `StopInUpgrade` breaks `VolumeIsTrades`; the column exists at the next start, so it is never filled.
- `erc20.go:89` ("must never erase something already known"): with the faults `list` or `row`, a row that could not be read at the
  start is taken for a new one later, and `KnownKept` fails.
- `erc20.go:331` on `wholeUnits` ("One unit for one field"): `OneUnit` added to `tokens` fails. A read that loses `decimals()` alone scales the supply
  by 18, and the row is settled. `SupplyScaled` says which scale a row's supply can have beside its decimals.

Others are inputs the code does not claim to handle. The runs pass without them, and each breaks the property named:

- `LaggingLogs` or `Reverts` breaks `IndexedWhole`: an `eth_getLogs` answered by a node behind the head, a stop
  inside `DropDerived` followed by a start under the old addresses. A row whose INSERT error is discarded is missing for good (a Market row
  whose SELECT fails is replaced by a stub with a count of one), so the properties of the blocks below the cursor are stated for cursors
  without such a write below them (`NoChain` in `readOf`).
- Exact-output trades paid in the coin (`Asks <- CoinTrades`) break `FillsAsQuoted`: the call's value is the quoted
  input while its limit allows the slippage above it.
- Two swaps of one pool at one time break `WalkWhole`, since the next page asks for strictly older ones.
- Two or more undated rows (`Legacy`) in the history of `valuation_backlog` break `NoneLeftBehind`, and in that of
  `valuation_keepup` `DayNeverShrinks`: the heal writes back rows as they were before the pass priced them.
- A relaunch while the process is down leaves the cursor above the new head
  (`CatchesUp` fails): the baseline hash is not persisted.
- A D-Chain relaunched under a running process is read only above the cursor in
  memory (`RelaunchRunning` breaks `TradesMirrored` and `TradesIngested`).
- `Window = 3` or a larger `MaxLag` in the history of `valuation_keepup` breaks `DayNeverShrinks`:
  the mark rests inside a day the head window no longer holds whole.
- Two swaps at one time on both sides of a cut break `NoneLeftBehind`, and so does a batch that is abandoned and read again (the
  fault `abort`): its rows are written over as they came, and stay unpriced until a pass's head window takes them; the fault `quote`
  breaks `AllPriced`; the fault `read` breaks `AllDated`.

## 5. Proofs

Assumptions are the named ASSUMEs of each module (constants are of their types, logs
and trades are in height order, times are in order and above block numbers), which
TLC evaluates on every run.

- `PollerProofs!TypeCorrect`, `ClobProofs!TypeCorrect`, `ValuationProofs!TypeCorrect`: the
  type invariants, one case per action.
- `PollerProofs!RewindSafe`: `RewindOnlyAfterRelaunch` with every fault allowed. The
  strengthening says that the baseline hash, once set, is of a chain no older than
  the one the process started on and no newer than the one running, so a probe
  that differs proves a relaunch.
- `PollerProofs!BlocksReadWhole`: `IndexedWhole` for any number of crashes and panics, under
  `Behaved` (complete answers, drops that work, address sets that are not taken
  back), whatever store the process began with. `IndexedWhole` is not inductive: it says nothing of the batch in flight. The
  invariant adds that logs of the batch no longer in `todo` have their rows, that the
  pools a swap needs were announced at an earlier position and are therefore stored,
  that cursors are bounded by what was read, and what is gone half way through a drop.
- `PollerProofs!PollerMirrors`: `Poller` implements `Mirror` (`BookMirrored`) under `Behaved`. That the cursor passes whole blocks only is `WholeInv`
  of the state after the step. The rest is what a step does: handlers only add rows, a drop happens while the source is another's, a rewind is
  stored as the start, and a relaunch finds an unread book. The last needs `SeenInv`, that no block came from a chain to
  come, and `CursorInv`, that a store into which nothing was read has its cursor at the start and that the stored cursor is behind
  the one in memory unless a rewind is half done. TLC confirms `BookMirrored` and both invariants on
  the `poller_whole` instance; it is no property of that run, where `IndexedWhole` already asks the same of both cursors.
- `PollerProofs!BookIsOwn`: `BookMatchesSource` when drops do not fail, for every store without a source and any number of starts that cannot
  read it. The invariant ties the rows to the *recorded* source rather than to the running configuration, with the rows taken
  over (`kept`) apart, and follows the tables through a drop one by one: a drop takes those rows too.
- `ClobProofs!DrainSkipsOnlyCutOff`: `SkipsOnlyCutOff` when a relaunch finds the cursor at 0, for every page size, log and
  number of restarts and refused writes: what the drain skips is cut off by a page. `FirstOfHeightKept` adds that the first trade of a
  height never is. The invariant is about the page in hand: the trades no longer in `left` are handled, and every trade up to `maxH` that no
  page cuts off is on the page or was below the cursor.
- `ClobProofs!DrainMirrors`: `TradesMirrored`, that `Clob` implements `Mirror`, under the same condition. A write records one entry, the end of a page
  advances, a restart is a rewind to 0, a relaunch another book. It says more than `SkipsOnlyCutOff`: a page, replayed or
  not, takes no Fill row from the running chain.
- `PollerProofs!SnapshotsKeepUp`: `SnapshotNotBehind` under `Behaved`. A freeze handler writes what the holder's balance is at
  the block being read, so a later batch must not write an older one. `OrderInv` says that batches are read in
  chain order and, after a rewind, of a newer chain; `SnapInv` that every snapshot is at or below the position being
  handled and that the logs of the batch already handled are covered.
- `PollerProofs!TalliesKeepUp`: `TallyCovers` under `Behaved`. The count is one write later than the Fill row, and only the step that
  raises the count takes the fill off the batch, so a stop between the two replays both: `TallyInv` counts the
  fills below the cursor and those of the batch no longer in `todo`, with finite-set arithmetic.
- `PollerProofs!TalliesExact`: `TallyExact` for `LiveSpec` over a new store, without crashes, panics and failing statements (`MaxFaults = 0`). `OnceInv` says that the source is opened
  once, that all Fill rows are of one chain unless it was replaced between polls, and that a log is handled only above the
  blocks handled before, so none is counted twice. Lagging answers are
  allowed; a statement whose error is discarded is not, since a fill is two INSERTs and either may be lost alone.
- `ValuationProofs!HealStopsWhenDone`: `AllDated` when queries do not fail, for every
  window and table. `StampInv` says what a stored timestamp is; the lemma
  `FirstRowsHoldUndated` that an ascending read of at least one row holds an undated row
  whenever there is one, because a block number is below every time.
- `ValuationProofs!NonePassedOver`: `NoneLeftBehind`, with failed
  queries and value transactions. `StoreInv`: the rows are a prefix of the history, dated. `PricedInv`: what the tail read
  reaches is in the batch, what the values' transaction wrote reaches as far as the mark will, and what is inserted later is
  later than both. The lemma `TailIsPrefix` shows that the cut of `wholeDays` leaves no gap. Its hypotheses are those
  of `valuation_backlog`: a store of this build that is not dropped, no abandoned batch, no two swaps at one time, and
  `QuotesAll` (no pool makes its first trade, and no balance is lost, inside a pass); section 4 says what each keeps out.
- `ValuationProofs!DaysOnlyGrow`: `DayNeverShrinks`, the action property. `WholeInv` says of the batch that it holds the whole
  stored row of every day it has a swap of, of the newest day, and, before the tail read, of the day the mark stands
  in. A day lies in the head window, in the tail window, or across the mark, and the lemmas `HeadIsWhole` and `TailIsWhole` show that
  the cuts of `wholeDays` keep it whole when a day fits in one read (`DaysFit`, by counting) and is not day 0
  (`NoDayZero`). The day across the mark is the case that needs `KeepsUp`: at the start of a pass, its swaps and the later
  ones are fewer than a window. TLC finds these hypotheses true of `valuation_keepup`, and the property false
  without `KeepsUp` (section 4). Abandoned batches, failed value writes and lost quotes are allowed.
- `TokensProofs!NothingLost`, `NativeSupplyStands`: `KnownKept` and `NativeStands` when the store answers (`StoreAnswers`: the faults `list` and `row` do
  not occur). The handlers, the backfill and the pass each write a whole row from a copy read earlier. `OwnInv` says
  whose fields a copy may be behind in: only the handlers and the backfill add metadata, and they do not run at
  once; only the pass writes aggregates, over the metadata it reads again.
- `TokensProofs!SuppliesScaled`: `SupplyScaled`, whatever calls are lost; the invariant carries the
  fact through the answers under way, the cache and the pass's copies. A default scale beside known decimals needs two
  reads, so it follows `again`, the addresses asked about over a row they had.
- `TokensProofs!QuotesAreOfBundle`: `QuotesMatchBundle` when the store answers and every token trades. Without the latter a token that was
  priced once and is in no pool the next pass reads keeps the quote of an older bundle.
- `ReadsProofs!ListsAreFirst`, `SwapsAreFirst`: `ListPagesRight` and `SwapPagesRight` for every table, backend and query that is well formed
  (`QueriesFormed`). Lemmas on the cuts show what sorting and cutting in SQL, then filtering, sorting and cutting again yields: rows that match, in
  order; no gap when the order is by time, since a LIMIT of an ordered read cuts its end; and the first matches when
  the filter is one SQL applied or the LIMIT did not cut.
- `ReadsProofs!VolumeInStep`: `VolumeIsTrades` unless the process stops between the two statements of the upgrade.
- `ReadsProofs!WalkIsWhole`: `WalkWhole` for every page size when no two swaps of a pool share a time. `WalkInv`: what the client has is exactly
  what was stored at the beginning from the last page's oldest time on.
- `RateLimitProofs!BoundHolds`: `Bounded` is not inductive, since it says nothing of what is still in the
  bucket. The invariant is that what a client spent in the window plus what it has now is at most the
  burst plus the window's length; a sweep keeps it because an idle bucket is full.
- `RateLimitProofs!Implements`: every step of `RateLimit` is a step of `IdealLimiter` or leaves its variables alone. The case that
  matters is `Sweep`, which by `Idle >= Cap` only removes buckets that map to full ones.
- `QueryProofs!TypeCorrect`: `TypeOK` of the engine for every set of texts, well formed or not, and every cap. Each search of the scanner
  (`Until`, `skipSpace`, a closing bracket) is a least position, so the lemmas first show that `Min` and `Max` of positions exist; `FieldAdvances`
  then gives that a field which is not refused ends past its start and at most just past the text. `ScanInv` adds
  to `TypeOK` that the body is a text and the fields are parsed ones.
- `QueryProofs!EveryPassConsumes`: `ScanAdvances`, from the same lemmas. It is why the loop of `parseTopFields` ends for every text: the
  position grows in each pass and is bounded by the text's length.
- `QueryProofs!TruncationRefused`: `TruncatedRefused` for every text. `parseTopFields` takes the last brace of the text for the one that closes the document; in
  an unfinished one that brace is a selection set's, an unclosed argument's, or in a string. `CutInv` says that a scan of an unfinished document is
  always at a field's place: in no string, in the first brace only, and with a closing brace just behind what is
  left of the body. A field passed by `scanField` keeps that (`PlainRun` for names and blanks, `ArgsLevel` and `SelectionLevel` for what a bracket
  match skips), and a scan that reached the end would have the brace behind the body close the first one, which an
  unfinished document never does (`NeverEnds`). The depth is a difference of two cardinalities, so the steps are counting lemmas (`DepthStep`,
  `OpenSplit`, `QuotesSplit`), and `ShiftOpen` and its companions carry them from the body to the document it is a part of.
  That brackets nest is needed: the match of a parenthesis counts parentheses alone, so `{ a( { ) }`, whose first brace is not closed, is
  scanned as the field `a` with its arguments and answered.
- `QuoteProofs!TypeCorrect`: the amounts, legs, candidates and answer of a request, with the facts `PairsNeverRefuse` needs of
  every candidate leg.
- `QuoteProofs!PairsNeverRefuse`: `PairsAccept`, for every fee a pair may really charge. The lemmas on `amountOut` and `amountIn` show by the bounds
  of integer division that the pair's product with the recorded fee taken off does not fall; that a smaller fee, or a larger one
  with the difference paid in (`Due`), leaves no less in the pair is a second step. The invariant says that every
  priced leg of a V2 pool was made by one of the two.
- `QuoteProofs!LegsAreOfTheirPools`: `LegsOwnPool` for every book. `LegInv` follows each candidate from the layout through both pricing
  rounds: its legs are the pools of its way, in order, each amount is one its pool gave at a block in `readAt` (or, of a pair still unknown after
  `Classify`, which takes a lost reply, its namesake gave), and a leg that waits is fed by the one it waits for.
- `QuoteProofs!FillsAreAsQuoted`: `FillsAsQuoted`, with `CoinPays` (no exact-output trade paid in the coin, section 4) and amounts below the largest
  approval (`WordEnough`, true of any 256-bit amount). The encoded path names the pools the answer was quoted from and no other (the V3 factory has one pool of a name, `OneOfAName`), so the router's walk of
  it, forward or back, is the walk of the answer's legs at the block of execution.
- `QuoteProofs!BestIsFound`: `BestOfBook` for requests whose ways are at most `maxRoutes` (`AllFit`); with more the code keeps the first by the degree of the token between, and
  may lose the best, as its comment says. `SearchInv` says that each candidate is fresh, priced for one round or done,
  and that a done one carries the total its way pays, at the recorded fees, at the block read.

Hypotheses that are not assumptions of a module are in the statement of the theorem, as an implication or as `[]P` of an
environment condition; TLC finds each of them true of the run that checks the property. Each inductive invariant was model-checked on that run
before it was proved (of `ScanInv`, all but membership in the infinite set of parsed fields). Facts that need induction over numbers (`LeastOfNat`, `GreatestOfBounded`) go through a least counterexample, by the
well-foundedness of the natural numbers.

Only model-checked: the liveness properties (out of the prover's reach, as is ENABLED), and `AnsweredAsWritten`,
which speaks of `Documents`: what is written and what it means are defined by recursion over the
document, so a proof would be an induction over data.

## 6. Not modelled

Names, symbols, candles and their formatting; the price relaxation (`priceTokens`); how the native supply is
computed from the genesis alloc, treasury balances and stake; `priceImpact` and the rendering of a quote; the bytes
of calldata; `HandleSwappableTokens`; the resolver packages beyond the names they register (lookups of one store
call each); flags, metrics and shutdown of `graphd`, and the middleware's exemption of health checks, which
names `/health` and `/ready` while the server mounts them under a prefix; WAL replication (an external library); the DeFi
log parsers, which have no caller in the indexer; the WASM stub. `store_memory.go` is modelled for its
reads; it has neither `DropDerived` nor `SetSource`, which the indexer calls. Reorgs of blocks already
read: the code has no step that takes a row back, so rows of an orphaned block stay. Order rows of orders that left the book stay as well: `RefreshOrders` shows it,
and no property could hold of them. A `lastBlock` that cannot be read at a start, which the code takes for 0.

## 7. Plan

1. `Pricing`: `priceTokens` as operators, against reachability and depth in the pool graph,
   over all small graphs; the native supply chain of `supply.go` in `Tokens`.
2. `Mirror` for the valuation pass: the mark as a cursor over priced swaps, once the rows a pass may leave
   unpriced have a book of their own.
