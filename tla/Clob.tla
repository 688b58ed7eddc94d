-------------------------------- MODULE Clob --------------------------------
(***************************************************************************)
(* The native D-Chain source of indexer/clob.go: CLOBSource.Run and poll,  *)
(* which mirror the committed order books and the trade log of the D-Chain *)
(* into Market, Order and Fill rows, beside the EVM poller's own writes to *)
(* the Market rows (writeFill and handleInitializeV4 of indexer.go).       *)
(*                                                                         *)
(* The store locks one call at a time, so a read and the write that        *)
(* follows it are two steps.  A book is the set of its resting orders.     *)
(***************************************************************************)
EXTENDS Integers, FiniteSets, Sequences

CONSTANTS
  Market,        \* pool ids
  Order,         \* order ids, each placed at most once
  Place,         \* Place[o]: the market of order o
  NChains,       \* how many times the D-Chain may be launched
  TradeLog,      \* TradeLog[c]: the trades chain c accepts, as [height, seq]
  MaxHeight,     \* MaxHeight[c]: the height at which chain c stops
  Page,          \* clobTradePage (1000 in the code)
  RelaunchRunning,  \* whether a process that has a cursor may see a relaunch
  EvmWrites,     \* bound on the EVM poller's writes to Market rows
  MaxRefused,    \* bound on the writes of the source that the store refuses
  MaxCrashes     \* bound on restarts of the process

Chains   == 1 .. NChains
Trades(c) == DOMAIN TradeLog[c]
FillIds  == UNION {{TradeLog[c][i] : i \in Trades(c)} : c \in Chains}
NoBook   == {"unlisted"}     \* a Market row no book summary was written to
Books    == (SUBSET Order) \cup {NoBook}
Row      == [present : BOOLEAN, book : Books, tally : Nat]
NoRow    == [present |-> FALSE, book |-> NoBook, tally |-> 0]
NoMarket == "none"

ASSUME ClobConstants ==
  /\ NChains \in Nat \ {0}
  /\ Place \in [Order -> Market]
  /\ NoMarket \notin Market
  /\ TradeLog \in [Chains -> Seq([height : Nat, seq : Nat])]
  /\ MaxHeight \in [Chains -> Nat]
  /\ Page \in Nat \ {0}
  /\ RelaunchRunning \in BOOLEAN
  /\ EvmWrites \in Nat
  /\ MaxRefused \in Nat
  /\ MaxCrashes \in Nat

\* The trade log is in height order and names a trade by height and seq.
ASSUME TradeLogOrder ==
  \A c \in Chains : \A i, j \in Trades(c) :
    i < j => /\ TradeLog[c][i].height <= TradeLog[c][j].height
             /\ TradeLog[c][i] # TradeLog[c][j]

VARIABLES
  chain, height, order,    \* the D-Chain: its launch, its head, each order's state
  pc, queue, cur, summary, copy,   \* the CLOB goroutine and its locals
  from, left, maxH, full,          \* drainTrades' page: its chain, the trades not yet
                                   \* written, its highest height, whether it is full
  lastTradeHeight,                 \* CLOBSource.lastTradeHeight, in memory only
  market, orders, fills,           \* rows; fills[id]: the chain whose trade it holds
  evm, evmMarket, evmCopy,         \* the EVM poller's goroutine, at a Market row
  rolled,                          \* history: fills rolled into each Market row
  refused,                         \* history: trades whose write the store refused
  evmWrites, refusals, crashes

chainVars == <<chain, height, order>>
pollVars  == <<pc, queue, cur, summary, copy>>
pageVars  == <<from, left, maxH, full>>
faultVars == <<refused, refusals, crashes>>
rowVars   == <<market, orders, fills>>
evmVars   == <<evm, evmMarket, evmCopy, rolled, evmWrites>>
vars == <<chainVars, pollVars, pageVars, lastTradeHeight, rowVars, evmVars, faultVars>>

Book(m) == {o \in Order : Place[o] = m /\ order[o] = "resting"}

Idle ==
  /\ pc' = "idle"
  /\ queue' = {} /\ cur' = NoMarket
  /\ summary' = [m \in Market |-> {}]
  /\ copy' = NoRow
  /\ from' = 0 /\ left' = {} /\ maxH' = 0 /\ full' = FALSE

(***************************************************************************)
(* One poll: markets with their orders, then the trade drain               *)
(***************************************************************************)
\* fetchMarkets answered: every market with its book summary, at one height.
FetchMarkets ==
  /\ pc = "idle"
  /\ summary' = [m \in Market |-> Book(m)]
  /\ queue' = Market
  /\ pc' = "markets"
  /\ UNCHANGED <<chainVars, cur, copy, pageVars, lastTradeHeight, rowVars, evmVars, faultVars>>

\* Mutant: the row is read for the market of the step before.
ReadMarketStale(m) ==
  /\ pc = "markets"
  /\ m \in queue
  /\ copy' = market[m]
  /\ queue' = queue \ {m}
  /\ pc' = "merge"
  /\ UNCHANGED <<chainVars, cur, summary, pageVars, lastTradeHeight, rowVars, evmVars, faultVars>>

\* writeMarket up to its GetByType.
ReadMarket(m) ==
  /\ pc = "markets"
  /\ m \in queue
  /\ cur' = m
  /\ copy' = market[m]
  /\ queue' = queue \ {m}
  /\ pc' = "merge"
  /\ UNCHANGED <<chainVars, summary, pageVars, lastTradeHeight, rowVars, evmVars, faultVars>>

\* Mutant: the stored book fields are merged through as well.
WriteMarketOldBook ==
  /\ pc = "merge"
  /\ market' = [market EXCEPT ![cur] =
       [present |-> TRUE, book |-> IF copy.present THEN copy.book ELSE summary[cur],
        tally |-> copy.tally]]
  /\ pc' = "orders"
  /\ UNCHANGED <<chainVars, queue, cur, summary, copy, pageVars, lastTradeHeight, orders, fills,
                 evmVars, faultVars>>

\* writeMarket's SetEntity: the book of the summary, the accrued figures of the copy.
WriteMarket ==
  /\ pc = "merge"
  /\ market' = [market EXCEPT ![cur] =
       [present |-> TRUE, book |-> summary[cur], tally |-> copy.tally]]
  /\ pc' = "orders"
  /\ UNCHANGED <<chainVars, queue, cur, summary, copy, pageVars, lastTradeHeight, orders, fills,
                 evmVars, faultVars>>

\* The store refuses the Market row, and the error is discarded.
MarketRefused ==
  /\ pc = "merge"
  /\ refusals < MaxRefused
  /\ refusals' = refusals + 1
  /\ pc' = "orders"
  /\ UNCHANGED <<chainVars, queue, cur, summary, copy, pageVars, lastTradeHeight, rowVars,
                 evmVars, refused, crashes>>

\* refreshOrders: every order of the book read now is upserted.
RefreshOrders ==
  /\ pc = "orders"
  /\ orders' = orders \cup Book(cur)
  /\ pc' = "markets"
  /\ UNCHANGED <<chainVars, queue, cur, summary, copy, pageVars, lastTradeHeight, market, fills,
                 evmVars, faultVars>>

\* The orders of one market could not be read; poll goes on to the next.
OrdersFail ==
  /\ pc = "orders"
  /\ pc' = "markets"
  /\ UNCHANGED <<chainVars, queue, cur, summary, copy, pageVars, lastTradeHeight, rowVars, evmVars,
                 faultVars>>

MarketsDone ==
  /\ pc = "markets"
  /\ queue = {}
  /\ pc' = "drain"
  /\ UNCHANGED <<chainVars, queue, cur, summary, copy, pageVars, lastTradeHeight, rowVars, evmVars,
                 faultVars>>

\* Mutant: no special case for the first run.
SinceNext == lastTradeHeight + 1

Since == IF lastTradeHeight = 0 THEN 0 ELSE lastTradeHeight + 1

\* dex_get_trades: of the trades at heights s to t, the first Page.
Listed(c, s, t) == {i \in Trades(c) : TradeLog[c][i].height \in s .. t}

FirstPage(c, s, t) ==
  {i \in Listed(c, s, t) : Cardinality({j \in Listed(c, s, t) : j < i}) < Page}

PageRead == FirstPage(chain, Since, height)

\* dex_get_trades answered with trades: the page, and the height it ends at.
GetTrades ==
  /\ pc = "drain"
  /\ PageRead # {}
  /\ from' = chain
  /\ left' = PageRead
  /\ maxH' \in {TradeLog[chain][i].height : i \in PageRead}
  /\ \A i \in PageRead : TradeLog[chain][i].height <= maxH'
  /\ full' = (Cardinality(PageRead) >= Page)
  /\ pc' = "trades"
  /\ UNCHANGED <<chainVars, queue, cur, summary, copy, lastTradeHeight, rowVars, evmVars,
                 faultVars>>

\* writeTrade, in the order of the page: one Fill row, keyed by height and seq.
WriteTrade(i) ==
  /\ pc = "trades"
  /\ i \in left /\ \A j \in left : i <= j
  /\ fills' = [fills EXCEPT ![TradeLog[from][i]] = from]
  /\ left' = left \ {i}
  /\ UNCHANGED <<chainVars, pollVars, from, maxH, full, lastTradeHeight, market, orders,
                 evmVars, faultVars>>

\* The store refuses the row, and SetEntity's error is discarded.
TradeRefused(i) ==
  /\ pc = "trades"
  /\ i \in left /\ \A j \in left : i <= j
  /\ refusals < MaxRefused
  /\ refusals' = refusals + 1
  /\ refused' = refused \cup {<<from, i>>}
  /\ left' = left \ {i}
  /\ UNCHANGED <<chainVars, pollVars, from, maxH, full, lastTradeHeight, rowVars, evmVars,
                 crashes>>

\* Mutant: the cursor moves before the page is written.
PageDoneEarly ==
  /\ pc = "trades"
  /\ lastTradeHeight' = maxH
  /\ UNCHANGED <<chainVars, pollVars, pageVars, rowVars, evmVars, faultVars>>

\* The end of a page: the cursor moves to its highest height and a full page is
\* followed by another; a page with no progress ends the poll.
PageDone ==
  /\ pc = "trades"
  /\ left = {}
  /\ \/ /\ maxH < lastTradeHeight + 1
        /\ Idle
        /\ UNCHANGED lastTradeHeight
     \/ /\ maxH >= lastTradeHeight + 1
        /\ lastTradeHeight' = maxH
        /\ \/ ~full /\ Idle
           \/ /\ full
              /\ pc' = "drain"
              /\ from' = 0 /\ maxH' = 0 /\ full' = FALSE
              /\ UNCHANGED <<queue, cur, summary, copy, left>>
  /\ UNCHANGED <<chainVars, rowVars, evmVars, faultVars>>

\* An empty page, or an error of dex_get_trades, ends the poll.
DrainEnds ==
  /\ pc = "drain"
  /\ Idle
  /\ UNCHANGED <<chainVars, lastTradeHeight, rowVars, evmVars, faultVars>>

(***************************************************************************)
(* The EVM poller at a Market row: read, then write back                   *)
(***************************************************************************)
EvmRead(m) ==
  /\ evm = "idle"
  /\ evmWrites < EvmWrites
  /\ evm' = "holding"
  /\ evmMarket' = m
  /\ evmCopy' = market[m]
  /\ evmWrites' = evmWrites + 1
  /\ UNCHANGED <<chainVars, pollVars, pageVars, lastTradeHeight, rowVars, rolled, faultVars>>

EvmDone ==
  /\ evm' = "idle"
  /\ evmMarket' = NoMarket
  /\ evmCopy' = NoRow

\* writeFill: the whole row it read goes back with one more trade.
EvmWriteFill ==
  /\ evm = "holding"
  /\ market' = [market EXCEPT ![evmMarket] =
       [present |-> TRUE, book |-> evmCopy.book, tally |-> evmCopy.tally + 1]]
  /\ rolled' = [rolled EXCEPT ![evmMarket] = @ + 1]
  /\ EvmDone
  /\ UNCHANGED <<chainVars, pollVars, pageVars, lastTradeHeight, orders, fills, evmWrites, faultVars>>

\* handleInitializeV4: a new row, with only the accrued figures of the copy.
EvmInitialize ==
  /\ evm = "holding"
  /\ market' = [market EXCEPT ![evmMarket] =
       [present |-> TRUE, book |-> NoBook, tally |-> evmCopy.tally]]
  /\ EvmDone
  /\ UNCHANGED <<chainVars, pollVars, pageVars, lastTradeHeight, orders, fills, rolled, evmWrites,
                 faultVars>>

(***************************************************************************)
(* The D-Chain and the process                                             *)
(***************************************************************************)
Rest(o) ==
  /\ order[o] = "new"
  /\ order' = [order EXCEPT ![o] = "resting"]
  /\ UNCHANGED <<chain, height, pollVars, pageVars, lastTradeHeight, rowVars, evmVars, faultVars>>

\* The order is filled or cancelled.
Leave(o) ==
  /\ order[o] = "resting"
  /\ order' = [order EXCEPT ![o] = "gone"]
  /\ UNCHANGED <<chain, height, pollVars, pageVars, lastTradeHeight, rowVars, evmVars, faultVars>>

Accept ==
  /\ height < MaxHeight[chain]
  /\ height' = height + 1
  /\ UNCHANGED <<chain, order, pollVars, pageVars, lastTradeHeight, rowVars, evmVars, faultVars>>

Relaunch ==
  /\ chain < NChains
  /\ RelaunchRunning \/ (lastTradeHeight = 0 /\ pc # "trades")
  /\ chain' = chain + 1
  /\ height' = 0
  /\ order' = [o \in Order |-> IF order[o] = "resting" THEN "gone" ELSE order[o]]
  /\ UNCHANGED <<pollVars, pageVars, lastTradeHeight, rowVars, evmVars, faultVars>>

\* Only the store survives; a poll in flight, in either goroutine, is lost.
Crash ==
  /\ crashes < MaxCrashes
  /\ crashes' = crashes + 1
  /\ lastTradeHeight' = 0
  /\ Idle
  /\ EvmDone
  /\ UNCHANGED <<chainVars, rowVars, rolled, evmWrites, refused, refusals>>

Init ==
  /\ chain = 1 /\ height = 0
  /\ order = [o \in Order |-> "new"]
  /\ pc = "idle" /\ queue = {} /\ cur = NoMarket
  /\ summary = [m \in Market |-> {}]
  /\ copy = NoRow
  /\ from = 0 /\ left = {} /\ maxH = 0 /\ full = FALSE
  /\ lastTradeHeight = 0
  /\ market = [m \in Market |-> NoRow]
  /\ orders = {}
  /\ fills = [id \in FillIds |-> 0]
  /\ evm = "idle" /\ evmMarket = NoMarket /\ evmCopy = NoRow
  /\ rolled = [m \in Market |-> 0]
  /\ refused = {}
  /\ evmWrites = 0 /\ refusals = 0 /\ crashes = 0

Poll ==
  \/ FetchMarkets
  \/ \E m \in Market : ReadMarket(m)
  \/ WriteMarket \/ MarketRefused \/ RefreshOrders \/ OrdersFail \/ MarketsDone
  \/ GetTrades \/ DrainEnds \/ PageDone
  \/ \E i \in left : WriteTrade(i) \/ TradeRefused(i)

Evm == (\E m \in Market : EvmRead(m)) \/ EvmWriteFill \/ EvmInitialize

DChain == (\E o \in Order : Rest(o) \/ Leave(o)) \/ Accept \/ Relaunch

Next == Poll \/ Evm \/ DChain \/ Crash

Spec == Init /\ [][Next]_vars

\* The ticker keeps firing, a handler that read a row writes it back, and the
\* D-Chain's read RPC does not fail for ever.
Fairness ==
  /\ WF_vars(Poll)
  /\ WF_vars(EvmWriteFill \/ EvmInitialize)
  /\ SF_vars(RefreshOrders)
  /\ SF_vars(GetTrades)

FairSpec == Spec /\ Fairness

(***************************************************************************)
(* Properties                                                              *)
(***************************************************************************)
\* Type correctness of the D-Chain, the source and the rows both pollers write.
TypeOK ==
  /\ chain \in Chains /\ height \in Nat
  /\ order \in [Order -> {"new", "resting", "gone"}]
  /\ pc \in {"idle", "markets", "merge", "orders", "drain", "trades"}
  /\ queue \subseteq Market /\ cur \in Market \cup {NoMarket}
  /\ pc \in {"merge", "orders"} => cur \in Market
  /\ summary \in [Market -> SUBSET Order] /\ copy \in Row
  /\ lastTradeHeight \in Nat
  /\ pc = "trades" => from \in Chains /\ left \subseteq Trades(from)
  /\ pc # "trades" => left = {}
  /\ maxH \in Nat /\ full \in BOOLEAN
  /\ market \in [Market -> Row] /\ orders \subseteq Order
  /\ fills \in [FillIds -> Chains \cup {0}]
  /\ evm \in {"idle", "holding"} /\ evmCopy \in Row
  /\ evmMarket \in Market \cup {NoMarket}
  /\ evm = "holding" => evmMarket \in Market
  /\ rolled \in [Market -> Nat]
  /\ refused \subseteq Chains \X Nat
  /\ evmWrites \in 0 .. EvmWrites /\ refusals \in 0 .. MaxRefused /\ crashes \in 0 .. MaxCrashes

\* A trade that was written, or whose write the store refused.
Handled(i) == fills[TradeLog[chain][i]] = chain \/ <<chain, i>> \in refused

\* drainTrades: "this never skips a fill: a later block's fills (same or greater
\* height) are picked up next page".  Every trade of the D-Chain at or below the
\* cursor has been written, or refused by the store.  False of the code: the cursor
\* moves to the height a full page ends in, and the next page starts above it.
NeverSkipsFill ==
  lastTradeHeight > 0 =>
    \A i \in Trades(chain) : TradeLog[chain][i].height <= lastTradeHeight => Handled(i)

\* The trades that no page the drain can ask for may cut off: a page that holds a
\* trade of their height holds them too.  The first trade of a height is always one;
\* drainTrades asks for no page from height 1, since a cursor of 0 reads from 0.
NeverCutOff == [c \in Chains |->
  {i \in Trades(c) :
     \A s \in (0 .. MaxHeight[c]) \ {1}, t \in 0 .. MaxHeight[c] :
       (\E k \in FirstPage(c, s, t) : TradeLog[c][k].height = TradeLog[c][i].height)
         => i \in FirstPage(c, s, t)}]

\* What drainTrades does keep: a trade at or below the cursor that was not handled is
\* one that some page cuts off from the earlier trades of its height.
SkipsOnlyCutOff ==
  lastTradeHeight > 0 =>
    \A i \in NeverCutOff[chain] :
      TradeLog[chain][i].height <= lastTradeHeight => Handled(i)

\* The mirrored book: the trades of the running chain that no page cuts off.
Mirrored == INSTANCE Mirror WITH
  Base   <- 0,
  book   <- chain,
  due    <- [i \in NeverCutOff[chain] |-> TradeLog[chain][i].height],
  has    <- {i \in Trades(chain) : Handled(i)},
  cursor <- lastTradeHeight

\* No fill that was written is lost or goes back to an older chain's, whatever pages,
\* refused writes, restarts and EVM writes come between, and the cursor passes a height
\* only with all its trades that no page cuts off: the source implements a mirror.
TradesMirrored == Mirrored!Spec

\* CLOBSource: "the cursor is an optimization, not correctness".  Every trade the
\* last chain accepts, but for those a page cuts off, ends up as a Fill row of that
\* chain, for good, unless the store refused it.
TradesIngested ==
  <>[](\A i \in NeverCutOff[chain] : TradeLog[chain][i].height <= height => Handled(i))

\* writeMarket: "the book moves, stale bid/ask/depth must not linger".  Whatever
\* the EVM poller writes back meanwhile, each Market row ends up with the book
\* that is on the D-Chain.
BookRefreshed ==
  <>[](\A m \in Market : market[m].present /\ market[m].book = Book(m))

\* writeMarket: "a CLOB book refresh never clobbers an EVM-accrued volume".
\* Every fill rolled into a Market row is still counted there.
VolumeKept == \A m \in Market : market[m].tally = rolled[m]

=============================================================================
