----------------------------- MODULE ClobProofs -----------------------------
(***************************************************************************)
(* What Clob guarantees for every set of markets and orders, every trade   *)
(* log, page size and number of restarts, refused writes and EVM writes.   *)
(***************************************************************************)
EXTENDS Clob, FiniteSetTheorems, TLAPS

\* What a Market row is made of.
LEMMA RowParts ==
  /\ NoRow \in Row /\ NoBook \in Books
  /\ \A b \in SUBSET Order : b \in Books
  /\ \A r \in Row : r.tally \in Nat /\ r.book \in Books
  /\ \A b \in Books, t \in Nat : [present |-> TRUE, book |-> b, tally |-> t] \in Row
<1>1. NoBook \in Books /\ (\A b \in SUBSET Order : b \in Books)
  BY DEF Books
<1> QED
  BY <1>1 DEF Row, NoRow

\* A position of the trade log holds a trade, and a trade names a Fill.
LEMMA TradeParts ==
  \A c \in Chains : \A i \in Trades(c) :
    /\ TradeLog[c][i].height \in Nat
    /\ TradeLog[c][i] \in FillIds
<1> SUFFICES ASSUME NEW c \in Chains, NEW i \in Trades(c)
             PROVE  TradeLog[c][i].height \in Nat /\ TradeLog[c][i] \in FillIds
  OBVIOUS
<1>1. TradeLog[c] \in Seq([height : Nat, seq : Nat])
  BY ClobConstants
<1>2. TradeLog[c][i] \in [height : Nat, seq : Nat]
  <2>1. i \in DOMAIN TradeLog[c]
    BY DEF Trades
  <2>2. \A S : \A t \in Seq(S) : \A k \in DOMAIN t : t[k] \in S
    OBVIOUS
  <2> QED
    BY <1>1, <2>1, <2>2
<1>3. TradeLog[c][i] \in FillIds
  BY DEF FillIds
<1> QED
  BY <1>2, <1>3

\* Every step of the CLOB poll, of the EVM poller at a Market row, of the
\* D-Chain and of a restart keeps every variable's type.
LEMMA TypeStep == TypeOK /\ [Next]_vars => TypeOK'
<1> SUFFICES ASSUME TypeOK, [Next]_vars PROVE TypeOK'
  OBVIOUS
<1> USE ClobConstants DEF TypeOK,
        chainVars, pollVars, pageVars, rowVars, evmVars, faultVars, vars
<1>0. \A m : Book(m) \subseteq Order
  BY DEF Book
<1>1. CASE FetchMarkets
  BY <1>0, <1>1 DEF FetchMarkets
<1>2. ASSUME NEW m \in Market, ReadMarket(m) PROVE TypeOK'
  BY <1>2 DEF ReadMarket
<1>3. CASE WriteMarket
  BY <1>3, RowParts DEF WriteMarket
<1>18. CASE MarketRefused
  BY <1>18 DEF MarketRefused
<1>4. CASE RefreshOrders
  BY <1>0, <1>4 DEF RefreshOrders
<1>5. CASE OrdersFail \/ MarketsDone
  BY <1>5 DEF OrdersFail, MarketsDone
<1>6. CASE GetTrades
  <2>1. PageRead \subseteq Trades(chain)
    BY DEF PageRead, FirstPage, Listed
  <2>2. maxH' \in Nat
    BY <1>6, <2>1, TradeParts DEF GetTrades
  <2>3. full' \in BOOLEAN
    BY <1>6 DEF GetTrades
  <2>4. from' \in Chains /\ left' \subseteq Trades(from')
    BY <1>6, <2>1 DEF GetTrades
  <2>5. pc' = "trades" /\ UNCHANGED <<chainVars, queue, cur, summary, copy, lastTradeHeight,
                                    rowVars, evmVars, faultVars>>
    BY <1>6 DEF GetTrades
  <2> QED
    BY <2>2, <2>3, <2>4, <2>5
<1>16. ASSUME NEW i \in left, WriteTrade(i) \/ TradeRefused(i) PROVE TypeOK'
  <2>1. pc = "trades" /\ i \in Trades(from) /\ from \in Chains /\ i \in Nat
    <3>1. pc = "trades" /\ i \in Trades(from) /\ from \in Chains
      BY <1>16 DEF WriteTrade, TradeRefused
    <3>2. i \in Nat
      BY <3>1 DEF Trades
    <3> QED
      BY <3>1, <3>2
  <2>2. fills' \in [FillIds -> Chains \cup {0}]
    <3>1. TradeLog[from][i] \in FillIds
      BY <2>1, TradeParts
    <3> QED
      BY <1>16, <2>1, <3>1 DEF WriteTrade, TradeRefused
  <2>3. refused' \subseteq Chains \X Nat
    BY <1>16, <2>1 DEF WriteTrade, TradeRefused
  <2>4. from' \in Chains /\ left' \subseteq Trades(from')
    BY <1>16, <2>1 DEF WriteTrade, TradeRefused
  <2>5. refusals' \in 0 .. MaxRefused
    BY <1>16 DEF WriteTrade, TradeRefused
  <2>6. UNCHANGED <<chainVars, pollVars, maxH, full, lastTradeHeight, market, orders, evmVars,
                    crashes>>
    BY <1>16 DEF WriteTrade, TradeRefused
  <2> QED
    BY <2>1, <2>2, <2>3, <2>4, <2>5, <2>6
<1>17. CASE PageDone
  <2>1. lastTradeHeight' \in Nat
    BY <1>17 DEF PageDone
  <2>2. CASE Idle
    BY <1>17, <2>1, <2>2, RowParts DEF PageDone, Idle
  <2>3. CASE ~Idle
    <3>1. /\ pc' = "drain" /\ left' = {} /\ maxH' = 0 /\ full' = FALSE
          /\ UNCHANGED <<chainVars, queue, cur, summary, copy, rowVars, evmVars, faultVars>>
      BY <1>17, <2>3 DEF PageDone
    <3> QED
      BY <2>1, <3>1
  <2> QED
    BY <2>2, <2>3
<1>7. CASE DrainEnds
  BY <1>7, RowParts DEF DrainEnds, Idle
<1>8. ASSUME NEW m \in Market, EvmRead(m) PROVE TypeOK'
  BY <1>8 DEF EvmRead
<1>9. CASE EvmWriteFill
  <2>1. market' \in [Market -> Row]
    <3>1. [present |-> TRUE, book |-> evmCopy.book, tally |-> evmCopy.tally + 1] \in Row
      <4>1. evmCopy.book \in Books /\ evmCopy.tally \in Nat
        BY RowParts
      <4>2. evmCopy.tally + 1 \in Nat
        BY <4>1
      <4> HIDE DEF TypeOK
      <4> QED
        BY <4>1, <4>2, RowParts
    <3> QED
      BY <1>9, <3>1 DEF EvmWriteFill
  <2>2. rolled' \in [Market -> Nat]
    BY <1>9 DEF EvmWriteFill
  <2>3. evmCopy' \in Row
    BY <1>9, RowParts DEF EvmWriteFill, EvmDone
  <2> QED
    BY <1>9, <2>1, <2>2, <2>3 DEF EvmWriteFill, EvmDone
<1>10. CASE EvmInitialize
  BY <1>10, RowParts DEF EvmInitialize, EvmDone
<1>11. ASSUME NEW o \in Order, Rest(o) \/ Leave(o) PROVE TypeOK'
  BY <1>11 DEF Rest, Leave
<1>12. CASE Accept
  BY <1>12 DEF Accept
<1>13. CASE Relaunch
  <2>1. chain' \in Chains /\ height' \in Nat /\ order' \in [Order -> {"new", "resting", "gone"}]
    BY <1>13 DEF Relaunch, Chains
  <2>2. UNCHANGED <<pollVars, pageVars, lastTradeHeight, rowVars, evmVars, faultVars>>
    BY <1>13 DEF Relaunch
  <2> QED
    BY <2>1, <2>2
<1>14. CASE Crash
  <2>1. /\ pc' = "idle" /\ queue' = {} /\ cur' = NoMarket /\ summary' = [m \in Market |-> {}]
        /\ copy' = NoRow /\ left' = {} /\ maxH' = 0 /\ full' = FALSE /\ lastTradeHeight' = 0
    BY <1>14 DEF Crash, Idle
  <2>2. /\ evm' = "idle" /\ evmMarket' = NoMarket /\ evmCopy' = NoRow
        /\ UNCHANGED <<chainVars, rowVars, rolled, evmWrites, refused, refusals>>
    BY <1>14 DEF Crash, EvmDone
  <2>3. crashes' \in 0 .. MaxCrashes
    BY <1>14 DEF Crash
  <2>4. copy' \in Row /\ evmCopy' \in Row /\ summary' \in [Market -> SUBSET Order]
    BY <2>1, <2>2, RowParts
  <2> QED
    BY <2>1, <2>2, <2>3, <2>4
<1>15. CASE UNCHANGED vars
  BY <1>15
<1> QED
  BY <1>1, <1>2, <1>3, <1>4, <1>5, <1>6, <1>7, <1>8, <1>9, <1>10, <1>11, <1>12, <1>13,
     <1>14, <1>15, <1>16, <1>17, <1>18 DEF Next, Poll, Evm, DChain

\* Every variable of the CLOB source, the rows it shares with the EVM poller
\* and the D-Chain keeps its type through every interleaving and restart.
THEOREM TypeCorrect == Spec => []TypeOK
<1>1. Init => TypeOK
  <2> SUFFICES ASSUME Init PROVE TypeOK
    OBVIOUS
  <2>1. /\ chain \in Chains /\ copy \in Row /\ evmCopy \in Row
        /\ market \in [Market -> Row] /\ fills \in [FillIds -> Chains \cup {0}]
    BY ClobConstants, RowParts DEF Init, Chains
  <2>2. /\ evmWrites \in 0 .. EvmWrites /\ refusals \in 0 .. MaxRefused
        /\ crashes \in 0 .. MaxCrashes /\ refused \subseteq Chains \X Nat
    BY ClobConstants DEF Init
  <2> QED
    BY <2>1, <2>2 DEF Init, TypeOK
<1> QED
  BY <1>1, TypeStep, PTL DEF Spec

-----------------------------------------------------------------------------
(***************************************************************************)
(* Pages.  A page is a prefix of its listing, so it can cut a trade off    *)
(* only from earlier trades of the same height.                            *)
(***************************************************************************)
\* What stands before a trade of a page stands in it.
LEMMA PagePrefix ==
  ASSUME NEW c \in Chains, NEW s, NEW t,
         NEW k \in FirstPage(c, s, t), NEW i \in Listed(c, s, t), i <= k
  PROVE  i \in FirstPage(c, s, t)
<1> DEFINE Before(n) == {j \in Listed(c, s, t) : j < n}
<1>1. TradeLog[c] \in Seq([height : Nat, seq : Nat])
  BY ClobConstants
<1>2. Listed(c, s, t) \subseteq 1 .. Len(TradeLog[c]) /\ Len(TradeLog[c]) \in Nat
  BY <1>1 DEF Listed, Trades
<1>3. IsFiniteSet(Before(k))
  <2>1. IsFiniteSet(1 .. Len(TradeLog[c]))
    BY <1>2, FS_Interval
  <2> QED
    BY <1>2, <2>1, FS_Subset
<1>4. k \in 1 .. Len(TradeLog[c]) /\ i \in 1 .. Len(TradeLog[c])
  BY <1>2 DEF FirstPage
<1>5. Before(i) \subseteq Before(k)
  BY <1>2, <1>4
<1>6. IsFiniteSet(Before(i)) /\ Cardinality(Before(i)) <= Cardinality(Before(k))
  BY <1>3, <1>5, FS_Subset
<1>7. Cardinality(Before(i)) \in Nat /\ Cardinality(Before(k)) \in Nat
  BY <1>3, <1>6, FS_CardinalityType
<1>8. Cardinality(Before(k)) < Page /\ Page \in Nat
  BY ClobConstants DEF FirstPage
<1>9. Cardinality(Before(i)) < Page
  BY <1>6, <1>7, <1>8
<1> QED
  BY <1>9 DEF FirstPage

\* Whatever the log and the page size, no page cuts off the first trade of a height.
THEOREM FirstOfHeightKept ==
  ASSUME NEW c \in Chains, NEW i \in Trades(c),
         \A j \in Trades(c) : TradeLog[c][j].height = TradeLog[c][i].height => i <= j
  PROVE  i \in NeverCutOff[c]
<1> SUFFICES ASSUME NEW s \in (0 .. MaxHeight[c]) \ {1}, NEW t \in 0 .. MaxHeight[c],
                    NEW k \in FirstPage(c, s, t),
                    TradeLog[c][k].height = TradeLog[c][i].height
             PROVE  i \in FirstPage(c, s, t)
  BY DEF NeverCutOff
<1>1. k \in Trades(c) /\ TradeLog[c][k].height \in s .. t
  BY DEF FirstPage, Listed
<1>2. i \in Listed(c, s, t) /\ i <= k
  BY <1>1 DEF Listed
<1> QED
  BY <1>2, PagePrefix

-----------------------------------------------------------------------------
(***************************************************************************)
(* The drain passes over no trade but one that a page cuts off, when a     *)
(* relaunch falls in a restart, with the cursor at 0 and no page in hand.  *)
(***************************************************************************)
\* A page in hand is the running chain's, and all that is due up to its end is
\* handled or still to be written.
PageInv ==
  pc = "trades" =>
    /\ from = chain /\ maxH <= height
    /\ \A i \in NeverCutOff[chain] :
         TradeLog[chain][i].height <= maxH => Handled(i) \/ i \in left

\* SkipsOnlyCutOff is inductive together with: the cursor is a height the chain
\* has reached, and what is known of the page in hand.
SkipInv ==
  /\ lastTradeHeight <= height /\ height <= MaxHeight[chain]
  /\ SkipsOnlyCutOff
  /\ PageInv

\* The trades that no page cuts off are trades of their chain.
LEMMA KeptParts ==
  \A c \in Chains : \A i \in NeverCutOff[c] :
    i \in Trades(c) /\ TradeLog[c][i].height \in Nat /\ TradeLog[c][i] \in FillIds
BY TradeParts DEF NeverCutOff

\* A page holds all that is due above the cursor up to its end.
LEMMA GetKeeps ==
  ASSUME TypeOK, SkipInv, GetTrades
  PROVE  SkipInv'
<1>1. /\ UNCHANGED <<chain, height, fills, refused, lastTradeHeight>>
      /\ chain \in Chains /\ height \in Nat /\ lastTradeHeight \in Nat
      /\ lastTradeHeight <= height /\ height <= MaxHeight[chain] /\ MaxHeight[chain] \in Nat
  BY ClobConstants DEF GetTrades, chainVars, rowVars, faultVars, TypeOK, SkipInv
<1>2. PICK top \in PageRead : TradeLog[chain][top].height = maxH'
  BY DEF GetTrades
<1>3. /\ top \in Trades(chain) /\ maxH' \in Since .. height
      /\ top \in FirstPage(chain, Since, height)
  BY <1>2 DEF PageRead, FirstPage, Listed
<1>4. maxH' \in Nat /\ Since \in Nat /\ Since # 1 /\ Since <= height /\ maxH' <= height
  BY <1>1, <1>3 DEF Since
<1>5. from' = chain /\ left' = FirstPage(chain, Since, height) /\ pc' = "trades"
  BY DEF GetTrades, PageRead
<1>6. ASSUME NEW i \in NeverCutOff[chain], TradeLog[chain][i].height <= maxH'
      PROVE  Handled(i) \/ i \in left'
  <2>1. i \in Trades(chain) /\ TradeLog[chain][i].height \in Nat
    BY <1>1, KeptParts
  <2>2. CASE lastTradeHeight > 0 /\ TradeLog[chain][i].height <= lastTradeHeight
    BY <2>2 DEF SkipInv, SkipsOnlyCutOff
  <2>3. CASE ~(lastTradeHeight > 0 /\ TradeLog[chain][i].height <= lastTradeHeight)
    <3>1. TradeLog[chain][i].height >= Since
      BY <1>1, <2>1, <2>3 DEF Since
    <3>2. i \in Listed(chain, Since, height)
      BY <1>1, <1>4, <1>6, <2>1, <3>1 DEF Listed
    <3>3. CASE TradeLog[chain][i].height = maxH'
      <4>1. Since \in (0 .. MaxHeight[chain]) \ {1} /\ height \in 0 .. MaxHeight[chain]
        BY <1>1, <1>4
      <4> QED
        BY <1>1, <1>2, <1>3, <1>5, <3>3, <4>1 DEF NeverCutOff
    <3>4. CASE TradeLog[chain][i].height < maxH'
      <4>1. ~(top < i)
        BY <1>1, <1>2, <1>3, <1>4, <2>1, <3>4, TradeLogOrder
      <4>2. i \in Nat /\ top \in Nat
        BY <1>1, <1>3, <2>1, ClobConstants DEF Trades
      <4>3. i <= top
        BY <4>1, <4>2
      <4> QED
        BY <1>1, <1>3, <1>5, <3>2, <4>3, PagePrefix
    <3> QED
      BY <1>4, <1>6, <2>1, <3>3, <3>4
  <2> QED
    BY <2>2, <2>3
<1>7. \A i : Handled(i)' <=> Handled(i)
  BY <1>1 DEF Handled
<1>8. SkipsOnlyCutOff'
  BY <1>1, <1>7 DEF SkipInv, SkipsOnlyCutOff
<1>9. PageInv'
  BY <1>1, <1>4, <1>5, <1>6, <1>7 DEF PageInv
<1> QED
  BY <1>1, <1>8, <1>9 DEF SkipInv

\* A step of the page handles one trade, and takes no Fill row from the running chain.
LEMMA WriteHandles ==
  ASSUME TypeOK, SkipInv, NEW i \in left, WriteTrade(i) \/ TradeRefused(i)
  PROVE  /\ Handled(i)'
         /\ \A k \in Trades(chain) : Handled(k) => Handled(k)'
         /\ left' = left \ {i}
         /\ UNCHANGED <<chain, height, pc, from, maxH, lastTradeHeight>>
<1>1. pc = "trades" /\ from = chain /\ chain \in Chains /\ i \in Trades(chain)
  BY DEF WriteTrade, TradeRefused, SkipInv, PageInv, TypeOK
<1>2. left' = left \ {i} /\ UNCHANGED <<chain, height, pc, from, maxH, lastTradeHeight>>
  BY DEF WriteTrade, TradeRefused, chainVars, pollVars
<1>3. \A k \in Trades(chain) : TradeLog[chain][k] \in FillIds
  BY <1>1, TradeParts
<1>4. fills \in [FillIds -> Chains \cup {0}]
  BY DEF TypeOK
<1>5. CASE WriteTrade(i)
  <2>1. fills' = [fills EXCEPT ![TradeLog[chain][i]] = chain] /\ refused' = refused
    BY <1>1, <1>5 DEF WriteTrade, faultVars
  <2> QED
    BY <1>1, <1>2, <1>3, <1>4, <2>1 DEF Handled
<1>6. CASE TradeRefused(i)
  <2>1. refused' = refused \cup {<<chain, i>>} /\ fills' = fills
    BY <1>1, <1>6 DEF TradeRefused, rowVars
  <2> QED
    BY <1>1, <1>2, <2>1 DEF Handled
<1> QED
  BY <1>5, <1>6

\* A step of the page leaves nothing due behind.
LEMMA WriteKeeps ==
  ASSUME TypeOK, SkipInv, NEW i \in left, WriteTrade(i) \/ TradeRefused(i)
  PROVE  SkipInv'
<1>1. /\ Handled(i)'
      /\ \A k \in Trades(chain) : Handled(k) => Handled(k)'
      /\ left' = left \ {i}
      /\ UNCHANGED <<chain, height, pc, from, maxH, lastTradeHeight>>
  BY WriteHandles
<1>2. \A k \in NeverCutOff[chain] : k \in Trades(chain)
  BY KeptParts DEF TypeOK
<1>3. SkipsOnlyCutOff'
  BY <1>1, <1>2 DEF SkipInv, SkipsOnlyCutOff
<1>4. PageInv'
  BY <1>1, <1>2 DEF SkipInv, PageInv
<1> QED
  BY <1>1, <1>3, <1>4 DEF SkipInv

\* The cursor moves to the end of a page when all of it is written.
LEMMA DoneKeeps ==
  ASSUME TypeOK, SkipInv, PageDone
  PROVE  /\ SkipInv' /\ UNCHANGED <<chain, height, fills, refused>>
         /\ lastTradeHeight' = lastTradeHeight \/ lastTradeHeight' > lastTradeHeight
<1>1. UNCHANGED <<chain, height, fills, refused>> /\ pc' # "trades"
  BY DEF PageDone, Idle, chainVars, rowVars, faultVars
<1>2. \A k : Handled(k)' <=> Handled(k)
  BY <1>1 DEF Handled
<1>3. PageInv'
  BY <1>1 DEF PageInv
<1>4. pc = "trades" /\ left = {} /\ maxH \in Nat /\ lastTradeHeight \in Nat /\ maxH <= height
  BY DEF PageDone, SkipInv, PageInv, TypeOK
<1>5. CASE lastTradeHeight' = lastTradeHeight
  <2>1. SkipsOnlyCutOff'
    BY <1>1, <1>2, <1>5 DEF SkipInv, SkipsOnlyCutOff
  <2> QED
    BY <1>1, <1>3, <1>5, <2>1 DEF SkipInv
<1>6. CASE lastTradeHeight' = maxH /\ maxH >= lastTradeHeight + 1
  <2>1. \A k \in NeverCutOff[chain] : TradeLog[chain][k].height <= maxH => Handled(k)
    BY <1>4 DEF SkipInv, PageInv
  <2>2. SkipsOnlyCutOff'
    BY <1>1, <1>2, <1>6, <2>1 DEF SkipsOnlyCutOff
  <2>3. lastTradeHeight' <= height' /\ lastTradeHeight' > lastTradeHeight
    BY <1>1, <1>4, <1>6
  <2> QED
    BY <1>1, <1>3, <2>2, <2>3 DEF SkipInv
<1> QED
  BY <1>5, <1>6 DEF PageDone

\* The steps that touch neither the page, the cursor nor the D-Chain's head.
Aside ==
  Next /\ ~GetTrades /\ ~PageDone /\ ~Accept /\ ~Crash /\ ~Relaunch
       /\ ~(\E i \in left : WriteTrade(i) \/ TradeRefused(i))

LEMMA AsideKeeps ==
  ASSUME Aside
  PROVE  /\ UNCHANGED <<chain, height, fills, refused, lastTradeHeight>>
         /\ pc' # "trades" \/ (UNCHANGED <<pc, from, left, maxH>>)
<1>1. CASE DrainEnds
  BY <1>1 DEF DrainEnds, Idle, chainVars, rowVars, faultVars
<1>2. CASE Evm
  BY <1>2 DEF Evm, EvmRead, EvmWriteFill, EvmInitialize, chainVars, rowVars, faultVars,
     pollVars, pageVars
<1>3. CASE \E o \in Order : Rest(o) \/ Leave(o)
  BY <1>3 DEF Rest, Leave, rowVars, faultVars, pollVars, pageVars
<1>4. CASE FetchMarkets \/ (\E m \in Market : ReadMarket(m)) \/ WriteMarket \/ MarketRefused
  BY <1>4 DEF FetchMarkets, ReadMarket, WriteMarket, MarketRefused, chainVars, rowVars, faultVars
<1>5. CASE RefreshOrders \/ OrdersFail \/ MarketsDone
  BY <1>5 DEF RefreshOrders, OrdersFail, MarketsDone, chainVars, rowVars, faultVars
<1> QED
  BY <1>1, <1>2, <1>3, <1>4, <1>5 DEF Aside, Next, Poll, DChain

\* Every step keeps the cursor at or below the head and below no missing trade.
LEMMA SkipInvariant == ~RelaunchRunning => (Spec => []SkipInv)
<1> SUFFICES ASSUME ~RelaunchRunning PROVE Spec => []SkipInv
  OBVIOUS
<1>1. Init => SkipInv
  BY ClobConstants DEF Init, SkipInv, SkipsOnlyCutOff, PageInv, Chains
<1>2. TypeOK /\ SkipInv /\ [Next]_vars => SkipInv'
  <2> SUFFICES ASSUME TypeOK, SkipInv, [Next]_vars PROVE SkipInv'
    OBVIOUS
  <2>1. CASE GetTrades
    BY <2>1, GetKeeps
  <2>2. CASE \E i \in left : WriteTrade(i) \/ TradeRefused(i)
    BY <2>2, WriteKeeps
  <2>3. CASE PageDone
    BY <2>3, DoneKeeps
  <2>4. CASE Accept
    <3>1. /\ height' = height + 1 /\ height \in Nat /\ lastTradeHeight \in Nat
          /\ height < MaxHeight[chain] /\ MaxHeight[chain] \in Nat /\ maxH \in Nat
          /\ UNCHANGED <<chain, fills, refused, lastTradeHeight, pc, from, left, maxH>>
      BY <2>4, ClobConstants
         DEF Accept, rowVars, faultVars, pollVars, pageVars, TypeOK
    <3>2. lastTradeHeight' <= height' /\ height' <= MaxHeight[chain]' /\ (maxH <= height => maxH' <= height')
      BY <3>1 DEF SkipInv
    <3>3. \A k : Handled(k)' <=> Handled(k)
      BY <3>1 DEF Handled
    <3> QED
      BY <3>1, <3>2, <3>3 DEF SkipInv, SkipsOnlyCutOff, PageInv
  <2>5. CASE Crash
    <3>1. /\ lastTradeHeight' = 0 /\ pc' = "idle" /\ height \in Nat
          /\ UNCHANGED <<chain, height>>
      BY <2>5 DEF Crash, Idle, chainVars, TypeOK
    <3> QED
      BY <3>1 DEF SkipInv, SkipsOnlyCutOff, PageInv
  <2>6. CASE Relaunch
    <3>1. /\ lastTradeHeight' = 0 /\ pc' # "trades" /\ height' = 0 /\ chain' \in Chains
      BY <2>6, ClobConstants DEF Relaunch, pollVars, TypeOK, Chains
    <3>2. MaxHeight[chain'] \in Nat
      BY <3>1, ClobConstants
    <3> QED
      BY <3>1, <3>2 DEF SkipInv, SkipsOnlyCutOff, PageInv
  <2>7. CASE UNCHANGED <<chain, height, fills, refused, lastTradeHeight>>
               /\ (pc' # "trades" \/ UNCHANGED <<pc, from, left, maxH>>)
    <3>1. \A k : Handled(k)' <=> Handled(k)
      BY <2>7 DEF Handled
    <3> QED
      BY <2>7, <3>1 DEF SkipInv, SkipsOnlyCutOff, PageInv
  <2>8. CASE Aside
    BY <2>7, <2>8, AsideKeeps
  <2>9. CASE UNCHANGED vars
    BY <2>7, <2>9 DEF vars, chainVars, rowVars, faultVars, pollVars, pageVars
  <2> QED
    BY <2>1, <2>2, <2>3, <2>4, <2>5, <2>6, <2>8, <2>9 DEF Aside
<1> QED
  BY <1>1, <1>2, TypeCorrect, PTL DEF Spec

\* drainTrades: "this never skips a fill" holds of every trade that no page can cut off
\* from the earlier trades of its height, the first of each height among them
\* (FirstOfHeightKept): for every log, page size, number of restarts and refused writes
\* and interleaving with the EVM poller, such a trade at or below the cursor has its
\* Fill row of the running chain or was refused by the store, provided the D-Chain is
\* relaunched only while the cursor is at 0 and no page is in hand.
THEOREM DrainSkipsOnlyCutOff == ~RelaunchRunning => (Spec => []SkipsOnlyCutOff)
<1>1. SkipInv => SkipsOnlyCutOff
  BY DEF SkipInv
<1> QED
  BY <1>1, SkipInvariant, PTL

-----------------------------------------------------------------------------
(***************************************************************************)
(* The source implements a mirror.  A write is a step of it, and so are    *)
(* the end of a page, a restart, which forgets the cursor, and a relaunch. *)
(***************************************************************************)
\* The end of a page moves the cursor past nothing that is due.
LEMMA DoneMirrors ==
  ASSUME TypeOK, SkipInv, PageDone
  PROVE  Mirrored!Record \/ Mirrored!Advance
<1> DEFINE has == {i \in Trades(chain) : Handled(i)}
           due == [i \in NeverCutOff[chain] |-> TradeLog[chain][i].height]
<1>1. /\ SkipInv' /\ UNCHANGED <<chain, height, fills, refused>>
      /\ lastTradeHeight' = lastTradeHeight \/ lastTradeHeight' > lastTradeHeight
  BY DoneKeeps
<1>2. has' = has /\ due' = due
  BY <1>1 DEF Handled, Trades
<1>3. CASE lastTradeHeight' = lastTradeHeight
  BY <1>1, <1>2, <1>3 DEF Mirrored!Record
<1>4. CASE lastTradeHeight' > lastTradeHeight
  <2>1. \A i \in NeverCutOff[chain] : i \in Trades(chain)
    BY KeptParts DEF TypeOK
  <2>2. Mirrored!Whole'
    BY <1>1, <2>1 DEF Mirrored!Whole, SkipInv, SkipsOnlyCutOff, Trades
  <2> QED
    BY <1>1, <1>2, <1>4, <2>2 DEF Mirrored!Advance
<1> QED
  BY <1>1, <1>3, <1>4

\* CLOBSource mirrors the trade log of the D-Chain: for every log, page size, number
\* of restarts and refused writes and interleaving with the EVM poller, under the
\* condition of DrainSkipsOnlyCutOff, no Fill row of the running chain is lost and the
\* cursor moves up past heights only whose trades are handled, but for the trades that
\* a page may cut off, or back to 0.
THEOREM DrainMirrors == ~RelaunchRunning => (Spec => TradesMirrored)
<1> SUFFICES ASSUME ~RelaunchRunning PROVE Spec => TradesMirrored
  OBVIOUS
<1>1. Init => Mirrored!Init
  BY DEF Init, Mirrored!Init
<1>2. TypeOK /\ SkipInv /\ [Next]_vars => [Mirrored!Next]_(Mirrored!vars)
  <2> SUFFICES ASSUME TypeOK, SkipInv, [Next]_vars PROVE [Mirrored!Next]_(Mirrored!vars)
    OBVIOUS
  <2>1. CASE \E i \in left : WriteTrade(i) \/ TradeRefused(i)
    <3>1. /\ \A k \in Trades(chain) : Handled(k) => Handled(k)'
          /\ UNCHANGED <<chain, lastTradeHeight>>
      BY <2>1, WriteHandles
    <3> QED
      BY <3>1 DEF Mirrored!Next, Mirrored!Record, Trades
  <2>2. CASE PageDone
    BY <2>2, DoneMirrors DEF Mirrored!Next
  <2>3. CASE UNCHANGED <<chain, fills, refused, lastTradeHeight>>
    BY <2>3 DEF Mirrored!vars, Trades, Handled
  <2>4. CASE Crash
    BY <2>4 DEF Crash, chainVars, rowVars, Mirrored!Next, Mirrored!Rewind, Trades, Handled
  <2>5. CASE Relaunch
    <3>1. chain' = chain + 1 /\ chain \in Nat /\ lastTradeHeight' = 0
      BY <2>5, ClobConstants DEF Relaunch, TypeOK, Chains
    <3> QED
      BY <3>1 DEF Mirrored!Next, Mirrored!Switch
  <2>6. CASE GetTrades \/ Accept
    BY <2>3, <2>6 DEF GetTrades, Accept, chainVars, rowVars, faultVars
  <2>7. CASE Aside
    BY <2>3, <2>7, AsideKeeps
  <2>8. CASE UNCHANGED vars
    BY <2>3, <2>8 DEF vars, chainVars, rowVars, faultVars
  <2> QED
    BY <2>1, <2>2, <2>4, <2>5, <2>6, <2>7, <2>8 DEF Aside
<1> QED
  BY <1>1, <1>2, SkipInvariant, TypeCorrect, PTL DEF Spec, TradesMirrored, Mirrored!Spec

=============================================================================
