------------------------------ MODULE MCQuote ------------------------------
(***************************************************************************)
(* A book of six pools over three tokens: a concentrated pool and a pair   *)
(* between the coin and the dollar that go by the same fee in the index,   *)
(* and three pools that meet at a token in the middle, one of them a pair  *)
(* that charges far more than the index says; the last pool has no         *)
(* liquidity until the third block.                                        *)
(***************************************************************************)
EXTENDS Quote

P(t, u, f) == [t0 |-> t, t1 |-> u, fee |-> f]

SixRows   == <<P("usd", "wnat", 3), P("mid", "wnat", 10), P("mid", "usd", 10),
               P("usd", "wnat", 3), P("mid", "usd", 3), P("mid", "wnat", 100)>>
SixVenues == <<"v2", "v3", "v3", "v3", "v2", "v3">>
SixFees   == <<3, 10, 10, 3, 200, 100>>

ThreeBlocks ==
  << << <<17, 9>>, <<12, 15>>, <<14, 20>>, <<10, 5>>, <<9, 16>>, <<0, 0>> >>,
     << <<15, 10>>, <<13, 14>>, <<13, 22>>, <<10, 5>>, <<9, 14>>, <<0, 0>> >>,
     << <<19, 8>>, <<10, 18>>, <<16, 15>>, <<9, 6>>, <<11, 12>>, <<20, 21>> >> >>

A(t, u, n, e, b) == [in |-> t, out |-> u, amount |-> n, exactIn |-> e, bps |-> b]

Trades == {A("wnat", "usd", 4, TRUE, 500), A("coin", "usd", 2, TRUE, 3000),
           A("usd", "wnat", 3, FALSE, 2500), A("usd", "coin", 9, FALSE, 500), A("wnat", "mid", 5, FALSE, 0)}

CoinTrades == {A("coin", "usd", 3, FALSE, 5000)}
=============================================================================
