------------------------------- MODULE MCClob -------------------------------
(***************************************************************************)
(* Small instances of Clob: a market or two, an order, and trade logs that *)
(* start at height 0, skip heights, fill whole pages and, on the second    *)
(* chain, have a page that ends inside a height.                           *)
(***************************************************************************)
EXTENDS Clob

T(h, s) == [height |-> h, seq |-> s]

OneOrder == {"o1"}
OneMarket == {"m1"}
TwoMarkets == {"m1", "m2"}
InOneMarket == [o \in OneOrder |-> "m1"]

\* A chain whose pages of two end between heights and, after a restart, a new one
\* whose first page, read at its head, ends between the two trades of height 2.
LiveLog == << <<T(0, 0), T(1, 0), T(2, 0), T(2, 1)>>, <<T(1, 0), T(2, 0), T(2, 1)>> >>
LiveHeight == <<2, 2>>

=============================================================================
