---------------------------- MODULE MCValuation ----------------------------
(***************************************************************************)
(* Histories for the TLC runs of Valuation.  A day is ten units of time,   *)
(* and every time is above ten, as every unix time is above a block number *)
(* and above day 0.                                                        *)
(***************************************************************************)
EXTENDS Valuation

\* Two swaps a day, so that a window of four holds one day whole beside any cut.
SteadyTime == <<11, 12, 21, 22, 31, 32>>

\* One day as long as two windows, then a second day, no two swaps at one time.
BusyTime == <<11, 12, 13, 14, 21, 22>>

\* A short history, for the heal and the faults.
ShortTime == <<11, 12, 21>>

AllInOne(t)  == [i \in 1 .. Len(t) |-> "pool"]
SteadyPools  == AllInOne(SteadyTime)
BusyPools    == AllInOne(BusyTime)
ShortPools   == <<"pool", "dead", "pool">>

OnePool  == {"pool"}
TwoPools == {"pool", "dead"}
=============================================================================
