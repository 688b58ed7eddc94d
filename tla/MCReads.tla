------------------------------ MODULE MCReads ------------------------------
(***************************************************************************)
(* Four swaps in a busy pool and a quiet one, no two of a pool at one      *)
(* time; pages of one and two rows, so that every page is cut.             *)
(***************************************************************************)
EXTENDS Reads

S(t, p, w) == [timestamp |-> t, pool |-> p, sender |-> w]
FourSwaps == <<S(11, "quiet", "w1"), S(12, "busy", "w2"), S(12, "quiet", "w1"), S(13, "busy", "w1")>>

TwoPools == [p \in {"busy", "quiet"} |-> "t1"]
TwoDays == {[id |-> "a1", token |-> "a", date |-> 1], [id |-> "b2", token |-> "b", date |-> 2]}

NoWhere == [k \in {} |-> 0]
Q(n, o, d, w) == [first |-> n, orderBy |-> o, dir |-> d, where |-> w]
OfPool == (<<"pool", "eq">> :> "quiet")
OlderThan == (<<"timestamp", "lt">> :> 13)

OfSender == (<<"sender", "eq">> :> "w1")

\* What GetSwaps can answer in SQL: by pool, before a time, ordered by time; and queries
\* with a filter, an order or both that it applies to what the LIMIT left.
MixedQueries ==
  {Q(<<2>>, "", d, w) : d \in {"", "asc"}, w \in {NoWhere, OfPool @@ OlderThan}}
  \cup {Q(<<2>>, "", "", OfPool), Q(<<2>>, "", "asc", OlderThan), Q(<<0>>, "", "", NoWhere)}
  \cup {Q(<<2>>, "", "", w) : w \in {OfSender, OfPool @@ OfSender}}
  \cup {Q(<<2>>, "amountUSD", "", w) : w \in {NoWhere, OfSender}}

DayQueries ==
  LET Filters == {NoWhere, (<<"token", "eq">> :> "a"), (<<"date", "gte">> :> 2), (<<"token0", "eq">> :> "t1")}
  IN  {Q(<<1>>, "date", d, w) : d \in {"asc", "desc"}, w \in Filters}
        \cup {Q(<<>>, "date", "desc", w) : w \in Filters}

=============================================================================
