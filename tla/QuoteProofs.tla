---------------------------- MODULE QuoteProofs ----------------------------
(***************************************************************************)
(* What holds of the quote engine for every book, market and pattern of    *)
(* lost replies: the amounts computed for a constant-product pair are ones *)
(* the pair accepts, its own fee allowed for; the legs of an answer carry  *)
(* what their own pools pay; a trade built and approved as the engine says *)
(* fills as it was quoted; and an answer from whole reads of one block is  *)
(* the best of the book by the fees the index has.                         *)
(***************************************************************************)
EXTENDS Quote, TLAPS

\* The unit of fees.
LEMMA MillionType == Million \in Nat \ {0}
  BY QuoteConstants

\* A pool's venue, its row's fee and what it charges.
LEMMA RowType ==
  ASSUME NEW p \in Pool
  PROVE  /\ Venue[p] \in {"v2", "v3"} /\ Row[p].fee \in Nat
         /\ Charge[p] \in Nat /\ (Venue[p] = "v2" => Charge[p] < Million)
         /\ Recorded[p] = Row[p].fee
  BY QuoteConstants DEF Recorded

\* A pair's reserves at any block.
LEMMA ReserveType ==
  ASSUME NEW p \in Pool, NEW h \in Height, NEW t
  PROVE  ReserveIn(p, t, h) \in Nat /\ ReserveOut(p, t, h) \in Nat
  BY QuoteConstants DEF ReserveIn, ReserveOut

\* A request as HandleQuote lets it through.
LEMMA AskType ==
  ASSUME NEW a \in Asks
  PROVE  a.amount \in Nat \ {0} /\ a.exactIn \in BOOLEAN
  BY QuoteConstants

\* Bounds of the slippage.
LEMMA SlippageType ==
  ASSUME NEW a \in Asks
  PROVE  a.bps \in Int /\ 0 <= a.bps /\ a.bps <= 10000
<1> DEFINE y == a.bps
<1>1. y \in 0 .. 10000
  BY QuoteConstants
<1> HIDE DEF y
<1>2. y \in Int /\ 0 <= y /\ y <= 10000
  BY <1>1
<1> QED BY <1>2 DEF y

------------------------------------------------------------------------------
(* The arithmetic of a pair *)

\* Division rounds down: what the formulas of both quotes rest on.
LEMMA Quotient ==
  ASSUME NEW a \in Nat, NEW b \in Nat \ {0}
  PROVE  /\ a \div b \in Nat
         /\ (a \div b) * b <= a
         /\ a < (a \div b + 1) * b
  OBVIOUS

\* What amountOut pays never leaves the product of the reserves short.
LEMMA OutKeepsProduct ==
  ASSUME NEW a \in Int, NEW rIn \in Nat, NEW rOut \in Nat, NEW f \in Nat,
         amountOut(a, rIn, rOut, f) # Nil
  PROVE  /\ amountOut(a, rIn, rOut, f) \in Nat
         /\ PairAccepts(a, amountOut(a, rIn, rOut, f), rIn, rOut, f)
         /\ f < Million
<1> DEFINE g == Million - f
           n == a * g
           d == rIn * Million + n
           q == (n * rOut) \div d
<1>1. /\ a > 0 /\ rIn > 0 /\ rOut > 0 /\ f < Million
      /\ amountOut(a, rIn, rOut, f) = q
  BY MillionType DEF amountOut
<1>2. g \in Nat \ {0} /\ Million \in Nat \ {0}
  BY <1>1, MillionType
<1>3. n \in Nat \ {0}
  <2> HIDE DEF g
  <2> QED BY <1>1, <1>2
<1>4. rIn * Million \in Nat \ {0}
  BY <1>1, <1>2
<1>5. d \in Nat \ {0} /\ n < d /\ n * rOut \in Nat
  <2> HIDE DEF n
  <2> QED BY <1>3, <1>4
<1>6. q \in Nat /\ q * d <= n * rOut
  <2> HIDE DEF n, d
  <2> QED BY <1>5, Quotient
<1>7. q < rOut
  <2> HIDE DEF n, d, q
  <2>1. n * rOut < d * rOut
    BY <1>1, <1>3, <1>5
  <2>2. ASSUME q >= rOut PROVE FALSE
    <3>1. q * d >= rOut * d
      BY <2>2, <1>5, <1>6
    <3> QED BY <3>1, <2>1, <1>5, <1>6, <1>3
  <2> QED BY <2>2, <1>6
<1>8. d * (rOut - q) >= rIn * rOut * Million
  <2> HIDE DEF n, q
  <2>1. d * (rOut - q) = d * rOut - q * d
    BY <1>5, <1>6, <1>7
  <2>2. d * rOut = rIn * Million * rOut + n * rOut
    BY <1>2, <1>3
  <2>3. rIn * Million * rOut = rIn * rOut * Million
    BY <1>2
  <2> QED BY <2>1, <2>2, <2>3, <1>4, <1>5, <1>6
<1> QED BY <1>1, <1>6, <1>7, <1>8 DEF PairAccepts

\* What amountIn asks for is enough: the one unit more makes up for truncation.
LEMMA InKeepsProduct ==
  ASSUME NEW o \in Int, NEW rIn \in Nat, NEW rOut \in Nat, NEW f \in Nat,
         amountIn(o, rIn, rOut, f) # Nil
  PROVE  /\ amountIn(o, rIn, rOut, f) \in Nat
         /\ PairAccepts(amountIn(o, rIn, rOut, f), o, rIn, rOut, f)
         /\ f < Million
<1> DEFINE g == Million - f
           k == rOut - o
           n == rIn * o * Million
           d == k * g
           x == n \div d + 1
<1>1. /\ o > 0 /\ rIn > 0 /\ rOut > 0 /\ f < Million /\ o < rOut
      /\ amountIn(o, rIn, rOut, f) = x
  BY MillionType DEF amountIn
<1>2. g \in Nat \ {0} /\ k \in Nat \ {0} /\ Million \in Nat \ {0}
  BY <1>1, MillionType
<1>3. d \in Nat \ {0}
  <2> HIDE DEF g, k
  <2> QED BY <1>2
<1>4. rIn * o \in Nat /\ n \in Nat
  <2>1. rIn * o \in Nat
    BY <1>1
  <2> QED BY <2>1, <1>2
<1>5. x \in Nat /\ n < x * d
  <2> HIDE DEF n, d
  <2> QED BY <1>3, <1>4, Quotient
<1>6. (rIn * Million + x * g) * k >= rIn * rOut * Million
  <2> HIDE DEF g, x, n
  <2>1. (rIn * Million + x * g) * k = rIn * Million * k + x * g * k
    <3> HIDE DEF k
    <3> QED BY <1>2, <1>5
  <2>2. x * g * k = x * d
    <3> HIDE DEF k
    <3> QED BY <1>2, <1>5
  <2>3. rIn * Million * k = rIn * rOut * Million - rIn * o * Million
    BY <1>1, <1>2
  <2>4. n = rIn * o * Million
    BY DEF n
  <2>5. rIn * rOut * Million \in Int /\ rIn * Million * k \in Int /\ x * d \in Int
    <3> HIDE DEF k, d
    <3> QED BY <1>2, <1>3, <1>5
  <2> HIDE DEF d, k
  <2> QED BY <1>4, <1>5, <2>1, <2>2, <2>3, <2>4, <2>5
<1> QED BY <1>1, <1>5, <1>6 DEF PairAccepts

\* A pair that accepts an amount at one fee accepts what is as much after another.
LEMMA FeeMadeUp ==
  ASSUME NEW a \in Nat, NEW x \in Nat, NEW o \in Nat, NEW rIn \in Nat, NEW rOut \in Nat,
         NEW f \in Nat, NEW e \in Nat,
         PairAccepts(a, o, rIn, rOut, f), x * (Million - e) >= a * (Million - f)
  PROVE  PairAccepts(x, o, rIn, rOut, e)
<1> DEFINE k == rOut - o
           u == a * (Million - f)
           w == x * (Million - e)
           b == rIn * Million
<1>1. /\ Million \in Int /\ k \in Nat \ {0} /\ (b + u) * k >= rIn * rOut * Million
      /\ rIn * rOut * Million \in Int
  BY MillionType DEF PairAccepts
<1>2. u \in Int /\ w \in Int /\ b \in Int /\ w >= u
  <2>1. Million - f \in Int /\ Million - e \in Int
    BY <1>1
  <2> QED BY <1>1, <2>1
<1> HIDE DEF k, u, w, b
<1>3. (b + w) * k = (b + u) * k + (w - u) * k /\ (b + w) * k \in Int /\ (b + u) * k \in Int
  BY <1>1, <1>2
<1>4. (w - u) * k >= 0 /\ (w - u) * k \in Int
  <2>1. w - u \in Nat
    BY <1>2
  <2> QED BY <1>1, <2>1
<1>5. (b + w) * k >= rIn * rOut * Million
  BY <1>1, <1>3, <1>4
<1> QED BY <1>5 DEF PairAccepts, k, w, b

\* What is due of a leg makes up the difference in the fee.
LEMMA DueEnough ==
  ASSUME NEW l \in Leg, l.amtIn \in Nat, Venue[l.p] = "v2", Row[l.p].fee < Million
  PROVE  Due(l) \in Nat /\ Due(l) * (Million - Charge[l.p]) >= l.amtIn * (Million - Row[l.p].fee)
<1> DEFINE a == l.amtIn
           g == Million - Row[l.p].fee
           k == Million - Charge[l.p]
           n == a * g + k - 1
<1>1. a \in Nat /\ g \in Nat \ {0} /\ k \in Nat \ {0} /\ Charge[l.p] \in Nat /\ Row[l.p].fee \in Nat
  <2>1. l.p \in Pool
    BY DEF Leg
  <2>2. /\ Charge[l.p] \in Nat /\ Row[l.p].fee \in Nat /\ Charge[l.p] < Million
    BY <2>1, RowType
  <2> QED BY <2>2, MillionType
<1>2. CASE Charge[l.p] <= Row[l.p].fee
  <2>1. Due(l) = a
    BY <1>2 DEF Due
  <2>2. k >= g
    BY <1>1, <1>2, MillionType
  <2> HIDE DEF a, g, k
  <2>3. a * k = a * g + a * (k - g) /\ a * (k - g) >= 0
    <3>1. k - g \in Nat
      BY <1>1, <2>2
    <3> QED BY <1>1, <3>1
  <2>4. a * k >= a * g
    <3>1. a * k \in Int /\ a * g \in Int /\ a * (k - g) \in Int
      BY <1>1
    <3> QED BY <2>3, <3>1
  <2> QED BY <1>1, <2>1, <2>4 DEF a, g, k
<1>3. CASE ~(Charge[l.p] <= Row[l.p].fee)
  <2>1. Due(l) = n \div k
    BY <1>3 DEF Due
  <2>2. a * g \in Nat /\ n \in Nat
    <3> HIDE DEF a, g, k
    <3> QED BY <1>1
  <2>3. n \div k \in Nat /\ n < (n \div k + 1) * k
    <3> HIDE DEF n, k
    <3> QED BY <1>1, <2>2, Quotient
  <2> DEFINE q == n \div k
  <2>4. q * k >= a * g
    <3>1. q \in Nat /\ a * g + k - 1 < (q + 1) * k
      BY <2>3
    <3> HIDE DEF q
    <3> DEFINE m == a * g
    <3>2. m \in Nat /\ m + k - 1 < (q + 1) * k
      BY <2>2, <3>1
    <3> HIDE DEF m, k
    <3>3. (q + 1) * k = q * k + k /\ q * k \in Int
      BY <1>1, <3>1
    <3>4. q * k >= m
      BY <1>1, <3>2, <3>3
    <3> QED BY <3>4 DEF m
  <2> QED BY <2>1, <2>3, <2>4
<1> QED BY <1>2, <1>3

\* What a concentrated pool answers is an amount or nothing.
LEMMA TickType ==
  ASSUME NEW p \in Pool, NEW h \in Height, NEW t, NEW a \in Nat \cup {Nil}
  PROVE  TickOut(p, t, a, h) \in Nat \cup {Nil} /\ TickIn(p, t, a, h) \in Nat \cup {Nil}
<1> DEFINE rIn == ReserveIn(p, t, h)
           rOut == ReserveOut(p, t, h)
           f == Row[p].fee
<1>1. rIn \in Nat /\ rOut \in Nat /\ f \in Nat /\ a \in Int
  BY ReserveType, RowType DEF Nil
<1>2. TickOut(p, t, a, h) \in Nat \cup {Nil}
  <2> HIDE DEF rIn, rOut, f
  <2>1. TickOut(p, t, a, h) = amountOut(a, rIn, rOut, f)
    BY DEF TickOut, rIn, rOut, f
  <2> QED BY <1>1, <2>1, OutKeepsProduct
<1>3. TickIn(p, t, a, h) \in Nat \cup {Nil}
  <2> DEFINE g == Million - f
             k == rOut - a
             d == k * g
             n == rIn * a * Million
  <2>1. CASE a <= 0 \/ rIn = 0 \/ a >= rOut \/ f >= Million
    BY <2>1 DEF TickIn
  <2>2. CASE ~(a <= 0 \/ rIn = 0 \/ a >= rOut \/ f >= Million)
    <3>1. a > 0 /\ a < rOut /\ f < Million
      <4> HIDE DEF rIn, rOut, f
      <4> QED BY <2>2, <1>1, MillionType
    <3>2. g \in Nat \ {0} /\ k \in Nat \ {0}
      <4> HIDE DEF rIn, rOut, f
      <4> QED BY <3>1, <1>1, MillionType
    <3>3. d \in Nat \ {0}
      <4> HIDE DEF g, k
      <4> QED BY <3>2
    <3>4. n \in Nat
      <4> HIDE DEF rIn, rOut, f
      <4>1. rIn * a \in Nat
        BY <1>1, <3>1
      <4> QED BY <4>1, MillionType
    <3>5. (n + d - 1) \div d \in Nat
      <4> HIDE DEF n, d
      <4>1. n + d - 1 \in Nat
        BY <3>3, <3>4
      <4> QED BY <4>1, <3>3, Quotient
    <3>6. TickIn(p, t, a, h) = (n + d - 1) \div d
      BY <2>2 DEF TickIn
    <3> QED BY <3>5, <3>6
  <2> QED BY <2>1, <2>2
<1> QED BY <1>2, <1>3

------------------------------------------------------------------------------
(* The inductive invariant *)

\* An exact-input leg is priced from its input, an exact-output leg from its output.
Sided(l) ==
  /\ req.exactIn /\ l.amtOut # Nil => l.amtIn # Nil
  /\ ~req.exactIn /\ l.amtIn # Nil => l.amtOut # Nil

\* A priced leg names the block it was read at, and a pair would accept it.
Kept(l) ==
  done(l) =>
    /\ l.at \in Height
    /\ venues[l.p] = "v2" =>
         /\ Row[l.p].fee < Million
         /\ PairAccepts(l.amtIn, l.amtOut, ReserveIn(l.p, l.in, l.at), ReserveOut(l.p, l.in, l.at), Row[l.p].fee)

Sound(ls) == \A i \in DOMAIN ls : Sided(ls[i]) /\ Kept(ls[i])

\* There is no answer before the second pass.
Unanswered == pc \in {"classify", "price1", "price2"} => answer = <<>>

IInv ==
  /\ TypeOK
  /\ Unanswered
  /\ \A r \in DOMAIN cands : Sound(cands[r])

\* Taking in a reply keeps a leg well formed and over the pool it had.
LEMMA AbsorbKeeps ==
  ASSUME TypeOK, NEW l \in Leg, Sided(l), Kept(l), ready(l)
  PROVE  absorb(l) \in Leg /\ Sided(absorb(l)) /\ Kept(absorb(l))
<1> DEFINE rIn == ReserveIn(l.p, l.in, height)
           rOut == ReserveOut(l.p, l.in, height)
           f == Row[l.p].fee
           q == Named(l.in, l.out, f)
           u == CHOOSE p \in q : TRUE
<1> USE DEF Nil
<1>1. /\ l.p \in Pool /\ height \in Height /\ req.exactIn \in BOOLEAN
      /\ l.amtIn \in Nat \cup {Nil} /\ l.amtOut \in Nat \cup {Nil}
  BY AskType DEF TypeOK, Leg
<1>2. rIn \in Nat /\ rOut \in Nat /\ f \in Nat
  BY <1>1, ReserveType, RowType
<1>3. CASE venues[l.p] = "v2" /\ req.exactIn
  <2> DEFINE v == amountOut(l.amtIn, rIn, rOut, f)
  <2>1. absorb(l) = [l EXCEPT !.amtOut = v, !.at = height]
    BY <1>3 DEF absorb
  <2>2. l.amtIn # Nil /\ l.amtIn \in Int /\ l.amtOut = Nil
    BY <1>1, <1>3 DEF ready, done
  <2>3. v # Nil => v \in Nat /\ f < Million /\ PairAccepts(l.amtIn, v, rIn, rOut, f)
    <3> HIDE DEF rIn, rOut, f
    <3> QED BY <1>2, <2>2, OutKeepsProduct
  <2> HIDE DEF v
  <2>4. absorb(l) \in Leg
    BY <1>1, <2>1, <2>3 DEF Leg
  <2>5. /\ absorb(l).p = l.p /\ absorb(l).in = l.in /\ absorb(l).amtIn = l.amtIn
        /\ absorb(l).amtOut = v /\ absorb(l).at = height
    BY <2>1 DEF Leg
  <2>6. Sided(absorb(l))
    BY <2>2, <2>5, <1>3 DEF Sided
  <2>7. Kept(absorb(l))
    BY <2>3, <2>5, <1>1 DEF Kept, done
  <2> QED BY <2>4, <2>6, <2>7
<1>4. CASE venues[l.p] = "v2" /\ ~req.exactIn
  <2> DEFINE v == amountIn(l.amtOut, rIn, rOut, f)
  <2>1. absorb(l) = [l EXCEPT !.amtIn = v, !.at = height]
    BY <1>4 DEF absorb
  <2>2. l.amtOut # Nil /\ l.amtOut \in Int /\ l.amtIn = Nil
    BY <1>1, <1>4 DEF ready, done
  <2>3. v # Nil => v \in Nat /\ f < Million /\ PairAccepts(v, l.amtOut, rIn, rOut, f)
    <3> HIDE DEF rIn, rOut, f
    <3> QED BY <1>2, <2>2, InKeepsProduct
  <2> HIDE DEF v
  <2>4. absorb(l) \in Leg
    BY <1>1, <2>1, <2>3 DEF Leg
  <2>5. /\ absorb(l).p = l.p /\ absorb(l).in = l.in /\ absorb(l).amtOut = l.amtOut
        /\ absorb(l).amtIn = v /\ absorb(l).at = height
    BY <2>1 DEF Leg
  <2>6. Sided(absorb(l))
    BY <2>2, <2>5, <1>4 DEF Sided
  <2>7. Kept(absorb(l))
    BY <2>3, <2>5, <1>1 DEF Kept, done
  <2> QED BY <2>4, <2>6, <2>7
<1>5. CASE venues[l.p] # "v2" /\ q = {}
  <2>1. absorb(l) = l
    BY <1>5 DEF absorb
  <2> QED BY <2>1
<1>6. CASE venues[l.p] # "v2" /\ q # {} /\ req.exactIn
  <2> DEFINE v == TickOut(u, l.in, l.amtIn, height)
  <2>1. absorb(l) = [l EXCEPT !.amtOut = v, !.at = height]
    BY <1>6 DEF absorb
  <2>2. u \in Pool
    BY <1>6 DEF Named
  <2>3. v \in Nat \cup {Nil}
    <3> HIDE DEF u
    <3> QED BY <1>1, <2>2, TickType
  <2>4. l.amtIn # Nil
    BY <1>6 DEF ready
  <2> HIDE DEF v
  <2>5. absorb(l) \in Leg
    BY <1>1, <2>1, <2>3 DEF Leg
  <2>6. /\ absorb(l).p = l.p /\ absorb(l).amtIn = l.amtIn /\ absorb(l).at = height
    BY <2>1 DEF Leg
  <2> QED BY <1>1, <1>6, <2>4, <2>5, <2>6 DEF Sided, Kept
<1>7. CASE venues[l.p] # "v2" /\ q # {} /\ ~req.exactIn
  <2> DEFINE v == TickIn(u, l.in, l.amtOut, height)
  <2>1. absorb(l) = [l EXCEPT !.amtIn = v, !.at = height]
    BY <1>7 DEF absorb
  <2>2. u \in Pool
    BY <1>7 DEF Named
  <2>3. v \in Nat \cup {Nil}
    <3> HIDE DEF u
    <3> QED BY <1>1, <2>2, TickType
  <2>4. l.amtOut # Nil
    BY <1>7 DEF ready
  <2> HIDE DEF v
  <2>5. absorb(l) \in Leg
    BY <1>1, <2>1, <2>3 DEF Leg
  <2>6. /\ absorb(l).p = l.p /\ absorb(l).amtOut = l.amtOut /\ absorb(l).at = height
    BY <2>1 DEF Leg
  <2> QED BY <1>1, <1>7, <2>4, <2>5, <2>6 DEF Sided, Kept
<1> QED BY <1>3, <1>4, <1>5, <1>6, <1>7

\* Carrying an amount to the next leg keeps a route well formed.
LEMMA FedKeeps ==
  ASSUME req \in Asks, NEW r \in Seq(Leg), Sound(r)
  PROVE  fed(r) \in Seq(Leg) /\ Sound(fed(r))
<1>1. DOMAIN r = 1 .. Len(r) /\ Len(r) \in Nat /\ req.exactIn \in BOOLEAN
  BY AskType
<1>2. ASSUME NEW i \in DOMAIN r
      PROVE  fed(r)[i] \in Leg /\ Sided(fed(r)[i]) /\ Kept(fed(r)[i])
  <2> DEFINE l == r[i]
  <2>1. l \in Leg /\ Sided(l) /\ Kept(l)
    BY <1>1 DEF Sound
  <2>2. CASE req.exactIn /\ i > 1 /\ l.amtIn = Nil
    <3> DEFINE w == r[i - 1].amtOut
    <3>1. fed(r)[i] = [l EXCEPT !.amtIn = w]
      BY <2>2 DEF fed
    <3>2. r[i - 1] \in Leg
      BY <1>1, <2>2
    <3>3. w \in Nat \cup {Nil}
      BY <3>2 DEF Leg
    <3>4. l.amtOut = Nil
      BY <2>1, <2>2 DEF Sided
    <3> HIDE DEF w, l
    <3>5. fed(r)[i] \in Leg /\ fed(r)[i].amtOut = Nil
      BY <2>1, <3>1, <3>3, <3>4 DEF Leg
    <3> QED BY <3>5, <2>2 DEF Sided, Kept, done
  <2>3. CASE ~req.exactIn /\ i < Len(r) /\ l.amtOut = Nil
    <3> DEFINE w == r[i + 1].amtIn
    <3>1. fed(r)[i] = [l EXCEPT !.amtOut = w]
      BY <2>3 DEF fed
    <3>2. r[i + 1] \in Leg
      BY <1>1, <2>3
    <3>3. w \in Nat \cup {Nil}
      BY <3>2 DEF Leg
    <3>4. l.amtIn = Nil
      BY <2>1, <2>3 DEF Sided
    <3> HIDE DEF w, l
    <3>5. fed(r)[i] \in Leg /\ fed(r)[i].amtIn = Nil
      BY <2>1, <3>1, <3>3, <3>4 DEF Leg
    <3> QED BY <3>5, <2>3 DEF Sided, Kept, done
  <2>4. CASE /\ ~(req.exactIn /\ i > 1 /\ l.amtIn = Nil)
             /\ ~(~req.exactIn /\ i < Len(r) /\ l.amtOut = Nil)
    <3>1. fed(r)[i] = l
      BY <2>4 DEF fed
    <3> QED BY <2>1, <3>1
  <2> QED BY <2>2, <2>3, <2>4
<1>3. DOMAIN fed(r) = 1 .. Len(r)
  BY <1>1 DEF fed
<1>4. fed(r) = [i \in 1 .. Len(r) |-> fed(r)[i]]
  BY <1>1 DEF fed
<1>5. fed(r) \in [1 .. Len(r) -> Leg]
  BY <1>1, <1>2, <1>4
<1>6. fed(r) \in Seq(Leg)
  BY <1>1, <1>5
<1> QED BY <1>1, <1>2, <1>3, <1>6 DEF Sound

\* A pass over the candidates keeps them sound.
LEMMA PassKeeps ==
  ASSUME IInv, NEW quiet
  PROVE  \A r \in DOMAIN cands :
           priceReady(quiet)[r] \in Seq(Leg) /\ Sound(priceReady(quiet)[r])
<1> SUFFICES ASSUME NEW r \in DOMAIN cands
             PROVE  priceReady(quiet)[r] \in Seq(Leg) /\ Sound(priceReady(quiet)[r])
  OBVIOUS
<1> DEFINE old == cands[r]
           new == [i \in DOMAIN old |->
                     IF ready(old[i]) /\ old[i].p \notin quiet THEN absorb(old[i]) ELSE old[i]]
<1>1. old \in Seq(Leg) /\ Sound(old) /\ req \in Asks
  BY DEF IInv, TypeOK
<1>2. DOMAIN old = 1 .. Len(old) /\ Len(old) \in Nat
  BY <1>1
<1>3. \A i \in DOMAIN old : new[i] \in Leg /\ Sided(new[i]) /\ Kept(new[i])
  <2> SUFFICES ASSUME NEW i \in DOMAIN old
               PROVE  new[i] \in Leg /\ Sided(new[i]) /\ Kept(new[i])
    OBVIOUS
  <2>1. old[i] \in Leg /\ Sided(old[i]) /\ Kept(old[i])
    BY <1>1, <1>2 DEF Sound
  <2>2. CASE ready(old[i]) /\ old[i].p \notin quiet
    <3>1. new[i] = absorb(old[i])
      BY <2>2
    <3>2. absorb(old[i]) \in Leg /\ Sided(absorb(old[i])) /\ Kept(absorb(old[i]))
      BY <2>1, <2>2, AbsorbKeeps DEF IInv
    <3> QED BY <3>1, <3>2
  <2>3. CASE ~(ready(old[i]) /\ old[i].p \notin quiet)
    <3>1. new[i] = old[i]
      BY <2>3
    <3> QED BY <2>1, <3>1
  <2> QED BY <2>2, <2>3
<1>4. new \in Seq(Leg)
  <2>1. new \in [1 .. Len(old) -> Leg]
    BY <1>2, <1>3
  <2> QED BY <1>2, <2>1
<1>5. Sound(new)
  BY <1>3 DEF Sound
<1>6. priceReady(quiet)[r] = fed(new)
  BY DEF priceReady
<1> HIDE DEF new
<1> QED BY <1>1, <1>4, <1>5, <1>6, FedKeeps

\* A route crosses one or two pools, each entered by a token it holds.
LEMMA WaysCross ==
  ASSUME NEW r \in ways
  PROVE  /\ Len(r) \in {1, 2}
         /\ \A i \in 1 .. Len(r) : r[i] \in Pool /\ enters(r, i) \in Sides(r[i])
<1>1. CASE r \in {<<p>> : p \in direct}
  <2>1. PICK p \in direct : r = <<p>>
    BY <1>1
  <2>2. p \in Pool /\ In \in Sides(p)
    BY DEF direct, book
  <2>3. Len(r) = 1 /\ r[1] = p
    BY <2>1
  <2> QED BY <2>2, <2>3 DEF enters
<1>2. CASE r \in mids
  <2> DEFINE m == other(r[1], In)
  <2>1. r \in byToken(In) \X book /\ r[2] \in byToken(m)
    BY <1>2 DEF mids
  <2>2. Len(r) = 2 /\ r[1] \in byToken(In) /\ r[2] \in byToken(m)
    BY <2>1
  <2>3. r[1] \in Pool /\ In \in Sides(r[1]) /\ r[2] \in Pool /\ m \in Sides(r[2])
    BY <2>2 DEF byToken, book
  <2>4. enters(r, 1) = In /\ enters(r, 2) = m
    BY DEF enters
  <2> HIDE DEF m
  <2>5. 1 .. Len(r) = {1, 2}
    BY <2>2
  <2> QED BY <2>2, <2>3, <2>4, <2>5
<1> QED BY <1>1, <1>2 DEF ways

\* The candidates of a search start out typed, and none of their legs priced.
LEMMA RoutesType ==
  ASSUME req \in Asks
  PROVE  \A r \in DOMAIN routes :
           /\ routes[r] \in Seq(Leg)
           /\ \A i \in DOMAIN routes[r] :
                routes[r][i].amtIn = (IF req.exactIn /\ i = 1 THEN req.amount ELSE Nil) /\
                routes[r][i].amtOut = (IF ~req.exactIn /\ i = Len(r) THEN req.amount ELSE Nil)
<1> SUFFICES ASSUME NEW r \in DOMAIN routes
             PROVE  /\ seeded(r) \in Seq(Leg)
                    /\ \A i \in DOMAIN seeded(r) :
                         seeded(r)[i].amtIn = (IF req.exactIn /\ i = 1 THEN req.amount ELSE Nil) /\
                         seeded(r)[i].amtOut = (IF ~req.exactIn /\ i = Len(r) THEN req.amount ELSE Nil)
  BY DEF routes
<1>1. r \in ways
  BY DEF routes
<1>2. Len(r) \in Nat
  BY <1>1, WaysCross
<1>3. \A i \in 1 .. Len(r) : seeded(r)[i] \in Leg
  <2> SUFFICES ASSUME NEW i \in 1 .. Len(r) PROVE seeded(r)[i] \in Leg
    OBVIOUS
  <2> DEFINE t == enters(r, i)
             a == IF req.exactIn /\ i = 1 THEN req.amount ELSE Nil
             b == IF ~req.exactIn /\ i = Len(r) THEN req.amount ELSE Nil
  <2>1. r[i] \in Pool /\ t \in Sides(r[i])
    BY <1>1, WaysCross
  <2>2. t \in Token /\ other(r[i], t) \in Token
    BY <2>1 DEF Token, Sides, other
  <2>3. a \in Nat \cup {Nil} /\ b \in Nat \cup {Nil}
    BY AskType
  <2>4. seeded(r)[i] = [p |-> r[i], in |-> t, out |-> other(r[i], t), amtIn |-> a, amtOut |-> b, at |-> 0]
    BY DEF seeded
  <2> HIDE DEF t, a, b
  <2> QED BY <2>1, <2>2, <2>3, <2>4 DEF Leg
<1>4. seeded(r) \in Seq(Leg)
  <2>1. seeded(r) \in [1 .. Len(r) -> Leg]
    BY <1>3 DEF seeded
  <2> QED BY <1>2, <2>1
<1>5. DOMAIN seeded(r) = 1 .. Len(r)
  BY DEF seeded
<1> QED BY <1>4, <1>5 DEF seeded

\* The engine starts in the invariant.
LEMMA Start == Init => IInv
<1> SUFFICES ASSUME Init PROVE IInv
  OBVIOUS
<1>1. DOMAIN cands = {}
  BY DEF Init, NoCands
<1>2. 1 \in Height
  BY QuoteConstants
<1>3. venues \in [Pool -> {"", "v2", "v3"}] /\ \A p \in Pool : venues[p] \in {"", Venue[p]}
  BY DEF Init
<1>4. TypeOK
  BY <1>1, <1>2, <1>3 DEF Init, TypeOK
<1> QED BY <1>1, <1>4 DEF IInv, Init, Unanswered

\* The steps that touch neither the candidates nor the answer.
LEMMA IdleStep ==
  ASSUME IInv, UNCHANGED <<cands, answer, req, venues>>, height' \in Height,
         head' \in Height \cup {0}, allowance' \in Nat, readAt' \subseteq Height,
         pc' = pc \/ pc' \in {"answered", "built", "approved", "settled"}
  PROVE  IInv'
<1>1. TypeOK'
  BY DEF IInv, TypeOK
<1>2. Unanswered'
  BY DEF IInv, Unanswered
<1>3. \A r \in DOMAIN cands' : Sound(cands[r])'
  BY DEF IInv, Sound, Sided, Kept, done
<1> QED BY <1>1, <1>2, <1>3 DEF IInv

\* Laying out the candidates of a request keeps the invariant.
LEMMA AskStep == IInv /\ Ask => IInv'
<1> SUFFICES ASSUME IInv, Ask PROVE IInv'
  OBVIOUS
<1>1. DOMAIN cands' = {} /\ answer' = <<>> /\ pc' = "classify"
  BY DEF Ask, NoCands
<1>2. req' \in Asks /\ allowance' \in Nat
  BY QuoteConstants DEF Ask
<1>3. height' = height /\ venues' = venues /\ head' = 0 /\ readAt' = {}
  BY DEF Ask
<1>4. TypeOK'
  BY <1>1, <1>2, <1>3 DEF IInv, TypeOK
<1> QED BY <1>1, <1>4 DEF IInv, Unanswered

\* Learning venues keeps the invariant.
LEMMA ClassifyStep == IInv /\ Classify => IInv'
<1> SUFFICES ASSUME IInv, Classify PROVE IInv'
  OBVIOUS
<1>1. /\ cands' = routes /\ answer' = <<>> /\ req' = req /\ pc' \in {"price1", "answered"}
      /\ UNCHANGED <<height, head, allowance, readAt>>
  BY DEF Classify, NoRoute, IInv, Unanswered
<1>2. PICK quiet : venues' = learned(quiet)
  BY DEF Classify
<1>3. /\ venues' \in [Pool -> {"", "v2", "v3"}]
      /\ \A p \in Pool : venues'[p] \in {"", Venue[p]}
  BY <1>2, RowType DEF learned, IInv, TypeOK
<1>4. req \in Asks
  BY DEF IInv, TypeOK
<1>5. \A r \in DOMAIN cands' : cands'[r] \in Seq(Leg)
  BY <1>1, <1>4, RoutesType
<1>6. TypeOK'
  BY <1>1, <1>3, <1>5 DEF IInv, TypeOK
<1>7. \A r \in DOMAIN cands' : Sound(cands[r])'
  <2> SUFFICES ASSUME NEW r \in DOMAIN cands', NEW i \in DOMAIN cands'[r]
               PROVE  Sided(cands[r][i])' /\ Kept(cands[r][i])'
    BY DEF Sound
  <2>1. /\ cands'[r][i].amtIn = (IF req.exactIn /\ i = 1 THEN req.amount ELSE Nil)
        /\ cands'[r][i].amtOut = (IF ~req.exactIn /\ i = Len(r) THEN req.amount ELSE Nil)
    BY <1>1, <1>4, RoutesType
  <2>2. req.exactIn \in BOOLEAN
    BY <1>4, AskType
  <2> QED BY <1>1, <2>1, <2>2 DEF Sided, Kept, done
<1> QED BY <1>1, <1>6, <1>7 DEF IInv, Unanswered

\* Either pricing batch keeps the invariant.
LEMMA PriceStep ==
  ASSUME IInv, NEW quiet, cands' = priceReady(quiet),
         UNCHANGED <<height, venues, req, head, allowance>>, readAt' \subseteq Height,
         \/ pc' = "price2" /\ answer' = <<>>
         \/ pc' \in {"answered", "decorate"} /\ answer' \in {<<>>} \cup {cands'[r] : r \in DOMAIN cands}
  PROVE  IInv'
<1>1. DOMAIN cands' = DOMAIN cands
  BY DEF priceReady
<1>2. \A r \in DOMAIN cands' : cands'[r] \in Seq(Leg) /\ Sound(cands'[r])
  BY <1>1, PassKeeps
<1>3. TypeOK'
  BY <1>1, <1>2 DEF IInv, TypeOK
<1>4. \A r \in DOMAIN cands' : Sound(cands[r])'
  BY <1>2 DEF Sound, Sided, Kept, done
<1> QED BY <1>3, <1>4 DEF IInv, Unanswered

\* Every step of the engine, the chain and the trader keeps the invariant.
LEMMA Step == IInv /\ [Next]_vars => IInv'
<1> SUFFICES ASSUME IInv, [Next]_vars PROVE IInv'
  OBVIOUS
<1>1. /\ height \in Height /\ head \in Height \cup {0} /\ allowance \in Nat
      /\ readAt \subseteq Height
  BY DEF IInv, TypeOK
<1>2. CASE Block
  BY <1>1, <1>2, IdleStep DEF Block
<1>3. CASE Ask
  BY <1>3, AskStep
<1>4. CASE Classify
  BY <1>4, ClassifyStep
<1>5. CASE NodeFails
  <2>1. answer = <<>>
    BY <1>5 DEF NodeFails, IInv, Unanswered
  <2> QED BY <1>1, <1>5, <2>1, IdleStep DEF NodeFails, NoRoute
<1>6. CASE Price1
  <2>1. PICK quiet : cands' = priceReady(quiet)
    BY <1>6 DEF Price1
  <2>2. answer = <<>>
    BY <1>6 DEF Price1, IInv, Unanswered
  <2>3. readAt' \subseteq Height
    BY <1>1, <1>6 DEF Price1
  <2> QED BY <1>6, <2>1, <2>2, <2>3, PriceStep DEF Price1
<1>7. CASE Price2
  <2>1. PICK quiet : cands' = priceReady(quiet)
    BY <1>7 DEF Price2
  <2>2. readAt' \subseteq Height
    BY <1>1, <1>7 DEF Price2
  <2> QED BY <1>7, <2>1, <2>2, PriceStep DEF Price2
<1>8. CASE Decorate
  BY <1>1, <1>8, IdleStep DEF Decorate
<1>9. CASE Build
  BY <1>1, <1>9, IdleStep DEF Build
<1>10. CASE CheckApproval
  <2>1. allowance' \in Nat
    BY <1>1, <1>10 DEF CheckApproval, Unlimited
  <2> QED BY <1>1, <1>10, <2>1, IdleStep DEF CheckApproval
<1>11. CASE Execute
  BY <1>1, <1>11, IdleStep DEF Execute
<1>12. CASE UNCHANGED vars
  BY <1>1, <1>12, IdleStep DEF vars
<1> QED BY <1>2, <1>3, <1>4, <1>5, <1>6, <1>7, <1>8, <1>9, <1>10, <1>11, <1>12 DEF Next

\* The invariant of the engine holds for good.
LEMMA Invariant == Spec => []IInv
  BY Start, Step, PTL DEF Spec

\* The engine's state is well typed in every run: every candidate is a chain of
\* legs with amounts that are natural or nil, and a pool's venue is never
\* recorded as anything but what the pool is.
THEOREM TypeCorrect == Spec => []TypeOK
<1>1. IInv => TypeOK
  BY DEF IInv
<1> QED BY <1>1, Invariant, PTL

\* Whatever the reserves, the amounts, the fees the index has and those the pairs
\* really charge, a leg priced over a pair is one the pair's own check lets
\* through, once what its fee is above the recorded one is made up.
THEOREM PairsNeverRefuse == Spec => []PairsAccept
<1>1. ASSUME IInv PROVE PairsAccept
  <2> SUFFICES ASSUME NEW c \in DOMAIN cands, NEW i \in DOMAIN cands[c],
                      venues[cands[c][i].p] = "v2", done(cands[c][i])
               PROVE  PairAccepts(Due(cands[c][i]), cands[c][i].amtOut,
                                  ReserveIn(cands[c][i].p, cands[c][i].in, cands[c][i].at),
                                  ReserveOut(cands[c][i].p, cands[c][i].in, cands[c][i].at),
                                  Charge[cands[c][i].p])
    BY DEF PairsAccept
  <2> DEFINE l == cands[c][i]
  <2>1. l \in Leg /\ Kept(l) /\ TypeOK
    <3>1. TypeOK /\ Sound(cands[c]) /\ cands[c] \in Seq(Leg)
      BY <1>1 DEF IInv, TypeOK
    <3>2. cands[c][i] \in Leg
      BY <3>1
    <3> QED BY <3>1, <3>2 DEF Sound
  <2> HIDE DEF l
  <2>2. venues[l.p] = "v2" /\ done(l)
    BY DEF l
  <2>3. /\ l.p \in Pool /\ l.amtIn \in Nat /\ l.amtOut \in Nat /\ Venue[l.p] = "v2"
        /\ l.at \in Height
        /\ Row[l.p].fee < Million
        /\ PairAccepts(l.amtIn, l.amtOut, ReserveIn(l.p, l.in, l.at), ReserveOut(l.p, l.in, l.at), Row[l.p].fee)
    <3>1. l.p \in Pool /\ l.amtIn \in Nat /\ l.amtOut \in Nat
      BY <2>1, <2>2 DEF Leg, done
    <3>2. Venue[l.p] = "v2"
      BY <2>1, <2>2, <3>1 DEF TypeOK
    <3> QED BY <2>1, <2>2, <3>1, <3>2 DEF Kept
  <2>4. /\ ReserveIn(l.p, l.in, l.at) \in Nat /\ ReserveOut(l.p, l.in, l.at) \in Nat
        /\ Row[l.p].fee \in Nat /\ Charge[l.p] \in Nat
    BY <2>3, ReserveType, RowType
  <2>5. Due(l) \in Nat /\ Due(l) * (Million - Charge[l.p]) >= l.amtIn * (Million - Row[l.p].fee)
    BY <2>1, <2>3, DueEnough
  <2>6. PairAccepts(Due(l), l.amtOut, ReserveIn(l.p, l.in, l.at), ReserveOut(l.p, l.in, l.at), Charge[l.p])
    BY <2>3, <2>4, <2>5, FeeMadeUp
  <2> QED BY <2>6 DEF l
<1> QED BY <1>1, Invariant, PTL

------------------------------------------------------------------------------
(* Which pool an amount comes from *)

\* A leg over p has a pool to be priced on.
Priceable(p) == venues[p] = "v2" \/ Namesakes(p) # {}

\* What a leg is priced from, what is sought of its pool, and what the pool says.
given(l)  == IF req.exactIn THEN l.amtIn ELSE l.amtOut
sought(l) == IF req.exactIn THEN l.amtOut ELSE l.amtIn

Pays(p, t, a, h) ==
  IF req.exactIn THEN PoolOut(p, t, a, h, Recorded) ELSE PoolIn(p, t, a, h, Recorded)

\* The leg with the caller's amount, and the leg that leg j waits for.
lead(c)   == IF req.exactIn THEN 1 ELSE Len(c)
source(j) == IF req.exactIn THEN j - 1 ELSE j + 1

\* The legs ls of the candidate c run over its pools, each the way c crosses it.
Laid(c, ls) ==
  /\ DOMAIN ls = 1 .. Len(c)
  /\ \A i \in 1 .. Len(c) :
       ls[i].p = c[i] /\ ls[i].in = enters(c, i) /\ ls[i].out = other(c[i], enters(c, i))

\* The caller's amount is where it was put, and what a leg is priced from is
\* what the leg it waits for was said to pay.
Chained(c, ls) ==
  /\ given(ls[lead(c)]) = req.amount
  /\ \A j \in DOMAIN ls : source(j) \in DOMAIN ls => given(ls[j]) \in {Nil, sought(ls[source(j)])}

\* A priced leg carries the word of the pool it is quoted from.
Owned(l) ==
  done(l) => sought(l) = Pays(Quoted(l.p), l.in, given(l), l.at) /\ Priceable(l.p)

OwnedAll(ls) == \A i \in DOMAIN ls : Owned(ls[i])

\* An answer is a route all of whose amounts are positive.
Decided == answer # <<>> => priced(answer)

\* A pool nothing is known of is one whose answer this request lost.
Heard == (DOMAIN cands # {} /\ ~lost) => \A p \in book : venues[p] = Venue[p]

LegInv ==
  /\ Heard
  /\ \A c \in DOMAIN cands :
       c \in ways /\ Laid(c, cands[c]) /\ Chained(c, cands[c]) /\ OwnedAll(cands[c])
  /\ Decided

\* A route crosses each pool from one of its tokens to the other, and its
\* second pool from where the first one left it.
LEMMA WayShape ==
  ASSUME NEW c \in ways
  PROVE  /\ Len(c) \in {1, 2}
         /\ \A i \in 1 .. Len(c) :
              /\ c[i] \in book /\ c[i] \in Pool
              /\ Sides(c[i]) = {enters(c, i), other(c[i], enters(c, i))}
         /\ enters(c, 2) = other(c[1], enters(c, 1))
<1>1. Len(c) \in {1, 2} /\ \A i \in 1 .. Len(c) : c[i] \in Pool /\ enters(c, i) \in Sides(c[i])
  BY WaysCross
<1>2. \A i \in 1 .. Len(c) : c[i] \in book
  <2>1. CASE c \in {<<p>> : p \in direct}
    <3>1. PICK p \in direct : c = <<p>>
      BY <2>1
    <3> QED BY <3>1 DEF direct
  <2>2. CASE c \in mids
    <3>1. c \in byToken(In) \X book
      BY <2>2 DEF mids
    <3>2. c[1] \in byToken(In) /\ c[2] \in book /\ Len(c) = 2
      BY <3>1
    <3>3. c[1] \in book
      BY <3>2 DEF byToken
    <3>4. 1 .. Len(c) = {1, 2}
      BY <3>2
    <3> QED BY <3>2, <3>3, <3>4
  <2> QED BY <2>1, <2>2 DEF ways
<1>3. \A p, t : t \in Sides(p) => Sides(p) = {t, other(p, t)}
  BY DEF Sides, other
<1>4. enters(c, 2) = other(c[1], enters(c, 1))
  BY DEF enters
<1> QED BY <1>1, <1>2, <1>3, <1>4

\* A leg is asked about when it has an amount and no answer.
LEMMA ReadyShape ==
  ASSUME req \in Asks, NEW l
  PROVE  /\ ready(l) <=> given(l) # Nil /\ sought(l) = Nil
         /\ done(l) <=> given(l) # Nil /\ sought(l) # Nil
         /\ Sided(l) <=> (sought(l) # Nil => given(l) # Nil)
  BY AskType DEF ready, done, Sided, given, sought

\* absorb puts on a leg what the pool it is quoted from pays at the head, or, when
\* it is not known what the pool is, may put nothing.
LEMMA AbsorbAsks ==
  ASSUME TypeOK, NEW l \in Leg, Sides(l.p) = {l.in, l.out}
  PROVE  /\ absorb(l).p = l.p /\ absorb(l).in = l.in /\ absorb(l).out = l.out
         /\ given(absorb(l)) = given(l)
         /\ \/ absorb(l) = l /\ venues[l.p] = ""
            \/ /\ sought(absorb(l)) = Pays(Quoted(l.p), l.in, given(l), height)
               /\ absorb(l).at = height /\ Priceable(l.p)
<1> DEFINE f == Row[l.p].fee
           q == Named(l.in, l.out, f)
           u == CHOOSE p \in q : TRUE
<1>1. /\ l.p \in Pool /\ height \in Height /\ req.exactIn \in BOOLEAN
      /\ venues[l.p] \in {"", Venue[l.p]} /\ Venue[l.p] \in {"v2", "v3"}
  BY AskType, RowType DEF TypeOK, Leg
<1>2. \A a, b, h : /\ [l EXCEPT !.amtOut = a, !.at = h].p = l.p
                   /\ [l EXCEPT !.amtOut = a, !.at = h].in = l.in
                   /\ [l EXCEPT !.amtOut = a, !.at = h].out = l.out
                   /\ [l EXCEPT !.amtOut = a, !.at = h].amtIn = l.amtIn
                   /\ [l EXCEPT !.amtOut = a, !.at = h].amtOut = a
                   /\ [l EXCEPT !.amtOut = a, !.at = h].at = h
                   /\ [l EXCEPT !.amtIn = b, !.at = h].p = l.p
                   /\ [l EXCEPT !.amtIn = b, !.at = h].in = l.in
                   /\ [l EXCEPT !.amtIn = b, !.at = h].out = l.out
                   /\ [l EXCEPT !.amtIn = b, !.at = h].amtOut = l.amtOut
                   /\ [l EXCEPT !.amtIn = b, !.at = h].amtIn = b
                   /\ [l EXCEPT !.amtIn = b, !.at = h].at = h
  BY DEF Leg
<1>3. CASE venues[l.p] = "v2" /\ req.exactIn
  <2>1. absorb(l) = [l EXCEPT !.amtOut = PoolOut(l.p, l.in, l.amtIn, height, Recorded), !.at = height]
    BY <1>1, <1>3, RowType DEF absorb, PoolOut
  <2>2. Quoted(l.p) = l.p /\ Priceable(l.p)
    BY <1>3 DEF Quoted, Priceable
  <2> QED BY <1>2, <1>3, <2>1, <2>2 DEF given, sought, Pays
<1>4. CASE venues[l.p] = "v2" /\ ~req.exactIn
  <2>1. absorb(l) = [l EXCEPT !.amtIn = PoolIn(l.p, l.in, l.amtOut, height, Recorded), !.at = height]
    BY <1>1, <1>4, RowType DEF absorb, PoolIn
  <2>2. Quoted(l.p) = l.p /\ Priceable(l.p)
    BY <1>4 DEF Quoted, Priceable
  <2> QED BY <1>2, <1>4, <2>1, <2>2 DEF given, sought, Pays
<1>5. CASE venues[l.p] # "v2" /\ q = {}
  <2>1. absorb(l) = l
    BY <1>5 DEF absorb
  <2>2. Venue[l.p] # "v3"
    BY <1>1, <1>5 DEF Named
  <2> QED BY <1>1, <1>5, <2>1, <2>2
<1>6. ASSUME venues[l.p] # "v2", q # {}
      PROVE  u = Quoted(l.p) /\ Venue[u] = "v3" /\ Priceable(l.p)
  <2>1. q = Namesakes(l.p)
    <3>1. {l.in, l.out} = {Row[l.p].t0, Row[l.p].t1}
      BY DEF Sides
    <3> QED BY <3>1 DEF Named, Namesakes
  <2>2. u \in q
    BY <1>6
  <2>3. u \in Pool /\ Venue[u] = "v3" /\ Sides(u) = Sides(l.p) /\ Row[u].fee = f
    BY <2>2 DEF Named
  <2>4. Venue[l.p] = "v3" => u = l.p
    BY <1>1, <2>3, OneOfAName
  <2> QED BY <1>6, <2>1, <2>3, <2>4 DEF Quoted, Priceable
<1>7. CASE venues[l.p] # "v2" /\ q # {} /\ req.exactIn
  <2>1. absorb(l) = [l EXCEPT !.amtOut = TickOut(u, l.in, l.amtIn, height), !.at = height]
    BY <1>7 DEF absorb
  <2>2. u = Quoted(l.p) /\ Venue[u] = "v3" /\ Priceable(l.p)
    BY <1>6, <1>7
  <2>3. TickOut(u, l.in, l.amtIn, height) = PoolOut(u, l.in, l.amtIn, height, Recorded)
    BY <2>2 DEF PoolOut
  <2> HIDE DEF u
  <2> QED BY <1>2, <1>7, <2>1, <2>2, <2>3 DEF given, sought, Pays
<1>8. CASE venues[l.p] # "v2" /\ q # {} /\ ~req.exactIn
  <2>1. absorb(l) = [l EXCEPT !.amtIn = TickIn(u, l.in, l.amtOut, height), !.at = height]
    BY <1>8 DEF absorb
  <2>2. u = Quoted(l.p) /\ Venue[u] = "v3" /\ Priceable(l.p)
    BY <1>6, <1>8
  <2>3. TickIn(u, l.in, l.amtOut, height) = PoolIn(u, l.in, l.amtOut, height, Recorded)
    BY <2>2 DEF PoolIn
  <2> HIDE DEF u
  <2> QED BY <1>2, <1>8, <2>1, <2>2, <2>3 DEF given, sought, Pays
<1> QED BY <1>1, <1>3, <1>4, <1>5, <1>7, <1>8

\* Feeding the legs changes what one is priced from, where that was open, to
\* what the leg it waits for was said to pay, and nothing else.
LEMMA FedShape ==
  ASSUME req \in Asks, NEW r \in Seq(Leg), NEW j \in DOMAIN r
  PROVE  /\ DOMAIN fed(r) = DOMAIN r
         /\ fed(r)[j].p = r[j].p /\ fed(r)[j].in = r[j].in /\ fed(r)[j].out = r[j].out
         /\ fed(r)[j].at = r[j].at /\ sought(fed(r)[j]) = sought(r[j])
         /\ given(fed(r)[j]) = IF source(j) \in DOMAIN r /\ given(r[j]) = Nil
                                 THEN sought(r[source(j)]) ELSE given(r[j])
<1> DEFINE l == r[j]
<1>1. DOMAIN r = 1 .. Len(r) /\ Len(r) \in Nat /\ j \in 1 .. Len(r) /\ l \in Leg /\ req.exactIn \in BOOLEAN
  BY AskType
<1>2. \A a : /\ [l EXCEPT !.amtIn = a].p = l.p /\ [l EXCEPT !.amtIn = a].in = l.in
             /\ [l EXCEPT !.amtIn = a].out = l.out /\ [l EXCEPT !.amtIn = a].at = l.at
             /\ [l EXCEPT !.amtIn = a].amtIn = a /\ [l EXCEPT !.amtIn = a].amtOut = l.amtOut
             /\ [l EXCEPT !.amtOut = a].p = l.p /\ [l EXCEPT !.amtOut = a].in = l.in
             /\ [l EXCEPT !.amtOut = a].out = l.out /\ [l EXCEPT !.amtOut = a].at = l.at
             /\ [l EXCEPT !.amtOut = a].amtOut = a /\ [l EXCEPT !.amtOut = a].amtIn = l.amtIn
  BY <1>1 DEF Leg
<1>3. DOMAIN fed(r) = DOMAIN r
  BY DEF fed
<1>4. CASE req.exactIn /\ j > 1 /\ l.amtIn = Nil
  <2>1. fed(r)[j] = [l EXCEPT !.amtIn = r[j - 1].amtOut]
    BY <1>4 DEF fed
  <2>2. source(j) = j - 1 /\ source(j) \in DOMAIN r
    BY <1>1, <1>4 DEF source
  <2> HIDE DEF l
  <2> QED BY <1>2, <1>3, <1>4, <2>1, <2>2 DEF given, sought, l
<1>5. CASE ~req.exactIn /\ j < Len(r) /\ l.amtOut = Nil
  <2>1. fed(r)[j] = [l EXCEPT !.amtOut = r[j + 1].amtIn]
    BY <1>5 DEF fed
  <2>2. source(j) = j + 1 /\ source(j) \in DOMAIN r
    BY <1>1, <1>5 DEF source
  <2> HIDE DEF l
  <2> QED BY <1>2, <1>3, <1>5, <2>1, <2>2 DEF given, sought, l
<1>6. CASE ~(req.exactIn /\ j > 1 /\ l.amtIn = Nil) /\ ~(~req.exactIn /\ j < Len(r) /\ l.amtOut = Nil)
  <2>1. fed(r)[j] = l
    BY <1>6 DEF fed
  <2>2. ~(source(j) \in DOMAIN r /\ given(l) = Nil)
    BY <1>1, <1>6 DEF source, given
  <2> QED BY <1>3, <2>1, <2>2
<1> QED BY <1>4, <1>5, <1>6


\* What one pass makes of a candidate: some legs get an answer, then all are fed.
LEMMA PassShape ==
  ASSUME IInv, LegInv, NEW quiet, NEW c \in DOMAIN cands
  PROVE  \E mid \in Seq(Leg) :
           /\ DOMAIN mid = 1 .. Len(c) /\ priceReady(quiet)[c] = fed(mid)
           /\ \A i \in DOMAIN mid :
                /\ Sided(mid[i])
                /\ mid[i].p = c[i] /\ mid[i].in = enters(c, i) /\ mid[i].out = other(c[i], enters(c, i))
                /\ given(mid[i]) = given(cands[c][i])
                /\ \/ /\ mid[i] = cands[c][i]
                      /\ ~ready(cands[c][i]) \/ c[i] \in quiet \/ venues[c[i]] = ""
                   \/ /\ ready(cands[c][i]) /\ mid[i].at = height
                      /\ sought(mid[i]) = Pays(Quoted(c[i]), enters(c, i), given(mid[i]), height)
                      /\ Priceable(c[i])
<1> DEFINE old == cands[c]
           mid == [i \in DOMAIN old |->
                     IF ready(old[i]) /\ old[i].p \notin quiet THEN absorb(old[i]) ELSE old[i]]
<1>1. /\ old \in Seq(Leg) /\ Sound(old) /\ TypeOK /\ c \in ways /\ Laid(c, old)
      /\ DOMAIN old = 1 .. Len(c) /\ Len(c) \in Nat
  <2>1. TypeOK /\ Sound(old) /\ c \in ways /\ Laid(c, old)
    BY DEF IInv, LegInv
  <2>2. old \in Seq(Leg)
    BY <2>1 DEF TypeOK
  <2>3. Len(c) \in {1, 2}
    BY <2>1, WayShape
  <2> QED BY <2>1, <2>2, <2>3 DEF Laid
<1>2. ASSUME NEW i \in 1 .. Len(c)
      PROVE  /\ mid[i] \in Leg /\ Sided(mid[i])
             /\ mid[i].p = c[i] /\ mid[i].in = enters(c, i) /\ mid[i].out = other(c[i], enters(c, i))
             /\ given(mid[i]) = given(cands[c][i])
             /\ \/ /\ mid[i] = cands[c][i]
                   /\ ~ready(cands[c][i]) \/ c[i] \in quiet \/ venues[c[i]] = ""
                \/ /\ ready(cands[c][i]) /\ mid[i].at = height
                   /\ sought(mid[i]) = Pays(Quoted(c[i]), enters(c, i), given(mid[i]), height)
                   /\ Priceable(c[i])
  <2> DEFINE l == old[i]
  <2>1. /\ l \in Leg /\ Sided(l) /\ Kept(l)
        /\ l.p = c[i] /\ l.in = enters(c, i) /\ l.out = other(c[i], enters(c, i))
    BY <1>1 DEF Sound, Laid
  <2>2. Sides(l.p) = {l.in, l.out}
    BY <1>1, <2>1, WayShape
  <2>3. CASE ready(l) /\ l.p \notin quiet
    <3>1. mid[i] = absorb(l)
      BY <1>1, <2>3
    <3>2. absorb(l) \in Leg /\ Sided(absorb(l))
      BY <1>1, <2>1, <2>3, AbsorbKeeps
    <3>3. /\ absorb(l).p = l.p /\ absorb(l).in = l.in /\ absorb(l).out = l.out
          /\ given(absorb(l)) = given(l)
          /\ \/ absorb(l) = l /\ venues[l.p] = ""
             \/ /\ sought(absorb(l)) = Pays(Quoted(l.p), l.in, given(l), height)
                /\ absorb(l).at = height /\ Priceable(l.p)
      BY <1>1, <2>1, <2>2, AbsorbAsks
    <3> HIDE DEF mid, l
    <3> QED BY <2>1, <2>3, <3>1, <3>2, <3>3 DEF l
  <2>4. CASE ~(ready(l) /\ l.p \notin quiet)
    <3>1. mid[i] = l
      BY <1>1, <2>4
    <3> QED BY <2>1, <2>4, <3>1
  <2> QED BY <2>3, <2>4
<1>3. mid \in Seq(Leg) /\ DOMAIN mid = 1 .. Len(c)
  <2>1. mid \in [1 .. Len(c) -> Leg]
    BY <1>1, <1>2
  <2> QED BY <1>1, <2>1
<1>4. priceReady(quiet)[c] = fed(mid)
  BY DEF priceReady
<1> HIDE DEF mid
<1> QED BY <1>2, <1>3, <1>4

\* A pass keeps every candidate laid along its route, chained and owned.
LEMMA PassOwned ==
  ASSUME IInv, LegInv, NEW quiet, NEW c \in DOMAIN cands
  PROVE  /\ Laid(c, priceReady(quiet)[c])
         /\ Chained(c, priceReady(quiet)[c])
         /\ OwnedAll(priceReady(quiet)[c])
<1> DEFINE old == cands[c]
           new == priceReady(quiet)[c]
<1>1. PICK mid \in Seq(Leg) :
           /\ DOMAIN mid = 1 .. Len(c) /\ new = fed(mid)
           /\ \A i \in DOMAIN mid :
                /\ Sided(mid[i])
                /\ mid[i].p = c[i] /\ mid[i].in = enters(c, i) /\ mid[i].out = other(c[i], enters(c, i))
                /\ given(mid[i]) = given(cands[c][i])
                /\ \/ /\ mid[i] = cands[c][i]
                      /\ ~ready(cands[c][i]) \/ c[i] \in quiet \/ venues[c[i]] = ""
                   \/ /\ ready(cands[c][i]) /\ mid[i].at = height
                      /\ sought(mid[i]) = Pays(Quoted(c[i]), enters(c, i), given(mid[i]), height)
                      /\ Priceable(c[i])
  BY PassShape
<1>2. /\ req \in Asks /\ c \in ways /\ Len(c) \in {1, 2} /\ Laid(c, old) /\ Chained(c, old) /\ OwnedAll(old)
      /\ DOMAIN old = 1 .. Len(c)
  <2>1. req \in Asks /\ c \in ways /\ Laid(c, old) /\ Chained(c, old) /\ OwnedAll(old)
    BY DEF IInv, TypeOK, LegInv
  <2>2. Len(c) \in {1, 2}
    BY <2>1, WayShape
  <2> QED BY <2>1, <2>2 DEF Laid
<1>3. \A j \in 1 .. Len(c) :
         /\ DOMAIN new = 1 .. Len(c)
         /\ new[j].p = mid[j].p /\ new[j].in = mid[j].in /\ new[j].out = mid[j].out
         /\ new[j].at = mid[j].at /\ sought(new[j]) = sought(mid[j])
         /\ given(new[j]) = IF source(j) \in 1 .. Len(c) /\ given(mid[j]) = Nil
                              THEN sought(mid[source(j)]) ELSE given(mid[j])
  <2> HIDE DEF new
  <2>1. DOMAIN mid = 1 .. Len(c) /\ new = fed(mid)
    BY <1>1
  <2> QED BY <1>2, <2>1, FedShape, Zenon
<1>4. DOMAIN new = 1 .. Len(c) /\ 1 \in 1 .. Len(c) /\ Len(c) \in 1 .. Len(c)
  <2>1. 1 \in 1 .. Len(c) /\ Len(c) \in 1 .. Len(c)
    BY <1>2
  <2> QED BY <1>3, <2>1
<1> HIDE DEF new, old
<1>5. Laid(c, new)
  BY <1>1, <1>3, <1>4 DEF Laid
<1>6. OwnedAll(new)
  <2> SUFFICES ASSUME NEW j \in 1 .. Len(c), done(new[j])
               PROVE  /\ sought(new[j]) = Pays(Quoted(new[j].p), new[j].in, given(new[j]), new[j].at)
                      /\ Priceable(new[j].p)
    BY <1>4 DEF OwnedAll, Owned
  <2>1. given(new[j]) # Nil /\ sought(new[j]) # Nil
    BY <1>2, ReadyShape
  <2>2. given(mid[j]) # Nil /\ given(new[j]) = given(mid[j])
    <3>1. Sided(mid[j]) /\ sought(mid[j]) # Nil
      BY <1>1, <1>3, <2>1
    <3>2. given(mid[j]) # Nil
      BY <1>2, <3>1, ReadyShape
    <3> QED BY <1>3, <3>2
  <2>3. CASE mid[j] = old[j]
    <3>1. done(old[j])
      BY <1>2, <1>3, <2>1, <2>2, <2>3, ReadyShape
    <3>2. Owned(old[j])
      BY <1>2 DEF OwnedAll
    <3> QED BY <1>3, <2>2, <2>3, <3>1, <3>2 DEF Owned
  <2>4. CASE mid[j] # old[j]
    <3>1. /\ mid[j].p = c[j] /\ mid[j].in = enters(c, j) /\ mid[j].at = height
          /\ sought(mid[j]) = Pays(Quoted(c[j]), enters(c, j), given(mid[j]), height)
          /\ Priceable(c[j])
      BY <1>1, <2>4 DEF old
    <3> QED BY <1>3, <2>2, <3>1
  <2> QED BY <2>3, <2>4
<1>7. Chained(c, new)
  <2>1. lead(c) \in 1 .. Len(c) /\ given(old[lead(c)]) = req.amount /\ req.amount # Nil
    <3>1. lead(c) \in 1 .. Len(c)
      BY <1>4 DEF lead
    <3>2. req.amount # Nil
      BY <1>2, AskType DEF Nil
    <3> QED BY <1>2, <3>1, <3>2 DEF Chained
  <2>2. given(new[lead(c)]) = req.amount
    BY <1>1, <1>3, <2>1 DEF old
  <2>3. ASSUME NEW j \in 1 .. Len(c), source(j) \in 1 .. Len(c)
        PROVE  given(new[j]) \in {Nil, sought(new[source(j)])}
    <3>1. CASE given(mid[j]) = Nil
      BY <1>3, <2>3, <3>1
    <3>2. CASE given(mid[j]) # Nil
      <4>1. given(new[j]) = given(old[j]) /\ given(old[j]) = sought(old[source(j)])
        BY <1>1, <1>2, <1>3, <2>3, <3>2 DEF Chained, old
      <4>2. sought(old[source(j)]) # Nil
        BY <1>1, <3>2, <4>1 DEF old
      <4>3. mid[source(j)] = old[source(j)]
        BY <1>1, <1>2, <2>3, <4>2, ReadyShape DEF old
      <4> QED BY <1>3, <2>3, <4>1, <4>3
    <3> QED BY <3>1, <3>2
  <2> QED BY <1>4, <2>2, <2>3 DEF Chained
<1> QED BY <1>5, <1>6, <1>7 DEF new


\* Nothing has been asked yet.
Fresh(c, ls) ==
  \A i \in DOMAIN ls : sought(ls[i]) = Nil /\ (i # lead(c) => given(ls[i]) = Nil)

\* The candidates of a search are ways, laid out, with nothing asked yet.
LEMMA RoutesFresh ==
  ASSUME req \in Asks, NEW c \in DOMAIN routes
  PROVE  /\ c \in ways /\ Laid(c, routes[c]) /\ Fresh(c, routes[c])
         /\ given(routes[c][lead(c)]) = req.amount
<1>1. c \in ways /\ routes[c] = seeded(c)
  BY DEF routes
<1>2. Len(c) \in {1, 2}
  BY <1>1, WayShape
<1>3. DOMAIN seeded(c) = 1 .. Len(c)
  BY DEF seeded
<1>4. Laid(c, seeded(c))
  BY <1>3 DEF Laid, seeded
<1>5. req.exactIn \in BOOLEAN
  BY AskType
<1>6. lead(c) \in 1 .. Len(c)
  BY <1>2 DEF lead
<1>7. \A i \in 1 .. Len(c) : /\ seeded(c)[i].amtIn = IF req.exactIn /\ i = 1 THEN req.amount ELSE Nil
                             /\ seeded(c)[i].amtOut = IF ~req.exactIn /\ i = Len(c) THEN req.amount ELSE Nil
  BY DEF seeded
<1>8. Fresh(c, seeded(c))
  BY <1>3, <1>5, <1>7 DEF Fresh, given, sought, lead
<1>9. given(seeded(c)[lead(c)]) = req.amount
  BY <1>5, <1>6, <1>7 DEF given, lead
<1> QED BY <1>1, <1>4, <1>8, <1>9

\* A route is a matter of the request alone.
LEMMA RequestFrame ==
  ASSUME req' = req
  PROVE  /\ ways' = ways /\ In' = In /\ Out' = Out
         /\ \A c, i : enters(c, i)' = enters(c, i)
         /\ \A l : given(l)' = given(l) /\ sought(l)' = sought(l)
         /\ \A c : lead(c)' = lead(c)
         /\ \A j : source(j)' = source(j)
         /\ \A p, t, a, h : Pays(p, t, a, h)' = Pays(p, t, a, h)
<1>1. In' = In /\ Out' = Out
  BY DEF In, Out
<1>2. direct' = direct
  BY <1>1 DEF direct
<1>3. \A t : byToken(t)' = byToken(t)
  BY <1>2 DEF byToken
<1>4. mids' = mids
  BY <1>1, <1>3 DEF mids
<1>5. ways' = ways
  BY <1>2, <1>4 DEF ways
<1>6. \A c, i : enters(c, i)' = enters(c, i)
  BY <1>1 DEF enters
<1> QED BY <1>1, <1>5, <1>6 DEF given, sought, lead, source, Pays

\* What is said of a leg depends on the request and the learned venues alone.
LEMMA LegFrame ==
  ASSUME req' = req, venues' = venues
  PROVE  \A c, ls : /\ Laid(c, ls)' <=> Laid(c, ls)
                    /\ Chained(c, ls)' <=> Chained(c, ls)
                    /\ OwnedAll(ls)' <=> OwnedAll(ls)
<1>1. \A p : (Quoted(p)' = Quoted(p)) /\ (Priceable(p)' <=> Priceable(p))
  BY DEF Quoted, Priceable, Namesakes, Named
<1>2. \A l : Owned(l)' <=> Owned(l)
  BY <1>1, RequestFrame DEF Owned, done
<1> QED BY <1>2, RequestFrame DEF Laid, Chained, OwnedAll

\* No request has legs at the start.
LEMMA LegStart == Init => LegInv
  BY DEF Init, NoCands, LegInv, Decided, Heard

\* Every step keeps the legs on their pools.
LEMMA LegStep == IInv /\ LegInv /\ [Next]_vars => LegInv'
<1> SUFFICES ASSUME IInv, LegInv, [Next]_vars PROVE LegInv'
  OBVIOUS
<1>1. ASSUME UNCHANGED <<req, venues, cands>>, lost' \in {lost, TRUE}, answer' \in {answer, <<>>} PROVE LegInv'
  <2>1. Decided'
    BY <1>1 DEF LegInv, Decided, priced
  <2>2. ways' = ways
    BY <1>1, RequestFrame
  <2>3. Heard'
    <3>1. CASE lost' = lost
      BY <1>1, <3>1 DEF LegInv, Heard
    <3>2. CASE lost' = TRUE
      BY <3>2 DEF Heard
    <3> QED BY <1>1, <3>1, <3>2
  <2> QED BY <1>1, <2>1, <2>2, <2>3, LegFrame DEF LegInv
<1>2. CASE Ask
  BY <1>2 DEF Ask, NoCands, LegInv, Decided, Heard
<1>3. CASE Classify
  <2>1. cands' = routes /\ answer' = <<>> /\ req' = req
    BY <1>3 DEF Classify, NoRoute, IInv, Unanswered
  <2>2. req \in Asks
    BY DEF IInv, TypeOK
  <2>3. ASSUME NEW c \in DOMAIN routes
        PROVE  c \in ways' /\ Laid(c, cands[c])' /\ Chained(c, cands[c])' /\ OwnedAll(cands[c])'
    <3>1. /\ c \in ways /\ Laid(c, routes[c]) /\ Fresh(c, routes[c])
          /\ given(routes[c][lead(c)]) = req.amount
      BY <2>2, RoutesFresh
    <3>2. \A ls : Laid(c, ls)' <=> Laid(c, ls)
      BY <2>1, RequestFrame DEF Laid
    <3>3. \A ls : Chained(c, ls)' <=> Chained(c, ls)
      BY <2>1, RequestFrame DEF Chained
    <3>4. DOMAIN routes[c] = 1 .. Len(c) /\ Len(c) \in {1, 2}
      BY <3>1, WayShape DEF Laid
    <3>5. Chained(c, routes[c])
      <4>1. \A j \in 1 .. Len(c) : source(j) \in 1 .. Len(c) => j # lead(c)
        BY <3>4 DEF source, lead
      <4> QED BY <3>1, <3>4, <4>1 DEF Chained, Fresh
    <3>6. \A i \in DOMAIN routes[c] : sought(routes[c][i]) = Nil /\ ~done(routes[c][i])
      BY <2>2, <3>1, ReadyShape DEF Fresh
    <3>7. OwnedAll(cands[c])'
      BY <2>1, <3>6 DEF OwnedAll, Owned, done
    <3>8. ways' = ways
      BY <2>1, RequestFrame
    <3> QED BY <2>1, <3>1, <3>2, <3>3, <3>5, <3>7, <3>8
  <2>4. Heard'
    <3>1. PICK quiet : venues' = learned(quiet) /\ lost' = (lost \/ quiet # {})
      BY <1>3 DEF Classify
    <3>2. ASSUME ~lost', NEW p \in book PROVE venues'[p] = Venue[p]
      <4>1. quiet = {} /\ p \in Pool
        BY <3>1, <3>2 DEF book
      <4>2. venues[p] \in {"", Venue[p]}
        BY <4>1 DEF IInv, TypeOK
      <4> QED BY <3>1, <3>2, <4>1, <4>2 DEF learned, unknown
    <3> QED BY <3>2 DEF Heard
  <2> QED BY <2>1, <2>3, <2>4 DEF LegInv, Decided
<1>4. ASSUME NEW quiet, cands' = priceReady(quiet), lost' = (lost \/ quiet # {}),
             UNCHANGED <<req, venues>>, Decided'
      PROVE  LegInv'
  <2>1. DOMAIN cands' = DOMAIN cands
    BY <1>4 DEF priceReady
  <2>2. ways' = ways
    BY <1>4, RequestFrame
  <2>3. \A c \in DOMAIN cands : c \in ways
    BY DEF LegInv
  <2>4. \A c \in DOMAIN cands : /\ Laid(c, cands'[c])
                                /\ Chained(c, cands'[c])
                                /\ OwnedAll(cands'[c])
    BY <1>4, PassOwned
  <2>5. \A c, ls : /\ Laid(c, ls)' <=> Laid(c, ls)
                   /\ Chained(c, ls)' <=> Chained(c, ls)
                   /\ OwnedAll(ls)' <=> OwnedAll(ls)
    BY <1>4, LegFrame
  <2>6. Heard'
    BY <1>4, <2>1 DEF LegInv, Heard
  <2> QED BY <1>4, <2>1, <2>2, <2>3, <2>4, <2>5, <2>6 DEF LegInv
<1>5. CASE Price1
  <2>1. PICK quiet : cands' = priceReady(quiet) /\ lost' = (lost \/ quiet # {})
    BY <1>5 DEF Price1
  <2>2. answer' = <<>> /\ UNCHANGED <<req, venues>>
    BY <1>5 DEF Price1, IInv, Unanswered
  <2> QED BY <1>4, <2>1, <2>2 DEF Decided
<1>6. CASE Price2
  <2>1. PICK quiet : cands' = priceReady(quiet) /\ lost' = (lost \/ quiet # {})
    BY <1>6 DEF Price2
  <2>2. UNCHANGED <<req, venues>> /\ best(cands', answer')
    BY <1>6 DEF Price2
  <2>3. Decided'
    BY <2>2 DEF best, wins, priced, Decided
  <2> QED BY <1>4, <2>1, <2>2, <2>3
<1>7. CASE Block \/ NodeFails \/ Decorate \/ Build \/ CheckApproval \/ Execute \/ UNCHANGED vars
  BY <1>1, <1>7 DEF Block, NodeFails, NoRoute, Decorate, Build, CheckApproval, Execute, vars
<1> QED BY <1>2, <1>3, <1>5, <1>6, <1>7 DEF Next

\* What a leg carries stays that of its pool.
LEMMA LegInvariant == Spec => [](IInv /\ LegInv)
<1>1. IInv /\ LegInv /\ [Next]_vars => LegInv'
  BY LegStep
<1> QED BY <1>1, LegStart, Invariant, PTL DEF Spec

\* Whatever pools share a pair and a fee, every leg of an answer carries what its
\* own pool pays at the block it was read at, a pair by the fee the index has of
\* it, and each leg is priced from what the one it waits for was said to pay:
\* through any blocks between the passes, lost replies and pools that were never
\* classified.  Only a pair whose answer to classify was lost in the request may
\* carry the amount of a concentrated pool, one of the same pair and fee.
THEOREM LegsAreOfTheirPools == Spec => []LegsOwnPool
<1>1. IInv /\ LegInv => LegsOwnPool
  <2> SUFFICES ASSUME IInv, LegInv, answer # <<>> PROVE LegsOwnPool
    <3>1. answer = <<>> => DOMAIN answer = {}
      OBVIOUS
    <3> QED BY <3>1, Zenon DEF LegsOwnPool
  <2>1. PICK c \in DOMAIN cands : answer = cands[c]
    BY DEF IInv, TypeOK
  <2>2. req \in Asks /\ req.exactIn \in BOOLEAN
    BY AskType DEF IInv, TypeOK
  <2>3. /\ c \in ways /\ Laid(c, answer) /\ Chained(c, answer) /\ OwnedAll(answer)
        /\ priced(answer) /\ answer \in Seq(Leg)
    BY <2>1 DEF LegInv, Decided, IInv, TypeOK
  <2>4. DOMAIN answer = 1 .. Len(c) /\ Len(c) \in {1, 2}
    BY <2>3, WayShape DEF Laid
  <2>5. \A i \in DOMAIN answer : /\ answer[i].amtIn # Nil /\ answer[i].amtOut # Nil
                                 /\ done(answer[i])
    BY <2>3 DEF priced, done, Nil
  <2>6. \A i \in DOMAIN answer :
          /\ sought(answer[i]) = Pays(Quoted(answer[i].p), answer[i].in, given(answer[i]), answer[i].at)
          /\ Priceable(answer[i].p)
    BY <2>3, <2>5 DEF OwnedAll, Owned
  <2>7. ASSUME NEW i \in DOMAIN answer \ {1} PROVE answer[i].amtIn = answer[i - 1].amtOut
    <3>1. i = 2 /\ Len(c) = 2 /\ 1 \in DOMAIN answer /\ 2 \in DOMAIN answer
      <4>1. Len(c) = 1 => DOMAIN answer = {1}
        BY <2>4
      <4>2. Len(c) = 2 => DOMAIN answer = {1, 2}
        BY <2>4
      <4>3. Len(c) = 2
        BY <2>4, <2>7, <4>1
      <4> QED BY <2>7, <4>2, <4>3
    <3>2. CASE req.exactIn
      <4>1. source(2) = 1
        BY <3>2 DEF source
      <4>2. given(answer[2]) \in {Nil, sought(answer[1])}
        BY <2>3, <3>1, <4>1 DEF Chained
      <4> QED BY <2>5, <3>1, <3>2, <4>2 DEF given, sought
    <3>3. CASE ~req.exactIn
      <4>1. source(1) = 2
        BY <3>3 DEF source
      <4>2. given(answer[1]) \in {Nil, sought(answer[2])}
        BY <2>3, <3>1, <4>1 DEF Chained
      <4> QED BY <2>5, <3>1, <3>3, <4>2 DEF given, sought
    <3> QED BY <2>2, <3>2, <3>3
  <2>8. ASSUME NEW i \in DOMAIN answer
        PROVE  \E q \in {answer[i].p} \cup Namesakes(answer[i].p) :
                 /\ q = answer[i].p \/ (lost /\ Venue[answer[i].p] = "v2" /\ venues[answer[i].p] = "")
                 /\ IF req.exactIn
                      THEN answer[i].amtOut = PoolOut(q, answer[i].in, answer[i].amtIn, answer[i].at, Recorded)
                      ELSE answer[i].amtIn = PoolIn(q, answer[i].in, answer[i].amtOut, answer[i].at, Recorded)
    <3> DEFINE l == answer[i]
               q == Quoted(l.p)
    <3>1. l.p \in book /\ l.p \in Pool
      BY <2>3, <2>4, WayShape DEF Laid
    <3>2. venues[l.p] \in {"", Venue[l.p]} /\ Venue[l.p] \in {"v2", "v3"}
      BY <3>1, RowType DEF IInv, TypeOK
    <3>3. CASE venues[l.p] = "v2" \/ Venue[l.p] = "v3"
      <4>1. q = l.p
        BY <3>3 DEF Quoted
      <4> QED BY <2>6, <4>1 DEF sought, given, Pays
    <3>4. CASE ~(venues[l.p] = "v2" \/ Venue[l.p] = "v3")
      <4>1. Venue[l.p] = "v2" /\ venues[l.p] = ""
        BY <3>2, <3>4
      <4>2. lost
        BY <2>1, <3>1, <4>1 DEF LegInv, Heard
      <4>3. q \in Namesakes(l.p)
        BY <2>6, <3>4 DEF Quoted, Priceable
      <4>4. sought(l) = Pays(q, l.in, given(l), l.at)
        BY <2>6
      <4>5. IF req.exactIn THEN l.amtOut = PoolOut(q, l.in, l.amtIn, l.at, Recorded)
                           ELSE l.amtIn = PoolIn(q, l.in, l.amtOut, l.at, Recorded)
        BY <4>4 DEF sought, given, Pays
      <4> HIDE DEF q, l
      <4> QED BY <4>1, <4>2, <4>3, <4>5 DEF l
    <3> QED BY <3>3, <3>4
  <2> QED BY <2>7, <2>8 DEF LegsOwnPool
<1> QED BY <1>1, LegInvariant, PTL


------------------------------------------------------------------------------
(* The call and what becomes of it *)

\* A trade that pays the coin names what it pays.
CoinPays == \A a \in Asks : a.in = Coin => a.exactIn

\* No call takes more than the largest approval, which is a word of all ones.
WordEnough == Most <= Unlimited

Approved == pc = "approved" => req.in = Coin \/ allowance >= Most

Built ==
  pc \in {"built", "approved", "settled"} =>
    /\ answer # <<>> /\ call = swapCall(answer)
    /\ \A i \in DOMAIN answer : venues[answer[i].p] # "v2"

FillInv == Built /\ Approved /\ FillsAsQuoted

\* What a pool says is an amount or nothing, and it says nothing to nothing.
LEMMA PoolType ==
  ASSUME NEW p \in Pool, NEW h \in Height, NEW t, NEW a \in Nat \cup {Nil}, NEW fees, fees[p] \in Nat
  PROVE  /\ PoolOut(p, t, a, h, fees) \in Nat \cup {Nil} /\ PoolIn(p, t, a, h, fees) \in Nat \cup {Nil}
         /\ a <= 0 => PoolOut(p, t, a, h, fees) = Nil /\ PoolIn(p, t, a, h, fees) = Nil
<1> DEFINE rIn == ReserveIn(p, t, h)
           rOut == ReserveOut(p, t, h)
           f == fees[p]
<1>1. rIn \in Nat /\ rOut \in Nat /\ f \in Nat /\ a \in Int /\ Venue[p] \in {"v2", "v3"}
  BY ReserveType, RowType DEF Nil
<1>2. TickOut(p, t, a, h) \in Nat \cup {Nil} /\ TickIn(p, t, a, h) \in Nat \cup {Nil}
  BY TickType
<1>3. amountOut(a, rIn, rOut, f) \in Nat \cup {Nil} /\ amountIn(a, rIn, rOut, f) \in Nat \cup {Nil}
  <2> HIDE DEF rIn, rOut, f
  <2> QED BY <1>1, OutKeepsProduct, InKeepsProduct
<1>4. a <= 0 => /\ amountOut(a, rIn, rOut, f) = Nil /\ amountIn(a, rIn, rOut, f) = Nil
                /\ TickOut(p, t, a, h) = Nil /\ TickIn(p, t, a, h) = Nil
  BY DEF amountOut, amountIn, TickOut, TickIn
<1> QED BY <1>2, <1>3, <1>4 DEF PoolOut, PoolIn

\* The periphery finds what a pool that is not known for a pair was quoted from.
LEMMA NamedQuoted ==
  ASSUME NEW p \in Pool, NEW t, NEW u, Sides(p) = {t, u}, venues[p] # "v2", Priceable(p)
  PROVE  /\ Named(t, u, Row[p].fee) # {}
         /\ (CHOOSE q \in Named(t, u, Row[p].fee) : TRUE) = Quoted(p)
         /\ Quoted(p) \in Pool
<1> DEFINE q == CHOOSE x \in Named(t, u, Row[p].fee) : TRUE
<1>1. Named(t, u, Row[p].fee) = Namesakes(p) /\ Namesakes(p) # {}
  BY DEF Namesakes, Named, Sides, Priceable
<1>2. q \in Pool /\ Venue[q] = "v3" /\ Sides(q) = Sides(p) /\ Row[q].fee = Row[p].fee
  BY <1>1 DEF Named
<1>3. Venue[p] = "v3" => q = p
  BY <1>2, OneOfAName
<1>4. q = Quoted(p)
  BY <1>1, <1>3 DEF Quoted
<1> QED BY <1>1, <1>2, <1>4

\* Turning a path round twice gives it back.
LEMMA ReverseTwice ==
  ASSUME NEW S, NEW s \in Seq(S)
  PROVE  reverse(reverse(s)) = s
<1>1. Len(s) \in Nat /\ DOMAIN s = 1 .. Len(s)
  OBVIOUS
<1>2. reverse(s) \in [1 .. Len(s) -> S]
  BY <1>1 DEF reverse
<1>3. reverse(s) \in Seq(S) /\ Len(reverse(s)) = Len(s) /\ DOMAIN reverse(s) = 1 .. Len(s)
  BY <1>1, <1>2
<1>4. \A i \in 1 .. Len(s) : reverse(s)[i] = s[Len(s) + 1 - i]
  BY <1>1 DEF reverse
<1>5. DOMAIN reverse(reverse(s)) = 1 .. Len(s)
  BY <1>3 DEF reverse
<1>6. \A i \in 1 .. Len(s) : reverse(reverse(s))[i] = reverse(s)[Len(s) + 1 - i]
  BY <1>3 DEF reverse
<1>7. \A i \in 1 .. Len(s) : reverse(reverse(s))[i] = s[i]
  <2> SUFFICES ASSUME NEW i \in 1 .. Len(s) PROVE reverse(reverse(s))[i] = s[i]
    OBVIOUS
  <2>1. Len(s) + 1 - i \in 1 .. Len(s) /\ Len(s) + 1 - (Len(s) + 1 - i) = i
    BY <1>1
  <2> QED BY <1>4, <1>6, <2>1
<1>8. reverse(reverse(s)) = [i \in 1 .. Len(s) |-> reverse(reverse(s))[i]]
  BY <1>5 DEF reverse
<1>9. s = [i \in 1 .. Len(s) |-> s[i]]
  BY <1>1
<1> QED BY <1>7, <1>8, <1>9

\* An answer as a path: one or two pools, the tokens each is entered and left
\* by, the caller's amount at its end.
LEMMA AnswerShape ==
  ASSUME IInv, LegInv, answer # <<>>
  PROVE  /\ answer \in Seq(Leg) /\ Len(answer) \in {1, 2} /\ DOMAIN answer = 1 .. Len(answer)
         /\ \A i \in 1 .. Len(answer) :
              /\ answer[i].p \in Pool /\ Sides(answer[i].p) = {answer[i].in, answer[i].out}
              /\ answer[i].amtIn \in Nat \ {0} /\ answer[i].amtOut \in Nat \ {0}
              /\ Priceable(answer[i].p)
         /\ Len(answer) = 2 => answer[2].in = answer[1].out
         /\ IF req.exactIn THEN answer[1].amtIn = req.amount
                           ELSE answer[Len(answer)].amtOut = req.amount
<1>1. PICK c \in DOMAIN cands : answer = cands[c]
  BY DEF IInv, TypeOK
<1>2. /\ c \in ways /\ Laid(c, answer) /\ Chained(c, answer) /\ OwnedAll(answer)
      /\ priced(answer) /\ answer \in Seq(Leg)
  BY <1>1 DEF LegInv, Decided, IInv, TypeOK
<1>3. /\ Len(c) \in {1, 2} /\ enters(c, 2) = other(c[1], enters(c, 1))
      /\ \A i \in 1 .. Len(c) :
           c[i] \in Pool /\ Sides(c[i]) = {enters(c, i), other(c[i], enters(c, i))}
  BY <1>2, WayShape
<1>4. DOMAIN answer = 1 .. Len(c) /\ Len(answer) = Len(c)
  <2>1. DOMAIN answer = 1 .. Len(c) /\ DOMAIN answer = 1 .. Len(answer) /\ Len(answer) \in Nat
    BY <1>2 DEF Laid
  <2> QED BY <1>3, <2>1
<1>5. ASSUME NEW i \in 1 .. Len(c)
      PROVE  /\ answer[i].p \in Pool /\ Sides(answer[i].p) = {answer[i].in, answer[i].out}
             /\ answer[i].amtIn \in Nat \ {0} /\ answer[i].amtOut \in Nat \ {0}
             /\ Priceable(answer[i].p)
  <2>1. answer[i] \in Leg
    BY <1>2, <1>4
  <2>2. answer[i].amtIn > 0 /\ answer[i].amtOut > 0
    BY <1>2, <1>4 DEF priced
  <2>3. answer[i].amtIn \in Nat \ {0} /\ answer[i].amtOut \in Nat \ {0}
    BY <2>1, <2>2 DEF Leg, Nil
  <2>4. done(answer[i])
    BY <2>3 DEF done, Nil
  <2>5. Priceable(answer[i].p)
    BY <1>2, <1>4, <2>4 DEF OwnedAll, Owned
  <2> QED BY <1>2, <1>3, <2>3, <2>5 DEF Laid
<1>6. Len(c) = 2 => answer[2].in = answer[1].out
  BY <1>2, <1>3 DEF Laid
<1>7. IF req.exactIn THEN answer[1].amtIn = req.amount ELSE answer[Len(answer)].amtOut = req.amount
  BY <1>2, <1>4 DEF Chained, given, lead
<1> QED BY <1>2, <1>3, <1>4, <1>5, <1>6, <1>7

\* The tokens of a path, where its legs have them.
LEMMA TokensShape ==
  ASSUME NEW r \in Seq(Leg), Len(r) \in {1, 2}, Len(r) = 2 => r[2].in = r[1].out
  PROVE  /\ Tokens(r) \in Seq(Token) /\ Fees(r) \in Seq({Row[r[i].p].fee : i \in DOMAIN r})
         /\ DOMAIN Fees(r) = DOMAIN r /\ DOMAIN r = 1 .. Len(r)
         /\ \A i \in DOMAIN r : /\ Tokens(r)[i] = r[i].in /\ Tokens(r)[i + 1] = r[i].out
                                /\ Fees(r)[i] = Row[r[i].p].fee
<1> DEFINE outs == [i \in DOMAIN r |-> r[i].out]
<1>1. DOMAIN r = 1 .. Len(r) /\ \A i \in 1 .. Len(r) : r[i] \in Leg
  OBVIOUS
<1>2. \A i \in 1 .. Len(r) : r[i].in \in Token /\ r[i].out \in Token
  BY <1>1 DEF Leg
<1>3. outs \in [1 .. Len(r) -> Token]
  BY <1>1, <1>2
<1>4. outs \in Seq(Token) /\ Len(outs) = Len(r) /\ \A i \in 1 .. Len(r) : outs[i] = r[i].out
  BY <1>1, <1>3
<1>5. <<r[1].in>> \in Seq(Token) /\ Len(<<r[1].in>>) = 1
  BY <1>2
<1>6. Tokens(r) = <<r[1].in>> \o outs
  BY DEF Tokens
<1> HIDE DEF outs
<1>7. Tokens(r) \in Seq(Token)
  BY <1>4, <1>5, <1>6
<1>8. Tokens(r)[1] = r[1].in /\ \A i \in 1 .. Len(r) : Tokens(r)[i + 1] = r[i].out
  BY <1>4, <1>5, <1>6
<1>9. \A i \in 1 .. Len(r) : Tokens(r)[i] = r[i].in
  <2>1. CASE Len(r) = 1
    BY <1>8, <2>1
  <2>2. CASE Len(r) = 2
    <3>1. Tokens(r)[2] = r[1].out
      <4>1. 1 \in 1 .. Len(r) /\ 1 + 1 = 2
        BY <2>2
      <4> QED BY <1>8, <4>1
    <3> QED BY <1>8, <2>2, <3>1
  <2> QED BY <2>1, <2>2
<1>10. Fees(r) \in [1 .. Len(r) -> {Row[r[i].p].fee : i \in DOMAIN r}]
  BY <1>1 DEF Fees
<1>11. Fees(r) \in Seq({Row[r[i].p].fee : i \in DOMAIN r})
  BY <1>10
<1>12. DOMAIN Fees(r) = DOMAIN r /\ \A i \in DOMAIN r : Fees(r)[i] = Row[r[i].p].fee
  BY DEF Fees
<1> QED BY <1>1, <1>7, <1>8, <1>9, <1>11, <1>12


\* The router walks the quoted pools: what it settles a built call at is what
\* they pay at its block.
LEMMA SettleWalks ==
  ASSUME IInv, LegInv, Built, pc = "approved"
  PROVE  LET onward == Onward(PoolsOf(answer), Tokens(answer), req.amount, height, Charge)
             back == Backward(PoolsOf(answer), Tokens(answer), req.amount, height, Charge)
             paid == IF req.exactIn THEN req.amount ELSE back
             got  == IF req.exactIn THEN onward ELSE req.amount
             fund == IF call.value > 0 THEN call.value ELSE allowance
         IN  /\ Settle(call).paid = paid /\ Settle(call).got = got /\ Settle(call).at = height
             /\ Settle(call).filled = (/\ paid # Nil /\ got # Nil /\ paid <= fund
                                       /\ IF req.exactIn THEN got >= call.limit ELSE paid <= call.limit)
<1> DEFINE r == answer
           ends == IF req.exactIn THEN r[1].amtIn ELSE r[Len(r)].amtOut
<1>1. r # <<>> /\ call = swapCall(r) /\ \A i \in DOMAIN r : venues[r[i].p] # "v2"
  BY DEF Built
<1>2. /\ r \in Seq(Leg) /\ Len(r) \in {1, 2} /\ DOMAIN r = 1 .. Len(r)
      /\ \A i \in 1 .. Len(r) :
           /\ r[i].p \in Pool /\ Sides(r[i].p) = {r[i].in, r[i].out}
           /\ Priceable(r[i].p)
      /\ Len(r) = 2 => r[2].in = r[1].out
      /\ ends = req.amount
  BY <1>1, AnswerShape
<1>3. /\ Tokens(r) \in Seq(Token) /\ Fees(r) \in Seq({Row[r[i].p].fee : i \in DOMAIN r})
      /\ DOMAIN Fees(r) = DOMAIN r
      /\ \A i \in DOMAIN r : /\ Tokens(r)[i] = r[i].in /\ Tokens(r)[i + 1] = r[i].out
                             /\ Fees(r)[i] = Row[r[i].p].fee
  BY <1>2, TokensShape
<1>4. reverse(reverse(Tokens(r))) = Tokens(r) /\ reverse(reverse(Fees(r))) = Fees(r)
  BY <1>3, ReverseTwice, Zenon
<1>5. req.exactIn \in BOOLEAN
  BY AskType DEF IInv, TypeOK
<1>6. /\ call.amount = req.amount
      /\ req.exactIn <=> call.fn \in {"exactInputSingle", "exactInput"}
      /\ IF call.fn = "exactOutput"
           THEN call.tokens = reverse(Tokens(r)) /\ call.fees = reverse(Fees(r))
           ELSE call.tokens = Tokens(r) /\ call.fees = Fees(r)
  <2>1. /\ call.amount = ends
        /\ call.fn = CASE req.exactIn /\ Len(r) = 1  -> "exactInputSingle"
                       [] req.exactIn /\ ~(Len(r) = 1) -> "exactInput"
                       [] ~req.exactIn /\ Len(r) = 1 -> "exactOutputSingle"
                       [] OTHER                  -> "exactOutput"
        /\ call.tokens = (IF ~req.exactIn /\ ~(Len(r) = 1) THEN reverse(Tokens(r)) ELSE Tokens(r))
        /\ call.fees = (IF ~req.exactIn /\ ~(Len(r) = 1) THEN reverse(Fees(r)) ELSE Fees(r))
    BY <1>1 DEF swapCall
  <2>2. CASE req.exactIn
    BY <1>2, <2>1, <2>2
  <2>3. CASE ~req.exactIn
    BY <1>2, <2>1, <2>3
  <2> QED BY <2>2, <2>3
<1> DEFINE fwd == IF call.fn = "exactOutput" THEN reverse(call.tokens) ELSE call.tokens
           fees == IF call.fn = "exactOutput" THEN reverse(call.fees) ELSE call.fees
           ps == [i \in DOMAIN fees |-> Named(fwd[i], fwd[i + 1], fees[i])]
           way == [i \in DOMAIN fees |-> CHOOSE p \in ps[i] : TRUE]
           real == \A i \in DOMAIN fees : ps[i] # {}
           ein == call.fn \in {"exactInputSingle", "exactInput"}
           paid == IF ein THEN call.amount ELSE IF real THEN Backward(way, fwd, call.amount, height, Charge) ELSE Nil
           got == IF ~ein THEN call.amount ELSE IF real THEN Onward(way, fwd, call.amount, height, Charge) ELSE Nil
           fund == IF call.value > 0 THEN call.value ELSE allowance
           ok == paid # Nil /\ got # Nil /\ paid <= fund /\ (IF ein THEN got >= call.limit ELSE paid <= call.limit)
<1>7. Settle(call) = [filled |-> ok, paid |-> paid, got |-> got, at |-> height]
  BY DEF Settle
<1>8. fwd = Tokens(r) /\ fees = Fees(r)
  BY <1>4, <1>6
<1>9. /\ DOMAIN fees = DOMAIN r
      /\ \A i \in DOMAIN r : ps[i] # {} /\ (CHOOSE p \in ps[i] : TRUE) = Quoted(r[i].p)
  <2>1. DOMAIN fees = DOMAIN r
    BY <1>3, <1>8
  <2>2. ASSUME NEW i \in DOMAIN r
        PROVE  ps[i] # {} /\ (CHOOSE p \in ps[i] : TRUE) = Quoted(r[i].p)
    <3>1. /\ venues[r[i].p] # "v2" /\ Priceable(r[i].p)
          /\ r[i].p \in Pool /\ Sides(r[i].p) = {r[i].in, r[i].out}
      BY <1>1, <1>2
    <3>2. /\ Named(r[i].in, r[i].out, Row[r[i].p].fee) # {}
          /\ (CHOOSE p \in Named(r[i].in, r[i].out, Row[r[i].p].fee) : TRUE) = Quoted(r[i].p)
      BY <3>1, NamedQuoted
    <3>3. ps[i] = Named(fwd[i], fwd[i + 1], fees[i])
      BY <2>1
    <3>4. fwd[i] = r[i].in /\ fwd[i + 1] = r[i].out /\ fees[i] = Row[r[i].p].fee
      BY <1>3, <1>8
    <3> HIDE DEF ps, fwd, fees
    <3> QED BY <3>2, <3>3, <3>4
  <2> QED BY <2>1, <2>2
<1>10. real /\ way = PoolsOf(r)
  <2> HIDE DEF ps, fees
  <2> QED BY <1>9 DEF PoolsOf
<1> HIDE DEF fwd, fees, ps, way, real
<1>11. /\ ein <=> req.exactIn
       /\ paid = IF req.exactIn THEN req.amount ELSE Backward(PoolsOf(r), Tokens(r), req.amount, height, Charge)
       /\ got = IF req.exactIn THEN Onward(PoolsOf(r), Tokens(r), req.amount, height, Charge) ELSE req.amount
  BY <1>5, <1>6, <1>8, <1>10
<1> HIDE DEF paid, got, ein, fund
<1>12. /\ Settle(call).paid = paid /\ Settle(call).got = got /\ Settle(call).at = height
       /\ Settle(call).filled = ok
  BY <1>7
<1> HIDE DEF r
<1> QED BY <1>11, <1>12 DEF fund, r

\* Amounts of a built call are natural.
LEMMA CallType ==
  ASSUME IInv, LegInv, answer # <<>>, call = swapCall(answer)
  PROVE  /\ call.limit \in Nat /\ Most \in Nat
         /\ call.limit = IF req.exactIn THEN down(answer[Len(answer)].amtOut, req.bps)
                                        ELSE up(answer[1].amtIn, req.bps)
         /\ call.amount = req.amount /\ req.amount \in Nat \ {0} /\ req.exactIn \in BOOLEAN
         /\ call.value = IF req.in = Coin THEN answer[1].amtIn ELSE 0
<1>1. req \in Asks
  BY DEF IInv, TypeOK
<1>2. req.amount \in Nat \ {0} /\ req.exactIn \in BOOLEAN
  BY <1>1, AskType
<1> DEFINE a == answer[1].amtIn
           b == answer[Len(answer)].amtOut
<1>3. /\ a \in Nat /\ b \in Nat
      /\ IF req.exactIn THEN a = req.amount ELSE b = req.amount
  <2>1. Len(answer) \in {1, 2}
    BY AnswerShape
  <2>2. 1 \in 1 .. Len(answer) /\ Len(answer) \in 1 .. Len(answer)
    BY <2>1
  <2> QED BY <2>2, AnswerShape
<1>4. /\ call.amount = (IF req.exactIn THEN a ELSE b)
      /\ call.limit = (IF req.exactIn THEN down(b, req.bps) ELSE up(a, req.bps))
      /\ call.value = (IF req.in = Coin THEN a ELSE 0)
  BY DEF swapCall
<1> HIDE DEF a, b
<1>5. ASSUME NEW x \in Nat PROVE down(x, req.bps) \in Nat /\ up(x, req.bps) \in Nat
  <2> DEFINE y == req.bps
  <2>1. 10000 - y \in Nat /\ 10000 + y \in Nat
    <3>1. y \in Int /\ 0 <= y /\ y <= 10000
      BY <1>1, SlippageType
    <3> HIDE DEF y
    <3> QED BY <3>1
  <2>2. x * (10000 - req.bps) \in Nat /\ x * (10000 + req.bps) \in Nat
    BY <2>1
  <2> QED BY <2>2, Quotient DEF down, up
<1>6. call.limit \in Nat
  BY <1>3, <1>4, <1>5
<1> QED BY <1>2, <1>3, <1>4, <1>6 DEF Most, a, b

\* Walking an answer's pools from its end yields an amount or nothing.
LEMMA BackwardType ==
  ASSUME IInv, LegInv, answer # <<>>
  PROVE  Backward(PoolsOf(answer), Tokens(answer), req.amount, height, Charge) \in Nat \cup {Nil}
<1>1. req.amount \in Nat /\ height \in Height
  BY AskType DEF IInv, TypeOK
<1>2. /\ Len(answer) \in {1, 2} /\ DOMAIN answer = 1 .. Len(answer)
      /\ \A i \in 1 .. Len(answer) : /\ answer[i].p \in Pool /\ Priceable(answer[i].p)
                                       /\ Sides(answer[i].p) = {answer[i].in, answer[i].out}
  BY AnswerShape
<1>3. PoolsOf(answer) \in [1 .. Len(answer) -> Pool]
  <2>1. \A i \in 1 .. Len(answer) : Quoted(answer[i].p) \in Pool
    <3>1. \A i \in 1 .. Len(answer) : venues[answer[i].p] # "v2" => Quoted(answer[i].p) \in Pool
      BY <1>2, NamedQuoted
    <3> QED BY <1>2, <3>1 DEF Quoted
  <2> QED BY <1>2, <2>1 DEF PoolsOf
<1>4. Len(PoolsOf(answer)) = Len(answer) /\ \A i \in 1 .. Len(answer) : PoolsOf(answer)[i] \in Pool
  BY <1>2, <1>3
<1> DEFINE ps == PoolsOf(answer)
           ts == Tokens(answer)
           n == Len(ps)
           last == PoolIn(ps[n], ts[n], req.amount, height, Charge)
<1>5. ps[n] \in Pool /\ ps[1] \in Pool /\ Charge[ps[n]] \in Nat /\ Charge[ps[1]] \in Nat
  BY <1>2, <1>4, RowType
<1> HIDE DEF ps, ts, n
<1>6. last \in Nat \cup {Nil}
  BY <1>1, <1>5, PoolType
<1>7. PoolIn(ps[1], ts[1], last, height, Charge) \in Nat \cup {Nil}
  <2> HIDE DEF last
  <2> QED BY <1>1, <1>5, <1>6, PoolType
<1> QED BY <1>6, <1>7 DEF Backward, ps, ts, n

\* The wallet's transaction does what the quote said it would.
LEMMA ExecuteFills ==
  ASSUME CoinPays, IInv, LegInv, FillInv, Execute
  PROVE  FillsAsQuoted'
<1> DEFINE onward == Onward(PoolsOf(answer), Tokens(answer), req.amount, height, Charge)
           back == Backward(PoolsOf(answer), Tokens(answer), req.amount, height, Charge)
           fund == IF call.value > 0 THEN call.value ELSE allowance
           last == answer[Len(answer)].amtOut
           first == answer[1].amtIn
<1>1. /\ pc = "approved" /\ answer' = answer /\ req' = req /\ outcome' = Settle(call)
      /\ Built /\ Approved /\ answer # <<>> /\ call = swapCall(answer)
      /\ PoolsOf(answer)' = PoolsOf(answer)
  BY DEF Execute, FillInv, Built, PoolsOf, Quoted
<1>2. /\ outcome'.paid = IF req.exactIn THEN req.amount ELSE back
      /\ outcome'.got = IF req.exactIn THEN onward ELSE req.amount
      /\ outcome'.at = height
      /\ outcome'.filled = (/\ (IF req.exactIn THEN req.amount ELSE back) # Nil
                            /\ (IF req.exactIn THEN onward ELSE req.amount) # Nil
                            /\ (IF req.exactIn THEN req.amount ELSE back) <= fund
                            /\ IF req.exactIn THEN (IF req.exactIn THEN onward ELSE req.amount) >= call.limit
                                              ELSE (IF req.exactIn THEN req.amount ELSE back) <= call.limit)
  BY <1>1, SettleWalks, Zenon
<1>3. /\ call.limit \in Nat /\ Most \in Nat
      /\ call.limit = IF req.exactIn THEN down(last, req.bps) ELSE up(first, req.bps)
      /\ call.amount = req.amount /\ req.amount \in Nat \ {0} /\ req.exactIn \in BOOLEAN
      /\ call.value = IF req.in = Coin THEN first ELSE 0
  BY <1>1, CallType
<1>4. back \in Nat \cup {Nil} /\ allowance \in Nat
  BY <1>1, BackwardType DEF IInv, TypeOK
<1>5. req.exactIn => first = req.amount
  BY <1>1, AnswerShape
<1>6. req.in = Coin => req.exactIn
  BY DEF CoinPays, IInv, TypeOK
<1>7. req.in = Coin \/ allowance >= Most
  BY <1>1 DEF Approved
<1>8. SUFFICES IF req.exactIn
          THEN /\ outcome'.filled <=> onward # Nil /\ onward >= down(last, req.bps)
               /\ outcome'.filled => outcome'.got = onward /\ outcome'.paid = req.amount
          ELSE /\ outcome'.filled <=> back # Nil /\ back <= up(first, req.bps)
               /\ outcome'.filled => outcome'.paid = back /\ outcome'.got = req.amount
  BY <1>1, <1>2, Zenon DEF FillsAsQuoted
<1> HIDE DEF onward, back, last, first
<1>9. CASE req.exactIn
  <2>1. req.amount <= fund
    BY <1>3, <1>4, <1>5, <1>7, <1>9 DEF Most
  <2>2. req.amount # Nil
    BY <1>3 DEF Nil
  <2> HIDE DEF fund
  <2>3. outcome'.filled = (onward # Nil /\ onward >= down(last, req.bps))
    BY <1>2, <1>3, <1>9, <2>1, <2>2
  <2> QED BY <1>2, <1>9, <2>3
<1>10. CASE ~req.exactIn
  <2>1. fund = allowance /\ allowance >= call.limit
    BY <1>3, <1>6, <1>7, <1>10 DEF Most
  <2>2. req.amount # Nil
    BY <1>3 DEF Nil
  <2>3. back <= call.limit => back <= fund
    BY <1>3, <1>4, <2>1 DEF Nil
  <2> HIDE DEF fund
  <2>4. outcome'.filled = (back # Nil /\ back <= up(first, req.bps))
    BY <1>2, <1>3, <1>10, <2>2, <2>3
  <2> QED BY <1>2, <1>10, <2>4
<1> QED BY <1>3, <1>9, <1>10


\* Every step keeps the call and its outcome true to the quote.
LEMMA FillStep ==
  CoinPays /\ IInv /\ LegInv /\ FillInv /\ WordEnough /\ [Next]_vars => FillInv'
<1> SUFFICES ASSUME CoinPays, IInv, LegInv, FillInv, WordEnough, [Next]_vars PROVE FillInv'
  OBVIOUS
<1>1. ASSUME pc' \notin {"built", "approved", "settled"} PROVE FillInv'
  BY <1>1 DEF FillInv, Built, Approved, FillsAsQuoted
<1>2. ASSUME UNCHANGED <<pc, req, venues, answer, call, allowance, outcome>> PROVE FillInv'
  <2>1. swapCall(answer)' = swapCall(answer) /\ Most' = Most
    BY <1>2 DEF swapCall, Most
  <2>2. Built' /\ Approved'
    BY <1>2, <2>1 DEF FillInv, Built, Approved
  <2>3. PoolsOf(answer)' = PoolsOf(answer)
    BY <1>2 DEF PoolsOf, Quoted
  <2>4. FillsAsQuoted'
    BY <1>2, <2>3 DEF FillInv, FillsAsQuoted
  <2> QED BY <2>2, <2>4 DEF FillInv
<1>3. CASE Build
  <2>1. /\ answer # <<>> /\ call' = swapCall(answer) /\ UNCHANGED <<answer, req, venues>>
        /\ \A i \in DOMAIN answer : venues[answer[i].p] # "v2"
        /\ pc' = "built"
    BY <1>3 DEF Build
  <2>2. swapCall(answer)' = swapCall(answer)
    BY <2>1 DEF swapCall
  <2> QED BY <2>1, <2>2 DEF FillInv, Built, Approved, FillsAsQuoted
<1>4. CASE CheckApproval
  <2>1. /\ pc = "built" /\ pc' = "approved" /\ UNCHANGED <<answer, req, venues, call>>
        /\ answer # <<>> /\ call = swapCall(answer)
        /\ \A i \in DOMAIN answer : venues[answer[i].p] # "v2"
    BY <1>4 DEF CheckApproval, FillInv, Built
  <2>2. swapCall(answer)' = swapCall(answer) /\ Most' = Most
    BY <2>1 DEF swapCall, Most
  <2>3. PICK heard \in BOOLEAN :
          allowance' = IF req.in = Coin \/ readAllowance(heard) >= Most THEN allowance ELSE Unlimited
    BY <1>4 DEF CheckApproval
  <2>4. Most \in Nat /\ allowance \in Nat
    BY <2>1, CallType DEF IInv, TypeOK
  <2>5. req.in = Coin \/ allowance' >= Most
    <3>1. readAllowance(heard) \in {allowance, 0}
      BY DEF readAllowance
    <3>2. readAllowance(heard) >= Most => allowance >= Most
      BY <2>4, <3>1
    <3> QED BY <2>3, <2>4, <3>2 DEF WordEnough, Unlimited
  <2> QED BY <2>1, <2>2, <2>5 DEF FillInv, Built, Approved, FillsAsQuoted
<1>5. CASE Execute
  <2>1. /\ pc = "approved" /\ pc' = "settled" /\ UNCHANGED <<answer, req, venues, call>>
        /\ answer # <<>> /\ call = swapCall(answer)
        /\ \A i \in DOMAIN answer : venues[answer[i].p] # "v2"
    BY <1>5 DEF Execute, FillInv, Built
  <2>2. swapCall(answer)' = swapCall(answer)
    BY <2>1 DEF swapCall
  <2>3. FillsAsQuoted'
    BY <1>5, ExecuteFills
  <2> QED BY <2>1, <2>2, <2>3 DEF FillInv, Built, Approved
<1>6. CASE Block \/ UNCHANGED vars
  BY <1>2, <1>6 DEF Block, vars
<1>7. CASE Ask \/ Classify \/ NodeFails \/ Price1 \/ Price2 \/ Decorate
  BY <1>1, <1>7 DEF Ask, Classify, NodeFails, NoRoute, Price1, Price2, Decorate
<1> QED BY <1>3, <1>4, <1>5, <1>6, <1>7 DEF Next

\* A trade built from a quote and approved as HandleCheckApproval says fills
\* exactly when the pools it was quoted from are still within the slippage, and
\* at what they pay: for every book, when a trade paid in the coin fixes what it
\* pays and amounts are below the largest approval.
THEOREM FillsAreAsQuoted ==
  CoinPays => (Spec /\ []WordEnough => []FillsAsQuoted)
<1> SUFFICES ASSUME CoinPays PROVE Spec /\ []WordEnough => []FillsAsQuoted
  OBVIOUS
<1>1. Init => FillInv
  BY DEF Init, FillInv, Built, Approved, FillsAsQuoted
<1>2. IInv /\ LegInv /\ FillInv /\ WordEnough /\ [Next]_vars => FillInv'
  BY FillStep
<1>3. FillInv => FillsAsQuoted
  BY DEF FillInv
<1>4. Spec => [](IInv /\ LegInv)
  BY LegInvariant
<1> QED BY <1>1, <1>2, <1>3, <1>4, PTL DEF Spec

------------------------------------------------------------------------------
(* The search *)

\* No way is cut off by maxRoutes.
AllFit == \A r \in ways : Cardinality({s \in ways : Before(s, r)}) < MaxRoutes

Known == \A p \in book : venues[p] = Venue[p]

\* What the leg with the caller's amount pays, and then the other one.
FirstPay(c, h) == Pays(c[lead(c)], enters(c, lead(c)), req.amount, h)
Total(c, h) ==
  IF Len(c) = 1 THEN FirstPay(c, h)
  ELSE Pays(c[3 - lead(c)], enters(c, 3 - lead(c)), FirstPay(c, h), h)

\* One round at block h has been asked.
Once(c, ls, h) ==
  /\ sought(ls[lead(c)]) = FirstPay(c, h)
  /\ Len(c) = 2 => /\ given(ls[3 - lead(c)]) = FirstPay(c, h)
                   /\ sought(ls[3 - lead(c)]) = Nil

\* Nothing the answer could have been is better.
Unbeaten(h) ==
  \A w \in ways :
    \/ Total(w, h) <= 0
    \/ /\ answer # <<>>
       /\ IF req.exactIn THEN Total(w, h) <= answer[Len(answer)].amtOut
                         ELSE Total(w, h) >= answer[1].amtIn

SearchInv ==
  /\ pc = "classify" => readAt = {}
  /\ pc = "price1" =>
       /\ DOMAIN cands = ways /\ ways # {} /\ readAt = {}
       /\ ~lost => Known
       /\ \A c \in DOMAIN cands : Fresh(c, cands[c])
  /\ (pc = "price2" /\ ~lost) =>
       /\ Known /\ DOMAIN cands = ways
       /\ \E h \in Height : readAt = {h} /\ \A c \in DOMAIN cands : Once(c, cands[c], h)
  /\ (pc \in {"decorate", "answered", "built", "approved", "settled"} /\ ~lost) =>
       \A h \in Height : readAt = {h} => Unbeaten(h)

\* Ways are what the search looks through.
LEMMA WaysFound == Ways \subseteq ways
<1> SUFFICES ASSUME NEW w \in Ways PROVE w \in ways
  OBVIOUS
<1>1. CASE w \in {<<p>> : p \in direct}
  BY <1>1 DEF ways
<1>2. CASE w \in book \X book /\ w \notin {<<p>> : p \in direct}
  <2> DEFINE m == other(w[1], In)
  <2>1. /\ w[1] \in book /\ w[2] \in book /\ w = <<w[1], w[2]>>
        /\ w[1] # w[2] /\ In \in Sides(w[1]) /\ Out \in Sides(w[2])
        /\ m = other(w[2], Out) /\ m # In /\ m # Out
    BY <1>2 DEF Ways
  <2>2. m \in Sides(w[1]) /\ m \in Sides(w[2])
    BY <2>1 DEF Sides, other
  <2>3. w[1] \notin direct /\ w[2] \notin direct
    BY <2>1, <2>2 DEF direct
  <2>4. w[1] \in byToken(In) /\ w[2] \in byToken(m)
    BY <2>1, <2>2, <2>3 DEF byToken
  <2>5. other(w[2], m) = Out
    BY <2>1 DEF Sides, other
  <2>6. w \in byToken(In) \X book
    BY <2>1, <2>4
  <2>7. w \in mids
    BY <2>1, <2>4, <2>5, <2>6 DEF mids
  <2> QED BY <2>7 DEF ways
<1> QED BY <1>1, <1>2 DEF Ways


\* What the chain pays along a way is what two passes at one block would find.
LEMMA TotalIs ==
  ASSUME NEW w \in Ways, NEW h, req.exactIn \in BOOLEAN
  PROVE  Total(w, h) = IF req.exactIn THEN Onward(w, TokensOf(w), req.amount, h, Recorded)
                                      ELSE Backward(w, TokensOf(w), req.amount, h, Recorded)
<1>1. Len(w) \in {1, 2}
  BY WaysFound, WayShape
<1>2. enters(w, 1) = In /\ enters(w, 2) = other(w[1], In)
  BY DEF enters
<1>3. CASE Len(w) = 1
  <2>1. TokensOf(w)[1] = In
    BY <1>3 DEF TokensOf
  <2> QED BY <1>2, <1>3, <2>1 DEF Total, FirstPay, lead, Pays, Onward, Backward
<1>4. CASE Len(w) = 2
  <2>1. TokensOf(w)[1] = In /\ TokensOf(w)[2] = other(w[1], In)
    BY <1>4 DEF TokensOf
  <2>2. CASE req.exactIn
    <3>1. lead(w) = 1 /\ 3 - lead(w) = 2
      BY <2>2 DEF lead
    <3> QED BY <1>2, <1>4, <2>1, <2>2, <3>1 DEF Total, FirstPay, Pays, Onward
  <2>3. CASE ~req.exactIn
    <3>1. lead(w) = 2 /\ 3 - lead(w) = 1
      BY <1>4, <2>3 DEF lead
    <3> QED BY <1>2, <1>4, <2>1, <2>3, <3>1 DEF Total, FirstPay, Pays, Backward
  <2> QED BY <2>2, <2>3
<1> QED BY <1>1, <1>3, <1>4

\* The other leg of a route of two waits for the one with the caller's amount.
LEMMA LeadShape ==
  ASSUME req \in Asks, NEW c \in ways
  PROVE  /\ lead(c) \in 1 .. Len(c)
         /\ Len(c) \in {1, 2}
         /\ Len(c) = 1 => lead(c) = 1 /\ 1 .. Len(c) = {lead(c)} /\ source(lead(c)) \notin 1 .. Len(c)
         /\ Len(c) = 2 => /\ 3 - lead(c) \in 1 .. Len(c) /\ 3 - lead(c) # lead(c)
                          /\ 1 .. Len(c) = {lead(c), 3 - lead(c)}
                          /\ source(3 - lead(c)) = lead(c)
                          /\ source(lead(c)) \notin 1 .. Len(c)
<1>1. Len(c) \in {1, 2} /\ req.exactIn \in BOOLEAN
  BY WayShape, AskType
<1>2. CASE Len(c) = 1
  BY <1>1, <1>2 DEF lead, source
<1>3. CASE Len(c) = 2
  <2>1. 1 .. Len(c) = {1, 2}
    BY <1>3
  <2>2. CASE req.exactIn
    BY <1>3, <2>1, <2>2 DEF lead, source
  <2>3. CASE ~req.exactIn
    BY <1>3, <2>1, <2>3 DEF lead, source
  <2> QED BY <1>1, <2>2, <2>3
<1> QED BY <1>1, <1>2, <1>3

\* What a pool of the book pays is an amount or nothing.
LEMMA PaysType ==
  ASSUME req \in Asks, NEW p \in Pool, NEW h \in Height, NEW t, NEW a \in Nat \cup {Nil}
  PROVE  Pays(p, t, a, h) \in Nat \cup {Nil} /\ (a <= 0 => Pays(p, t, a, h) = Nil)
<1>1. /\ PoolOut(p, t, a, h, Recorded) \in Nat \cup {Nil} /\ PoolIn(p, t, a, h, Recorded) \in Nat \cup {Nil}
      /\ a <= 0 => PoolOut(p, t, a, h, Recorded) = Nil /\ PoolIn(p, t, a, h, Recorded) = Nil
  <2>1. Recorded[p] \in Nat
    BY RowType
  <2> QED BY <2>1, PoolType
<1> HIDE DEF Nil
<1> QED BY <1>1 DEF Pays

\* A pass in which every reply came back.
LEMMA WholePass ==
  ASSUME IInv, LegInv, Known, NEW c \in DOMAIN cands
  PROVE  \E mid \in Seq(Leg) :
           /\ DOMAIN mid = 1 .. Len(c) /\ priceReady({})[c] = fed(mid)
           /\ \A i \in 1 .. Len(c) :
                /\ given(mid[i]) = given(cands[c][i])
                /\ sought(mid[i]) = IF ready(cands[c][i])
                                      THEN Pays(c[i], enters(c, i), given(cands[c][i]), height)
                                      ELSE sought(cands[c][i])
<1> DEFINE none == {}
<1> HIDE DEF none
<1>1. PICK mid \in Seq(Leg) :
           /\ DOMAIN mid = 1 .. Len(c) /\ priceReady(none)[c] = fed(mid)
           /\ \A i \in DOMAIN mid :
                /\ Sided(mid[i])
                /\ mid[i].p = c[i] /\ mid[i].in = enters(c, i) /\ mid[i].out = other(c[i], enters(c, i))
                /\ given(mid[i]) = given(cands[c][i])
                /\ \/ /\ mid[i] = cands[c][i]
                      /\ ~ready(cands[c][i]) \/ c[i] \in none \/ venues[c[i]] = ""
                   \/ /\ ready(cands[c][i]) /\ mid[i].at = height
                      /\ sought(mid[i]) = Pays(Quoted(c[i]), enters(c, i), given(mid[i]), height)
                      /\ Priceable(c[i])
  BY PassShape
<1>2. \A i \in 1 .. Len(c) : venues[c[i]] # "" /\ Quoted(c[i]) = c[i]
  <2>1. c \in ways
    BY DEF LegInv
  <2>2. \A i \in 1 .. Len(c) : c[i] \in book /\ c[i] \in Pool
    BY <2>1, WayShape
  <2> QED BY <2>2, RowType DEF Known, Quoted
<1>3. \A i \in 1 .. Len(c) :
        /\ given(mid[i]) = given(cands[c][i])
        /\ sought(mid[i]) = IF ready(cands[c][i])
                              THEN Pays(c[i], enters(c, i), given(cands[c][i]), height)
                              ELSE sought(cands[c][i])
  BY <1>1, <1>2 DEF none
<1> QED BY <1>1, <1>3, Zenon DEF none

\* After the first pass the leg with the caller's amount has its pool's word, and
\* the other one has the amount it will be priced from.
LEMMA PassOnce ==
  ASSUME IInv, LegInv, Known, NEW c \in DOMAIN cands, Fresh(c, cands[c])
  PROVE  Once(c, priceReady({})[c], height)
<1> DEFINE old == cands[c]
           new == priceReady({})[c]
           i == lead(c)
           k == 3 - lead(c)
<1>1. PICK mid \in Seq(Leg) :
           /\ DOMAIN mid = 1 .. Len(c) /\ new = fed(mid)
           /\ \A n \in 1 .. Len(c) :
                /\ given(mid[n]) = given(old[n])
                /\ sought(mid[n]) = IF ready(old[n])
                                      THEN Pays(c[n], enters(c, n), given(old[n]), height)
                                      ELSE sought(old[n])
  BY WholePass
<1>2. /\ req \in Asks /\ c \in ways /\ Chained(c, old) /\ Laid(c, old)
  BY DEF IInv, TypeOK, LegInv
<1>3. \A j \in 1 .. Len(c) :
         /\ sought(new[j]) = sought(mid[j])
         /\ given(new[j]) = IF source(j) \in 1 .. Len(c) /\ given(mid[j]) = Nil
                              THEN sought(mid[source(j)]) ELSE given(mid[j])
  <2> HIDE DEF new
  <2>1. DOMAIN mid = 1 .. Len(c) /\ new = fed(mid)
    BY <1>1
  <2> QED BY <1>2, <2>1, FedShape, Zenon
<1>4. /\ i \in 1 .. Len(c)
      /\ Len(c) = 2 => k \in 1 .. Len(c) /\ k # i /\ source(k) = i
  BY <1>2, LeadShape
<1>5. /\ given(old[i]) = req.amount /\ req.amount # Nil
  BY <1>2, AskType DEF Chained, Nil
<1>6. \A n \in 1 .. Len(c) : sought(old[n]) = Nil /\ (n # i => given(old[n]) = Nil)
  BY <1>2 DEF Fresh, Laid
<1>7. ready(old[i]) /\ \A n \in 1 .. Len(c) : n # i => ~ready(old[n])
  BY <1>2, <1>4, <1>5, <1>6, ReadyShape
<1> HIDE DEF old, new, i, k
<1>8. sought(new[i]) = FirstPay(c, height) /\ sought(mid[i]) = FirstPay(c, height)
  BY <1>1, <1>3, <1>4, <1>5, <1>7 DEF FirstPay, i
<1>9. Len(c) = 2 => given(new[k]) = FirstPay(c, height) /\ sought(new[k]) = Nil
  BY <1>1, <1>3, <1>4, <1>6, <1>7, <1>8
<1> QED BY <1>8, <1>9 DEF Once, i, k, new

\* The leg a route's result stands on.
end(c) == IF Len(c) = 1 THEN lead(c) ELSE 3 - lead(c)

\* After a second pass at the same block the result of a route is what its pools
\* pay, and a route that pays is one that best considers.
LEMMA PassTotal ==
  ASSUME IInv, LegInv, Known, NEW c \in DOMAIN cands, NEW h \in Height,
         Once(c, cands[c], h), pending => height = h
  PROVE  /\ sought(priceReady({})[c][end(c)]) = Total(c, h)
         /\ Total(c, h) > 0 => \A i \in 1 .. Len(c) : /\ given(priceReady({})[c][i]) > 0
                                                      /\ sought(priceReady({})[c][i]) > 0
<1> DEFINE old == cands[c]
           new == priceReady({})[c]
           i == lead(c)
           k == 3 - lead(c)
           v == FirstPay(c, h)
<1>1. PICK mid \in Seq(Leg) :
           /\ DOMAIN mid = 1 .. Len(c) /\ new = fed(mid)
           /\ \A n \in 1 .. Len(c) :
                /\ given(mid[n]) = given(old[n])
                /\ sought(mid[n]) = IF ready(old[n])
                                      THEN Pays(c[n], enters(c, n), given(old[n]), height)
                                      ELSE sought(old[n])
  BY WholePass
<1>2. /\ req \in Asks /\ c \in ways /\ Chained(c, old) /\ Laid(c, old)
  BY DEF IInv, TypeOK, LegInv
<1>3. \A j \in 1 .. Len(c) :
         /\ sought(new[j]) = sought(mid[j])
         /\ given(new[j]) = IF source(j) \in 1 .. Len(c) /\ given(mid[j]) = Nil
                              THEN sought(mid[source(j)]) ELSE given(mid[j])
  <2> HIDE DEF new
  <2>1. DOMAIN mid = 1 .. Len(c) /\ new = fed(mid)
    BY <1>1
  <2> QED BY <1>2, <2>1, FedShape, Zenon
<1>4. /\ Len(c) \in {1, 2} /\ i \in 1 .. Len(c) /\ source(i) \notin 1 .. Len(c)
      /\ Len(c) = 1 => 1 .. Len(c) = {i}
      /\ Len(c) = 2 => k \in 1 .. Len(c) /\ k # i /\ source(k) = i /\ 1 .. Len(c) = {i, k}
  BY <1>2, LeadShape
<1>5. given(old[i]) = req.amount /\ req.amount \in Nat \ {0} /\ req.amount # Nil
  BY <1>2, AskType DEF Chained, Nil
<1>6. sought(old[i]) = v /\ (Len(c) = 2 => given(old[k]) = v /\ sought(old[k]) = Nil)
  BY DEF Once
<1>7. \A n \in 1 .. Len(c) : c[n] \in Pool
  BY <1>2, WayShape
<1>8. v \in Nat \cup {Nil} /\ v \in Int
  <2>1. v = Pays(c[i], enters(c, i), req.amount, h)
    BY DEF FirstPay
  <2>2. c[i] \in Pool /\ req.amount \in Nat \cup {Nil}
    BY <1>4, <1>5, <1>7
  <2> HIDE DEF v, i
  <2>3. v \in Nat \cup {Nil}
    BY <1>2, <2>1, <2>2, PaysType
  <2> QED BY <2>3 DEF Nil
<1>9. \A n \in 1 .. Len(c) : ready(old[n]) => height = h
  <2>1. DOMAIN old = 1 .. Len(c)
    BY <1>2 DEF Laid
  <2> QED BY <2>1 DEF pending
<1>10. /\ ready(old[i]) <=> v = Nil
       /\ Len(c) = 2 => (ready(old[k]) <=> v # Nil)
  BY <1>2, <1>4, <1>5, <1>6, ReadyShape
<1>11. sought(new[i]) = v /\ given(new[i]) = req.amount
  <2>1. v = Pays(c[i], enters(c, i), req.amount, h)
    BY DEF FirstPay
  <2> HIDE DEF v, old, new, i
  <2> QED BY <1>1, <1>3, <1>4, <1>5, <1>6, <1>9, <1>10, <2>1
<1>12. CASE Len(c) = 1
  <2>1. Total(c, h) = v /\ end(c) = i
    BY <1>12 DEF Total, end
  <2> HIDE DEF v, new, i
  <2> QED BY <1>4, <1>5, <1>11, <1>12, <2>1 DEF new
<1>13. CASE Len(c) = 2
  <2>1. Total(c, h) = Pays(c[k], enters(c, k), v, h) /\ end(c) = k
    BY <1>13 DEF Total, end
  <2>2. c[k] \in Pool
    BY <1>4, <1>7, <1>13
  <2> HIDE DEF v, old, new, i, k
  <2>3. v <= 0 => Total(c, h) = Nil
    BY <1>2, <1>8, <2>1, <2>2, PaysType
  <2>4. sought(new[k]) = Total(c, h)
    <3>1. CASE v = Nil
      <4>1. sought(new[k]) = Nil
        BY <1>1, <1>3, <1>4, <1>6, <1>10, <1>13, <3>1
      <4> QED BY <2>3, <3>1, <4>1 DEF Nil
    <3>2. CASE v # Nil
      BY <1>1, <1>3, <1>4, <1>6, <1>9, <1>10, <1>13, <2>1, <3>2
    <3> QED BY <3>1, <3>2
  <2>5. ASSUME Total(c, h) > 0 PROVE v > 0 /\ given(new[k]) = v
    <3>1. v > 0
      BY <1>8, <2>3, <2>5 DEF Nil
    <3>2. v # Nil
      BY <3>1 DEF Nil
    <3> QED BY <1>1, <1>3, <1>4, <1>6, <1>13, <3>1, <3>2
  <2>6. Total(c, h) > 0 => \A n \in 1 .. Len(c) : given(new[n]) > 0 /\ sought(new[n]) > 0
    BY <1>4, <1>5, <1>11, <1>13, <2>4, <2>5
  <2> QED BY <2>1, <2>4, <2>6 DEF new
<1> QED BY <1>4, <1>12, <1>13


\* What best picks is unbeaten by every way, when both passes were whole and read
\* one block.
LEMMA BestUnbeaten ==
  ASSUME IInv, LegInv, Known, DOMAIN cands = ways, NEW h \in Height,
         \A c \in DOMAIN cands : Once(c, cands[c], h), pending => height = h,
         NEW a, best(priceReady({}), a), NEW w \in ways, Total(w, h) > 0
  PROVE  /\ a # <<>>
         /\ IF req.exactIn THEN Total(w, h) <= a[Len(a)].amtOut ELSE Total(w, h) >= a[1].amtIn
<1> DEFINE cs == priceReady({})
<1>1. /\ DOMAIN cs = ways /\ req \in Asks /\ req.exactIn \in BOOLEAN
      /\ \A c \in ways : c \in DOMAIN cands
  BY AskType DEF priceReady, IInv, TypeOK
<1>2. \A c \in ways : /\ sought(cs[c][end(c)]) = Total(c, h)
                      /\ Total(c, h) > 0 => \A i \in 1 .. Len(c) : given(cs[c][i]) > 0 /\ sought(cs[c][i]) > 0
  BY <1>1, PassTotal
<1>3. \A c \in ways : cs[c] \in Seq(Leg) /\ DOMAIN cs[c] = 1 .. Len(c)
  BY <1>1, PassKeeps, PassOwned DEF Laid
<1> HIDE DEF cs
<1>4. \A c \in ways : Len(c) \in {1, 2} /\ Len(cs[c]) = Len(c)
  <2> SUFFICES ASSUME NEW c \in ways PROVE Len(c) \in {1, 2} /\ Len(cs[c]) = Len(c)
    OBVIOUS
  <2>1. Len(c) \in {1, 2}
    BY WayShape
  <2>2. Len(cs[c]) \in Nat /\ 1 .. Len(cs[c]) = 1 .. Len(c)
    BY <1>3
  <2> QED BY <2>1, <2>2
<1>5. \A c \in ways : Total(c, h) = IF req.exactIn THEN cs[c][Len(cs[c])].amtOut ELSE cs[c][1].amtIn
  <2> SUFFICES ASSUME NEW c \in ways
               PROVE  Total(c, h) = IF req.exactIn THEN cs[c][Len(c)].amtOut ELSE cs[c][1].amtIn
    BY <1>4
  <2>1. CASE req.exactIn
    <3>1. end(c) = Len(c)
      BY <1>4, <2>1 DEF end, lead
    <3> QED BY <1>2, <2>1, <3>1 DEF sought
  <2>2. CASE ~req.exactIn
    <3>1. lead(c) = Len(c) /\ Len(c) \in {1, 2}
      BY <1>4, <2>2 DEF lead
    <3>2. end(c) = 1
      BY <3>1 DEF end
    <3> QED BY <1>2, <2>2, <3>2 DEF sought
  <2> QED BY <1>1, <2>1, <2>2
<1>6. priced(cs[w])
  <2>1. \A i \in 1 .. Len(w) : given(cs[w][i]) > 0 /\ sought(cs[w][i]) > 0
    BY <1>2
  <2>2. \A i \in 1 .. Len(w) : cs[w][i].amtIn > 0 /\ cs[w][i].amtOut > 0
    BY <1>1, <2>1 DEF given, sought
  <2> QED BY <1>3, <2>2 DEF priced
<1>7. PICK r \in ways : wins(cs, r) /\ a = cs[r]
  <2>1. best(cs, a)
    BY DEF cs
  <2> QED BY <1>1, <1>6, <2>1 DEF best
<1>8. a # <<>>
  <2>1. Len(a) = Len(r) /\ Len(r) \in {1, 2}
    BY <1>4, <1>7
  <2> QED BY <2>1
<1>9. /\ cs[w][Len(cs[w])].amtOut \in Int /\ cs[r][Len(cs[r])].amtOut \in Int
      /\ cs[w][1].amtIn \in Int /\ cs[r][1].amtIn \in Int
  <2> SUFFICES ASSUME NEW c \in ways
               PROVE  cs[c][Len(cs[c])].amtOut \in Int /\ cs[c][1].amtIn \in Int
    BY <1>7
  <2>1. Len(cs[c]) \in DOMAIN cs[c] /\ 1 \in DOMAIN cs[c]
    BY <1>3, <1>4
  <2>2. cs[c][Len(cs[c])] \in Leg /\ cs[c][1] \in Leg
    BY <1>3, <2>1
  <2> QED BY <2>2 DEF Leg, Nil
<1>10. r = w \/ ~beats(cs[w], cs[r])
  BY <1>1, <1>6, <1>7 DEF wins
<1>11. CASE req.exactIn
  <2>1. Total(w, h) = cs[w][Len(cs[w])].amtOut
    BY <1>5, <1>11
  <2>2. r # w => ~(cs[w][Len(cs[w])].amtOut > cs[r][Len(cs[r])].amtOut)
    BY <1>10, <1>11 DEF beats
  <2> QED BY <1>7, <1>8, <1>9, <1>11, <2>1, <2>2
<1>12. CASE ~req.exactIn
  <2>1. Total(w, h) = cs[w][1].amtIn
    BY <1>5, <1>12
  <2>2. r # w => ~(cs[w][1].amtIn < cs[r][1].amtIn)
    BY <1>10, <1>12 DEF beats
  <2> QED BY <1>7, <1>8, <1>9, <1>12, <2>1, <2>2
<1> QED BY <1>1, <1>11, <1>12

\* What a total is of is the request.
LEMMA SearchFrame ==
  ASSUME req' = req
  PROVE  /\ \A c, h : Total(c, h)' = Total(c, h)
         /\ \A c, ls : Fresh(c, ls)' <=> Fresh(c, ls)
         /\ \A c, ls, h : Once(c, ls, h)' <=> Once(c, ls, h)
         /\ ways' = ways
         /\ answer' = answer => \A h : Unbeaten(h)' <=> Unbeaten(h)
<1>1. \A c, h : FirstPay(c, h)' = FirstPay(c, h)
  BY RequestFrame DEF FirstPay
<1>2. \A c, h : Total(c, h)' = Total(c, h)
  BY <1>1, RequestFrame DEF Total
<1>3. \A c, ls : Fresh(c, ls)' <=> Fresh(c, ls)
  BY RequestFrame DEF Fresh
<1>4. \A c, ls, h : Once(c, ls, h)' <=> Once(c, ls, h)
  BY <1>1, RequestFrame DEF Once
<1>5. ways' = ways
  BY RequestFrame
<1>6. answer' = answer => \A h : Unbeaten(h)' <=> Unbeaten(h)
  BY <1>2, <1>5 DEF Unbeaten
<1> QED BY <1>2, <1>3, <1>4, <1>5, <1>6

\* A total is an amount or nothing.
LEMMA TotalType ==
  ASSUME req \in Asks, NEW c \in ways, NEW h \in Height
  PROVE  Total(c, h) \in Int
<1> USE DEF Nil
<1>1. lead(c) \in 1 .. Len(c) /\ (Len(c) = 2 => 3 - lead(c) \in 1 .. Len(c)) /\ Len(c) \in {1, 2}
  BY LeadShape
<1>2. \A i \in 1 .. Len(c) : c[i] \in Pool
  BY WayShape
<1>3. req.amount \in Nat \cup {Nil}
  BY AskType
<1>4. FirstPay(c, h) \in Nat \cup {Nil}
  BY <1>1, <1>2, <1>3, PaysType DEF FirstPay
<1>5. CASE Len(c) = 1
  BY <1>4, <1>5 DEF Total
<1>6. CASE Len(c) = 2
  <2> DEFINE v == FirstPay(c, h)
             k == 3 - lead(c)
  <2>1. Total(c, h) = Pays(c[k], enters(c, k), v, h) /\ c[k] \in Pool
    BY <1>1, <1>2, <1>6 DEF Total
  <2> HIDE DEF v, k
  <2>2. v \in Nat \cup {Nil}
    BY <1>4 DEF v
  <2>3. Total(c, h) \in Nat \cup {Nil}
    BY <2>1, <2>2, PaysType
  <2> QED BY <2>3
<1> QED BY <1>1, <1>5, <1>6

\* Every step keeps the search whole.
LEMMA SearchStep ==
  IInv /\ LegInv /\ SearchInv /\ AllFit /\ [Next]_vars => SearchInv'
<1> SUFFICES ASSUME IInv, LegInv, SearchInv, AllFit, [Next]_vars PROVE SearchInv'
  OBVIOUS
<1> DEFINE Late == {"decorate", "answered", "built", "approved", "settled"}
<1>1. req \in Asks /\ height \in Height /\ \A p \in Pool : venues[p] \in {"", Venue[p]}
  BY DEF IInv, TypeOK
<1>2. ASSUME UNCHANGED <<req, venues, cands, answer, lost, readAt>>,
             pc' = pc \/ (pc \in Late /\ pc' \in Late)
      PROVE  SearchInv'
  <2>1. /\ \A c, ls : Fresh(c, ls)' <=> Fresh(c, ls)
        /\ \A c, ls, h : Once(c, ls, h)' <=> Once(c, ls, h)
        /\ \A h : Unbeaten(h)' <=> Unbeaten(h)
        /\ ways' = ways
    BY <1>2, SearchFrame
  <2>2. Known' <=> Known
    BY <1>2 DEF Known
  <2>3. CASE pc' = pc
    BY <1>2, <2>1, <2>2, <2>3 DEF SearchInv
  <2>4. CASE pc \in Late /\ pc' \in Late
    <3>1. ~lost => \A h \in Height : readAt = {h} => Unbeaten(h)
      BY <2>4 DEF SearchInv
    <3> QED BY <1>2, <2>1, <2>4, <3>1 DEF SearchInv
  <2> QED BY <1>2, <2>3, <2>4
<1>3. CASE Ask
  BY <1>3 DEF Ask, SearchInv
<1>4. CASE Classify
  <2>1. /\ cands' = routes /\ req' = req /\ readAt' = readAt /\ readAt = {}
        /\ pc' = "answered" \/ (pc' = "price1" /\ DOMAIN routes # {})
    BY <1>4 DEF Classify, NoRoute, SearchInv
  <2>2. CASE pc' = "answered"
    BY <2>1, <2>2 DEF SearchInv
  <2>3. CASE pc' = "price1" /\ DOMAIN routes # {}
    <3>1. DOMAIN routes = ways /\ ways' = ways
      BY <2>1, RequestFrame DEF routes, AllFit
    <3>2. PICK quiet : venues' = learned(quiet) /\ lost' = (lost \/ quiet # {})
      BY <1>4 DEF Classify
    <3>3. ~lost' => Known'
      <4> SUFFICES ASSUME quiet = {}, NEW p \in book PROVE venues'[p] = Venue[p]
        BY <3>2 DEF Known
      <4>1. p \in Pool
        BY DEF book
      <4> QED BY <1>1, <3>2, <4>1 DEF learned, unknown
    <3>4. \A c \in DOMAIN routes : Fresh(c, routes[c])
      BY <1>1, RoutesFresh
    <3>5. \A c, ls : Fresh(c, ls)' <=> Fresh(c, ls)
      BY <2>1, SearchFrame
    <3>6. \A c \in DOMAIN cands' : Fresh(c, cands[c])'
      BY <2>1, <3>4, <3>5
    <3> QED BY <2>1, <2>3, <3>1, <3>3, <3>6 DEF SearchInv
  <2> QED BY <2>1, <2>2, <2>3
<1>5. CASE NodeFails
  BY <1>5 DEF NodeFails, NoRoute, SearchInv
<1>6. CASE Price1
  <2>1. PICK quiet : cands' = priceReady(quiet) /\ lost' = (lost \/ quiet # {})
    BY <1>6 DEF Price1
  <2>2. /\ DOMAIN cands = ways /\ ways # {} /\ readAt = {} /\ pc = "price1" /\ pc' = "price2"
        /\ ~lost => Known
        /\ \A c \in DOMAIN cands : Fresh(c, cands[c])
        /\ req' = req /\ venues' = venues /\ readAt' = IF pending THEN readAt \cup {height} ELSE readAt
    BY <1>6 DEF Price1, SearchInv
  <2>3. pending
    <3>1. PICK c : c \in DOMAIN cands /\ c \in ways
      BY <2>2
    <3>2. lead(c) \in 1 .. Len(c)
      BY <1>1, <3>1, LeadShape
    <3>3. /\ DOMAIN cands[c] = 1 .. Len(c) /\ given(cands[c][lead(c)]) = req.amount
      BY <3>1 DEF LegInv, Laid, Chained
    <3>4. sought(cands[c][lead(c)]) = Nil /\ req.amount # Nil
      <4>1. req.amount # Nil
        <5>1. req.amount \in Nat \ {0}
          BY <1>1, AskType
        <5> QED BY <5>1 DEF Nil
      <4> QED BY <2>2, <3>1, <3>2, <3>3, <4>1 DEF Fresh
    <3>5. ready(cands[c][lead(c)])
      BY <1>1, <3>3, <3>4, ReadyShape
    <3> QED BY <3>1, <3>2, <3>3, <3>5 DEF pending
  <2>4. readAt' = {height}
    BY <2>2, <2>3
  <2>5. ASSUME ~lost' PROVE Known' /\ \A c \in DOMAIN cands' : Once(c, cands[c], height)'
    <3>1. cands' = priceReady({}) /\ Known
      BY <2>1, <2>2, <2>5
    <3>2. DOMAIN cands' = DOMAIN cands
      BY <3>1 DEF priceReady
    <3>3. \A c \in DOMAIN cands : Once(c, cands'[c], height)
      BY <2>2, <3>1, PassOnce
    <3>4. \A c, ls, h : Once(c, ls, h)' <=> Once(c, ls, h)
      BY <2>2, SearchFrame
    <3>5. height' = height
      BY <1>6 DEF Price1
    <3>6. Known'
      BY <2>2, <3>1 DEF Known
    <3> QED BY <3>2, <3>3, <3>4, <3>5, <3>6
  <2>6. DOMAIN cands' = ways'
    BY <2>1, <2>2, RequestFrame DEF priceReady
  <2>7. height' = height
    BY <1>6 DEF Price1
  <2> QED BY <1>1, <2>2, <2>4, <2>5, <2>6, <2>7 DEF SearchInv
<1>7. CASE Price2
  <2>1. PICK quiet : cands' = priceReady(quiet) /\ lost' = (lost \/ quiet # {})
    BY <1>7 DEF Price2
  <2>2. /\ pc = "price2" /\ pc' \in {"answered", "decorate"} /\ req' = req /\ best(cands', answer')
        /\ readAt' = IF pending THEN readAt \cup {height} ELSE readAt
    BY <1>7 DEF Price2
  <2>3. ASSUME ~lost', NEW h \in Height, readAt' = {h} PROVE Unbeaten(h)'
    <3>1. cands' = priceReady({}) /\ ~lost
      BY <2>1, <2>3
    <3>2. PICK g \in Height : readAt = {g} /\ \A c \in DOMAIN cands : Once(c, cands[c], g)
      BY <2>2, <3>1 DEF SearchInv
    <3>3. g = h /\ (pending => height = h)
      BY <2>2, <2>3, <3>2
    <3>4. Known /\ DOMAIN cands = ways
      BY <2>2, <3>1 DEF SearchInv
    <3>5. ASSUME NEW w \in ways
          PROVE  \/ Total(w, h) <= 0
                 \/ /\ answer' # <<>>
                    /\ IF req.exactIn THEN Total(w, h) <= answer'[Len(answer')].amtOut
                                      ELSE Total(w, h) >= answer'[1].amtIn
      <4>1. Total(w, h) \in Int
        BY <1>1, TotalType
      <4>2. CASE Total(w, h) > 0
        <5>1. best(priceReady({}), answer')
          BY <2>2, <3>1
        <5> QED BY <3>2, <3>3, <3>4, <4>2, <5>1, BestUnbeaten
      <4> QED BY <4>1, <4>2
    <3>6. ways' = ways /\ \A w : Total(w, h)' = Total(w, h)
      BY <2>2, SearchFrame
    <3> QED BY <2>2, <3>5, <3>6 DEF Unbeaten
  <2> QED BY <2>2, <2>3 DEF SearchInv
<1>8. CASE Block \/ Decorate \/ Build \/ CheckApproval \/ Execute \/ UNCHANGED vars
  BY <1>2, <1>8 DEF Block, Decorate, Build, CheckApproval, Execute, vars
<1> QED BY <1>3, <1>4, <1>5, <1>6, <1>7, <1>8 DEF Next

\* The search misses nothing: when no request has more ways than maxRoutes and
\* the periphery can tell the pools apart, an answer put together from whole reads
\* of one block is beaten by no way through the book, and there is none only where
\* no way pays, whatever earlier requests failed to learn.
THEOREM BestIsFound ==
  Spec /\ []AllFit => []BestOfBook
<1>1. Init => SearchInv
  BY DEF Init, SearchInv
<1>2. IInv /\ LegInv /\ SearchInv /\ AllFit /\ [Next]_vars => SearchInv'
  BY SearchStep
<1>3. IInv /\ SearchInv => BestOfBook
  <2> SUFFICES ASSUME IInv, SearchInv, NEW h \in Height, Answered, ~lost, readAt = {h}, NEW w \in Ways
               PROVE  LET got  == Onward(w, TokensOf(w), req.amount, h, Recorded)
                          paid == Backward(w, TokensOf(w), req.amount, h, Recorded)
                      IN  IF req.exactIn
                            THEN got <= 0 \/ (answer # <<>> /\ got <= answer[Len(answer)].amtOut)
                            ELSE paid <= 0 \/ (answer # <<>> /\ paid >= answer[1].amtIn)
    BY DEF BestOfBook
  <2>1. Unbeaten(h)
    BY DEF SearchInv, Answered
  <2>2. w \in ways /\ req.exactIn \in BOOLEAN
    BY WaysFound, AskType DEF IInv, TypeOK
  <2>3. Total(w, h) = IF req.exactIn THEN Onward(w, TokensOf(w), req.amount, h, Recorded)
                                     ELSE Backward(w, TokensOf(w), req.amount, h, Recorded)
    BY <2>2, TotalIs
  <2> QED BY <2>1, <2>2, <2>3 DEF Unbeaten
<1>4. Spec => [](IInv /\ LegInv)
  BY LegInvariant
<1> QED BY <1>1, <1>2, <1>3, <1>4, PTL DEF Spec


=============================================================================
