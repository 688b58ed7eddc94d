------------------------------- MODULE Quote -------------------------------
(***************************************************************************)
(* A trade from the quote to the chain: the quote engine of engine/quote.go *)
(* over the indexed book, the router call engine/swap.go builds from the    *)
(* answer, the approval engine/approval.go asks for, and the router that    *)
(* executes the call some blocks later.                                     *)
(*                                                                          *)
(* One request is served at a time: what two requests share is the venue    *)
(* cache, written under a mutex with answers that never change.  A batch of *)
(* eth_calls is read at one block; blocks pass between batches.             *)
(***************************************************************************)
EXTENDS Integers, Sequences, FiniteSets

CONSTANTS
  Row,         \* Row[p]: pair and fee the index has of pool p; p is its rank by address
  Venue,       \* Venue[p]: what the contract at p really is
  Charge,      \* Charge[p]: the fee p takes; the index has every pair at one fee
  Market,      \* Market[h][p]: both reserves of pool p at block h
  Wrapped,     \* the wrapped native token
  Million,     \* the scale of a fee, a million in the code
  MaxRoutes,   \* maxRoutes
  Asks,        \* the trades people ask about
  Grants,      \* allowances the router may hold beforehand
  Flaky,       \* pools whose reads may come back empty from the node
  MaxAsks      \* bound on the requests served

Coin == "coin"     \* nativeSentinel
Nil  == -1         \* a nil *big.Int
Unlimited == 1000000   \* maxWord, above every amount of an instance

Pool   == DOMAIN Row
Height == DOMAIN Market

ASSUME QuoteConstants ==
  /\ Million \in Nat \ {0} /\ MaxRoutes \in Nat /\ MaxAsks \in Nat
  /\ Height \subseteq Nat /\ 1 \in Height
  /\ Pool \subseteq Nat /\ Flaky \subseteq Pool
  /\ \A p \in Pool : Venue[p] \in {"v2", "v3"} /\ Row[p].fee \in Nat
  /\ \A p \in Pool : IF Venue[p] = "v2" THEN Charge[p] \in Nat /\ Charge[p] < Million
                                        ELSE Charge[p] = Row[p].fee
  /\ \A h \in Height, p \in Pool : Market[h][p][1] \in Nat /\ Market[h][p][2] \in Nat
  /\ \A a \in Asks : a.amount \in Nat \ {0} /\ a.exactIn \in BOOLEAN /\ a.bps \in 0 .. 10000
  /\ Grants \subseteq Nat

VARIABLES
  height,     \* the chain's head
  venues,     \* Quoter.venues, "" while a pool is unknown
  pc,         \* where the request stands
  req,        \* the request
  cands,      \* candidates: the legs of each, by the pools it crosses
  answer,     \* the winning route, <<>> for noRoute
  head,       \* blockNumber of the answer
  call,       \* the router call HandleSwap built
  allowance,  \* what the router may spend of the wallet's input token
  outcome,    \* what the chain made of the call
  asked,      \* requests so far
  lost,       \* history: some read of this request came back empty
  readAt      \* history: the blocks this request's amounts were read at

vars == <<height, venues, pc, req, cands, answer, head, call, allowance, outcome, asked, lost, readAt>>

------------------------------------------------------------------------------
(* Constant product *)

amountOut(amtIn, rIn, rOut, fee) ==
  IF amtIn <= 0 \/ rIn <= 0 \/ rOut <= 0 \/ fee >= Million
    THEN Nil
    ELSE LET afterFee == amtIn * (Million - fee)
         IN  (afterFee * rOut) \div (rIn * Million + afterFee)

\* The exact quotient, one base unit short of what the pair asks for.
amountInTruncated(amtOut, rIn, rOut, fee) ==
  IF amtOut <= 0 \/ rIn <= 0 \/ rOut <= 0 \/ fee >= Million \/ amtOut >= rOut
    THEN Nil
    ELSE (rIn * amtOut * Million) \div ((rOut - amtOut) * (Million - fee))

\* Without the check that the pair holds what is asked of it.
amountInUnchecked(amtOut, rIn, rOut, fee) ==
  IF amtOut <= 0 \/ rIn <= 0 \/ rOut <= 0 \/ fee >= Million \/ amtOut = rOut
    THEN Nil
    ELSE (rIn * amtOut * Million) \div ((rOut - amtOut) * (Million - fee)) + 1

amountIn(amtOut, rIn, rOut, fee) ==
  IF amtOut <= 0 \/ rIn <= 0 \/ rOut <= 0 \/ fee >= Million \/ amtOut >= rOut
    THEN Nil
    ELSE (rIn * amtOut * Million) \div ((rOut - amtOut) * (Million - fee)) + 1

\* The pair's own check, which is not in this repository: after a swap the
\* product of the reserves, the fee left out of what came in, has not fallen.
PairAccepts(amtIn, amtOut, rIn, rOut, fee) ==
  /\ amtOut < rOut
  /\ (rIn * Million + amtIn * (Million - fee)) * (rOut - amtOut) >= rIn * rOut * Million

------------------------------------------------------------------------------
(* The chain: what a pool pays, whoever asks *)

Sides(p) == {Row[p].t0, Row[p].t1}

\* other
other(p, t) == IF t = Row[p].t0 THEN Row[p].t1 ELSE Row[p].t0

\* The reserve the token comes into and the one the other side goes out of.
ReserveIn(p, t, h)  == IF t = Row[p].t1 THEN Market[h][p][2] ELSE Market[h][p][1]
ReserveOut(p, t, h) == IF t = Row[p].t1 THEN Market[h][p][1] ELSE Market[h][p][2]

\* A concentrated pool, as its quoter and its router see it: inside one tick
\* range a constant product, which takes the least that pays what is asked.
TickOut(p, t, amt, h) == amountOut(amt, ReserveIn(p, t, h), ReserveOut(p, t, h), Row[p].fee)

TickIn(p, t, amt, h) ==
  LET rIn == ReserveIn(p, t, h)  rOut == ReserveOut(p, t, h)
      den == (rOut - amt) * (Million - Row[p].fee)
  IN  IF amt <= 0 \/ rIn = 0 \/ amt >= rOut \/ Row[p].fee >= Million THEN Nil
      ELSE (rIn * amt * Million + den - 1) \div den

\* What a pool pays for amt and takes to pay amt, were its fees the given ones:
\* Charge, which it takes, or Recorded, which is all the engine knows of them.
PoolOut(p, t, amt, h, fees) ==
  IF Venue[p] = "v2" THEN amountOut(amt, ReserveIn(p, t, h), ReserveOut(p, t, h), fees[p])
                     ELSE TickOut(p, t, amt, h)

PoolIn(p, t, amt, h, fees) ==
  IF Venue[p] = "v2" THEN amountIn(amt, ReserveIn(p, t, h), ReserveOut(p, t, h), fees[p])
                     ELSE TickIn(p, t, amt, h)

\* The V3 periphery names a pool by its pair and its fee, and its factory
\* deploys one pool of a name.
Named(t, u, fee) == {p \in Pool : Venue[p] = "v3" /\ Sides(p) = {t, u} /\ Row[p].fee = fee}

ASSUME OneOfAName ==
  \A p, q \in Pool :
    (Venue[p] = "v3" /\ Venue[q] = "v3" /\ Sides(p) = Sides(q) /\ Row[p].fee = Row[q].fee) => p = q

\* What one pool, or two in a row, pay for amt, and what they take to pay amt.
Onward(ps, ts, amt, h, fees) ==
  LET first == PoolOut(ps[1], ts[1], amt, h, fees)
  IN  IF Len(ps) = 1 THEN first ELSE PoolOut(ps[2], ts[2], first, h, fees)

Backward(ps, ts, amt, h, fees) ==
  LET n    == Len(ps)
      last == PoolIn(ps[n], ts[n], amt, h, fees)
  IN  IF n = 1 THEN last ELSE PoolIn(ps[1], ts[1], last, h, fees)

------------------------------------------------------------------------------
(* Routes *)

\* unwrapNative, wrap
unwrapNative(t) == IF t = Coin THEN Wrapped ELSE t

In  == unwrapNative(req.in)
Out == unwrapNative(req.out)

\* book
book == {p \in Pool : Row[p].t0 # Row[p].t1}

direct == {p \in book : Sides(p) = {In, Out}}

byToken(t) == {p \in book \ direct : t \in Sides(p)}

\* Every two pools that meet in the middle.
mids ==
  {r \in byToken(In) \X book :
     LET m == other(r[1], In)
     IN  m \notin {In, Out} /\ r[2] \in byToken(m) \ {r[1]} /\ other(r[2], m) = Out}

\* How much of the book meets where a two-pool route turns.
deg(r) == Cardinality(byToken(other(r[1], In)))

\* Direct pools first, by address; then the middles the most pools hold.
Before(r, s) ==
  \/ Len(r) < Len(s)
  \/ (Len(r) = 1 /\ Len(s) = 1 /\ r[1] < s[1])
  \/ /\ Len(r) = 2 /\ Len(s) = 2
     /\ \/ deg(r) > deg(s)
        \/ deg(r) = deg(s) /\ (r[1] < s[1] \/ (r[1] = s[1] /\ r[2] < s[2]))

\* The token a route's i-th leg takes in.
enters(r, i) == IF i = 1 THEN In ELSE other(r[1], In)

\* A route's legs, the amount the caller fixed put on the first or on the last.
seeded(r) ==
  [i \in 1 .. Len(r) |->
     [p |-> r[i], in |-> enters(r, i), out |-> other(r[i], enters(r, i)),
      amtIn  |-> IF req.exactIn /\ i = 1 THEN req.amount ELSE Nil,
      amtOut |-> IF ~req.exactIn /\ i = Len(r) THEN req.amount ELSE Nil,
      at     |-> 0]]

ways == mids \cup {<<p>> : p \in direct}

\* routes: the candidates by the pools they cross, cut at MaxRoutes.
routes ==
  [r \in {r \in ways : Cardinality({s \in ways : Before(s, r)}) < MaxRoutes} |-> seeded(r)]

------------------------------------------------------------------------------
(* Pricing *)

done(l) == l.amtIn # Nil /\ l.amtOut # Nil

\* Every leg with an amount, whether or not it answered already.
readyAgain(l) == (IF req.exactIn THEN l.amtIn ELSE l.amtOut) # Nil

ready(l) == ~done(l) /\ (IF req.exactIn THEN l.amtIn ELSE l.amtOut) # Nil

\* absorb: a pair is computed from its reserves, anything else is asked of the
\* quoter, which finds the pool by its pair and fee.
absorb(l) ==
  LET rIn  == ReserveIn(l.p, l.in, height)
      rOut == ReserveOut(l.p, l.in, height)
      fee  == Row[l.p].fee
      q    == Named(l.in, l.out, fee)
  IN  CASE venues[l.p] = "v2" /\ req.exactIn ->
             [l EXCEPT !.amtOut = amountOut(l.amtIn, rIn, rOut, fee), !.at = height]
        [] venues[l.p] = "v2" /\ ~req.exactIn ->
             [l EXCEPT !.amtIn = amountIn(l.amtOut, rIn, rOut, fee), !.at = height]
        [] venues[l.p] # "v2" /\ q = {} -> l
        [] venues[l.p] # "v2" /\ q # {} /\ req.exactIn ->
             [l EXCEPT !.amtOut = TickOut(CHOOSE p \in q : TRUE, l.in, l.amtIn, height), !.at = height]
        [] OTHER ->
             [l EXCEPT !.amtIn = TickIn(CHOOSE p \in q : TRUE, l.in, l.amtOut, height), !.at = height]

\* Each answer carried to the leg that follows, or that comes before.
fed(r) ==
  [i \in DOMAIN r |->
     CASE req.exactIn /\ i > 1 /\ r[i].amtIn = Nil -> [r[i] EXCEPT !.amtIn = r[i - 1].amtOut]
       [] ~req.exactIn /\ i < Len(r) /\ r[i].amtOut = Nil -> [r[i] EXCEPT !.amtOut = r[i + 1].amtIn]
       [] OTHER -> r[i]]

priceReady(quiet) ==
  [c \in DOMAIN cands |->
     fed([i \in DOMAIN cands[c] |->
            IF ready(cands[c][i]) /\ cands[c][i].p \notin quiet THEN absorb(cands[c][i]) ELSE cands[c][i]])]

\* There is something left to ask.
pending == \E c \in DOMAIN cands : \E i \in DOMAIN cands[c] : ready(cands[c][i])

priced(r) == \A i \in DOMAIN r : r[i].amtIn > 0 /\ r[i].amtOut > 0

\* Route r beats route s.
beats(r, s) ==
  IF req.exactIn THEN r[Len(r)].amtOut > s[Len(s)].amtOut ELSE r[1].amtIn < s[1].amtIn

\* The first candidate in order that no priced one beats.
wins(cs, r) ==
  /\ priced(cs[r])
  /\ \A s \in DOMAIN cs \ {r} :
       priced(cs[s]) => ~beats(cs[s], cs[r]) /\ (beats(cs[r], cs[s]) \/ Before(r, s))

\* best, once the candidates are priced; nothing when none is.
best(cs, a) ==
  \/ a = <<>> /\ \A r \in DOMAIN cs : ~priced(cs[r])
  \/ \E r \in DOMAIN cs : wins(cs, r) /\ a = cs[r]

------------------------------------------------------------------------------
(* The router call *)

down(a, bps) == (a * (10000 - bps)) \div 10000
up(a, bps)   == (a * (10000 + bps)) \div 10000

reverse(s) == [i \in DOMAIN s |-> s[Len(s) + 1 - i]]

Tokens(r) == <<r[1].in>> \o [i \in DOMAIN r |-> r[i].out]
Fees(r)   == [i \in DOMAIN r |-> Row[r[i].p].fee]

NoCall == [fn |-> "none", tokens |-> <<>>, fees |-> <<>>, amount |-> 0, limit |-> 0, value |-> 0]

\* Every path the way the trade travels.
swapCallForward(r) ==
  LET single == Len(r) = 1
      paid   == r[1].amtIn
      got    == r[Len(r)].amtOut
  IN  [fn     |-> CASE req.exactIn /\ single  -> "exactInputSingle"
                    [] req.exactIn /\ ~single -> "exactInput"
                    [] ~req.exactIn /\ single -> "exactOutputSingle"
                    [] OTHER                  -> "exactOutput",
       tokens |-> Tokens(r),
       fees   |-> Fees(r),
       amount |-> IF req.exactIn THEN paid ELSE got,
       limit  |-> IF req.exactIn THEN down(got, req.bps) ELSE up(paid, req.bps),
       value  |-> IF req.in = Coin THEN paid ELSE 0]

\* HandleSwap, the route being all v3-pool hops.
swapCall(r) ==
  LET single == Len(r) = 1
      back   == ~req.exactIn /\ ~single
      paid   == r[1].amtIn
      got    == r[Len(r)].amtOut
  IN  [fn     |-> CASE req.exactIn /\ single  -> "exactInputSingle"
                    [] req.exactIn /\ ~single -> "exactInput"
                    [] ~req.exactIn /\ single -> "exactOutputSingle"
                    [] OTHER                  -> "exactOutput",
       tokens |-> IF back THEN reverse(Tokens(r)) ELSE Tokens(r),
       fees   |-> IF back THEN reverse(Fees(r)) ELSE Fees(r),
       amount |-> IF req.exactIn THEN paid ELSE got,
       limit  |-> IF req.exactIn THEN down(got, req.bps) ELSE up(paid, req.bps),
       value  |-> IF req.in = Coin THEN paid ELSE 0]

\* The router at the head, which is not in this repository: it walks the pools
\* the path names and takes its input from the value sent or by the allowance.
Settle(c) ==
  LET fwd  == IF c.fn = "exactOutput" THEN reverse(c.tokens) ELSE c.tokens
      fees == IF c.fn = "exactOutput" THEN reverse(c.fees) ELSE c.fees
      ps   == [i \in DOMAIN fees |-> Named(fwd[i], fwd[i + 1], fees[i])]
      way  == [i \in DOMAIN fees |-> CHOOSE p \in ps[i] : TRUE]
      real == \A i \in DOMAIN fees : ps[i] # {}
      ein  == c.fn \in {"exactInputSingle", "exactInput"}
      paid == IF ein THEN c.amount ELSE IF real THEN Backward(way, fwd, c.amount, height, Charge) ELSE Nil
      got  == IF ~ein THEN c.amount ELSE IF real THEN Onward(way, fwd, c.amount, height, Charge) ELSE Nil
      fund == IF c.value > 0 THEN c.value ELSE allowance
      ok   == paid # Nil /\ got # Nil /\ paid <= fund /\ (IF ein THEN got >= c.limit ELSE paid <= c.limit)
  IN  [filled |-> ok, paid |-> paid, got |-> got, at |-> height]

NoCands == [r \in {} |-> <<>>]

NoOutcome == [filled |-> FALSE, paid |-> 0, got |-> 0, at |-> 0]

------------------------------------------------------------------------------
(* The steps of a request *)

Init ==
  /\ height = 1
  /\ venues = [p \in Pool |-> ""]
  /\ pc = "idle"
  /\ req \in Asks
  /\ cands = NoCands
  /\ answer = <<>>
  /\ head = 0
  /\ call = NoCall
  /\ allowance = 0
  /\ outcome = NoOutcome
  /\ asked = 0
  /\ lost = FALSE
  /\ readAt = {}

\* The chain moves on, and every pool with it.
Block ==
  /\ height + 1 \in Height
  /\ height' = height + 1
  /\ UNCHANGED <<venues, pc, req, cands, answer, head, call, allowance, outcome, asked, lost, readAt>>

\* serve, up to the search: a valid request for two different tokens.
Ask ==
  /\ pc \in {"idle", "answered", "settled"}
  /\ asked < MaxAsks
  /\ \E a \in Asks :
       /\ unwrapNative(a.in) # unwrapNative(a.out)
       /\ req' = a
  /\ \E g \in Grants : allowance' = g
  /\ pc' = "classify"
  /\ asked' = asked + 1
  /\ answer' = <<>> /\ head' = 0 /\ call' = NoCall /\ outcome' = NoOutcome /\ lost' = FALSE
  /\ readAt' = {}
  /\ cands' = NoCands
  /\ UNCHANGED <<height, venues>>

unknown == {p \in book : venues[p] = ""}

\* A pool that answered neither question is taken for a concentrated one.
learnedGuessing(quiet) ==
  [p \in Pool |-> IF p \notin unknown THEN venues[p] ELSE IF p \in quiet THEN "v3" ELSE Venue[p]]

\* What classify learns of the pools that answered.
learned(quiet) ==
  [p \in Pool |-> IF p \in unknown \ quiet THEN Venue[p] ELSE venues[p]]

\* noRoute: the answer is empty.
NoRoute ==
  /\ pc' = "answered"
  /\ answer' = <<>>
  /\ UNCHANGED <<height, req, head, call, allowance, outcome, asked, readAt>>

\* classify and routes.  Only a pool that is not known yet is asked.
Classify ==
  /\ pc = "classify"
  /\ \E quiet \in SUBSET (Flaky \cap unknown) :
       /\ venues' = learned(quiet)
       /\ lost' = (lost \/ quiet # {})
  /\ cands' = routes
  /\ IF DOMAIN routes = {} THEN NoRoute
     ELSE /\ pc' = "price1"
          /\ UNCHANGED <<height, req, answer, head, call, allowance, outcome, asked, readAt>>

\* The node does not answer the batch: nothing is learned and there is no route.
NodeFails ==
  /\ \/ pc = "classify" /\ unknown # {}
     \/ pc \in {"price1", "price2"} /\ pending
  /\ lost' = TRUE
  /\ NoRoute
  /\ UNCHANGED <<venues, cands>>

\* The first of the two passes; a reply may be missing from the batch.
Price1 ==
  /\ pc = "price1"
  /\ \E quiet \in SUBSET Flaky :
       /\ cands' = priceReady(quiet)
       /\ lost' = (lost \/ quiet # {})
  /\ readAt' = IF pending THEN readAt \cup {height} ELSE readAt
  /\ pc' = "price2"
  /\ UNCHANGED <<height, venues, req, answer, head, call, allowance, outcome, asked>>

\* The second pass, which asks again what did not answer, and the choice.
Price2 ==
  /\ pc = "price2"
  /\ \E quiet \in SUBSET Flaky :
       /\ cands' = priceReady(quiet)
       /\ lost' = (lost \/ quiet # {})
  /\ readAt' = IF pending THEN readAt \cup {height} ELSE readAt
  /\ answer' \in {<<>>} \cup {cands'[r] : r \in DOMAIN cands}
  /\ best(cands', answer')
  /\ pc' = IF answer' = <<>> THEN "answered" ELSE "decorate"
  /\ UNCHANGED <<height, venues, req, head, call, allowance, outcome, asked>>

\* decorate and render: block 0 when the node does not say.
Decorate ==
  /\ pc = "decorate"
  /\ head' \in {0, height}
  /\ pc' = "answered"
  /\ UNCHANGED <<height, venues, req, cands, answer, call, allowance, outcome, asked, lost, readAt>>

\* HandleSwap: a route over a pair is refused, and so is an empty one.
Build ==
  /\ pc = "answered"
  /\ answer # <<>>
  /\ \A i \in DOMAIN answer : venues[answer[i].p] # "v2"
  /\ call' = swapCall(answer)
  /\ pc' = "built"
  /\ UNCHANGED <<height, venues, req, cands, answer, head, allowance, outcome, asked, lost, readAt>>

\* What the built call may take.
Most == IF req.exactIn THEN call.amount ELSE call.limit

\* A token that answers nothing has granted enough.
readAllowanceTrusting(heard) == IF heard THEN allowance ELSE Unlimited

readAllowance(heard) == IF heard THEN allowance ELSE 0

\* HandleCheckApproval for what the call may take, and the wallet's approval.
\* An allowance the node fails to read is an error, after which the form is
\* where it was.
CheckApproval ==
  /\ pc = "built"
  /\ \E heard \in BOOLEAN :
       allowance' = IF req.in = Coin \/ readAllowance(heard) >= Most THEN allowance ELSE Unlimited
  /\ pc' = "approved"
  /\ UNCHANGED <<height, venues, req, cands, answer, head, call, outcome, asked, lost, readAt>>

\* The wallet sends the call and a block takes it.
Execute ==
  /\ pc = "approved"
  /\ outcome' = Settle(call)
  /\ pc' = "settled"
  /\ UNCHANGED <<height, venues, req, cands, answer, head, call, allowance, asked, lost, readAt>>

Next ==
  \/ Block \/ Ask \/ Classify \/ NodeFails \/ Price1 \/ Price2 \/ Decorate
  \/ Build \/ CheckApproval \/ Execute

Spec == Init /\ [][Next]_vars

------------------------------------------------------------------------------
(* Properties *)

Token == UNION {Sides(p) : p \in Pool}

Leg == [p : Pool, in : Token, out : Token, amtIn : Nat \cup {Nil}, amtOut : Nat \cup {Nil},
        at : Height \cup {0}]

\* Every amount the engine holds is a natural or nil, every candidate a chain
\* of legs, and every venue one the pool answered to.
TypeOK ==
  /\ height \in Height
  /\ venues \in [Pool -> {"", "v2", "v3"}] /\ \A p \in Pool : venues[p] \in {"", Venue[p]}
  /\ pc \in {"idle", "classify", "price1", "price2", "decorate", "answered", "built", "approved", "settled"}
  /\ req \in Asks
  /\ \A r \in DOMAIN cands : cands[r] \in Seq(Leg)
  /\ answer = <<>> \/ \E r \in DOMAIN cands : answer = cands[r]
  /\ head \in Height \cup {0}
  /\ allowance \in Nat
  /\ readAt \subseteq Height

Answered == pc \in {"answered", "built", "approved", "settled"}

\* The fees the engine prices with.
Recorded == [p \in Pool |-> Row[p].fee]

\* The concentrated pools that go by the pair and the fee of p.
Namesakes(p) == Named(Row[p].t0, Row[p].t1, Row[p].fee)

\* The pool whose amount a leg over p carries: its own, unless p is a pair that
\* is not known for one.
Quoted(p) == IF venues[p] = "v2" \/ Venue[p] = "v3" THEN p ELSE CHOOSE q \in Namesakes(p) : TRUE

PoolsOf(r) == [i \in DOMAIN r |-> Quoted(r[i].p)]

\* Every way from In to Out over one pool, or over two that meet in the middle.
Ways ==
  {<<p>> : p \in direct} \cup
  {w \in book \X book :
     /\ w[1] # w[2] /\ In \in Sides(w[1]) /\ Out \in Sides(w[2])
     /\ other(w[1], In) = other(w[2], Out) /\ other(w[1], In) \notin {In, Out}}

TokensOf(w) == IF Len(w) = 1 THEN <<In, Out>> ELSE <<In, other(w[1], In), Out>>

\* The search misses nothing: when every read of a request answered, and at one
\* block, no way through the book does better at that block, by the fees the
\* index has, than the route quoted, and there is no answer only where no way
\* pays at all - in spite of what earlier requests failed to learn.
BestOfBook ==
  \A h \in Height :
    (Answered /\ ~lost /\ readAt = {h}) =>
      \A w \in Ways :
        LET got  == Onward(w, TokensOf(w), req.amount, h, Recorded)
            paid == Backward(w, TokensOf(w), req.amount, h, Recorded)
        IN  IF req.exactIn
              THEN got <= 0 \/ (answer # <<>> /\ got <= answer[Len(answer)].amtOut)
              ELSE paid <= 0 \/ (answer # <<>> /\ paid >= answer[1].amtIn)

\* Every leg of an answer carries what its own pool pays at the block it was
\* read at, a pair by the fee the index has of it, and the legs hand one another
\* what they were paid.  The one exception is a pair whose answer to classify
\* was lost in this very request: its leg carries the amount of the
\* concentrated pool that goes by the same pair and fee.
LegsOwnPool ==
  /\ \A i \in DOMAIN answer :
       LET l == answer[i]
       IN  \E q \in {l.p} \cup Namesakes(l.p) :
             /\ q = l.p \/ (lost /\ Venue[l.p] = "v2" /\ venues[l.p] = "")
             /\ IF req.exactIn THEN l.amtOut = PoolOut(q, l.in, l.amtIn, l.at, Recorded)
                               ELSE l.amtIn = PoolIn(q, l.in, l.amtOut, l.at, Recorded)
  /\ \A i \in DOMAIN answer \ {1} : answer[i].amtIn = answer[i - 1].amtOut

\* What has to come into the pair of a leg for what the leg takes out: as much as
\* was computed, or more by the part its fee is above the recorded one.
Due(l) ==
  LET kept == Million - Charge[l.p]
  IN  IF Charge[l.p] <= Row[l.p].fee THEN l.amtIn
      ELSE (l.amtIn * (Million - Row[l.p].fee) + kept - 1) \div kept

\* A pair that charges no more than the index has of it lets through what was
\* computed for it, and one that charges more does once the difference in the
\* fee is made up: truncation never leaves the product of its reserves short.
PairsAccept ==
  \A c \in DOMAIN cands : \A i \in DOMAIN cands[c] :
    LET l == cands[c][i]
    IN  (venues[l.p] = "v2" /\ done(l)) =>
          PairAccepts(Due(l), l.amtOut, ReserveIn(l.p, l.in, l.at), ReserveOut(l.p, l.in, l.at), Charge[l.p])

\* A trade built from a quote and approved as check_approval says fills if and
\* only if the pools it was quoted from, at the block that takes it, are still
\* within the slippage the caller accepted; and it fills at what those pools pay.
FillsAsQuoted ==
  pc = "settled" =>
    LET ps   == PoolsOf(answer)
        ts   == Tokens(answer)
        got  == Onward(ps, ts, req.amount, outcome.at, Charge)
        paid == Backward(ps, ts, req.amount, outcome.at, Charge)
        last == answer[Len(answer)].amtOut
    IN  IF req.exactIn
          THEN /\ outcome.filled <=> got # Nil /\ got >= down(last, req.bps)
               /\ outcome.filled => outcome.got = got /\ outcome.paid = req.amount
          ELSE /\ outcome.filled <=> paid # Nil /\ paid <= up(answer[1].amtIn, req.bps)
               /\ outcome.filled => outcome.paid = paid /\ outcome.got = req.amount

\* "answered neither; leave it unknown rather than guess" (engine/quote.go): no
\* leg is priced on a pool that is not its own.
OwnPoolAlways ==
  \A i \in DOMAIN answer :
    LET l == answer[i]
    IN  IF req.exactIn THEN l.amtOut = PoolOut(l.p, l.in, l.amtIn, l.at, Recorded)
                       ELSE l.amtIn = PoolIn(l.p, l.in, l.amtOut, l.at, Recorded)

\* A pair lets through exactly what was computed for it, whatever it charges.
PairsAcceptAsQuoted ==
  \A c \in DOMAIN cands : \A i \in DOMAIN cands[c] :
    LET l == cands[c][i]
    IN  (venues[l.p] = "v2" /\ done(l)) =>
          PairAccepts(l.amtIn, l.amtOut, ReserveIn(l.p, l.in, l.at), ReserveOut(l.p, l.in, l.at), Charge[l.p])

\* "blockNumber says which block the answer came from" (engine/quote.go).
BlockIsTheOneRead ==
  (Answered /\ answer # <<>> /\ head # 0) => \A i \in DOMAIN answer : answer[i].at = head

=============================================================================
