------------------------------- MODULE Tokens -------------------------------
(***************************************************************************)
(* Token rows: who they are (indexer/erc20.go), what the valuation pass    *)
(* writes on them (indexer/valuation.go) and the supply of the native coin *)
(* (indexer/supply.go).  Three writers replace whole rows they read        *)
(* earlier: a start's backfill, the log handlers and the pass.             *)
(*                                                                         *)
(* A row keeps which of its fields are the contract's own answer and not a *)
(* placeholder, how its supply was scaled to whole tokens, the pass its    *)
(* aggregates are from and the anchor its price is quoted against.         *)
(***************************************************************************)
EXTENDS Integers, FiniteSets

CONSTANTS
  Token,       \* addresses
  Native,      \* the wrapped native token: idx.native
  Answers,     \* Answers[a]: the calls a's contract implements
  FailSets,    \* the sets of calls the node may fail to deliver in one read
  Traded,      \* tokens of pools that have traded
  Faults,      \* store calls that may fail: "list" (GetTokens), "row" (GetToken)
  MaxPasses,   \* bound on valuation passes
  MaxFaults    \* bound on stops and panics

Calls == {"symbol", "name", "decimals", "supply"}

ASSUME TokenConstants ==
  /\ Native \in Token
  /\ Answers \in [Token -> SUBSET Calls]
  /\ FailSets \subseteq SUBSET Calls
  /\ Traded \subseteq Token
  /\ MaxPasses \in Nat /\ MaxFaults \in Nat

\* SeedTokenData.  `symbol`, `name`, `decimals`: is it the contract's own; `supply`:
\* "none", or scaled by the "own" decimals, by the "default" ones, or "genesis".
NoRow == [there |-> FALSE, symbol |-> FALSE, name |-> FALSE, decimals |-> FALSE,
          supply |-> "none", pass |-> 0, quote |-> 0]

NoRows == [a \in Token |-> NoRow]

Row == [there : BOOLEAN, symbol : BOOLEAN, name : BOOLEAN, decimals : BOOLEAN,
        supply : {"none", "own", "default", "genesis"}, pass : Nat, quote : Nat]

VARIABLES
  pc,          \* the process: "down", "list", "backfill", "run"
  store,       \* the tokens table
  memo,        \* tokenCache
  todo,        \* rows of the backfill's list not reached yet
  asking,      \* the address readERC20 is out for, as a set
  seen,        \* the row token() found before it asked
  pass,        \* the valuation pass: "idle", "anchor", "write"
  copies,      \* its TokensRaw
  left,        \* rows it has not written yet
  priced,      \* tokens it found a price for
  anchor,      \* what publishAnchor returned to it: a bundle, 0 for none
  bundle,      \* the bundle row: how many anchors were published
  passes,      \* history: passes begun
  whole,       \* history: did the last pass end
  published,   \* history: has this process published the native supply
  again,       \* history: addresses asked about while they had a row
  faults       \* stops and panics so far

poll == <<memo, todo, asking, seen, again>>
valuing == <<pass, copies, left, priced, anchor, bundle, passes, whole, published>>
vars == <<pc, store, poll, valuing, faults>>

\* settled: a symbol and a supply, whatever the decimals are.
settled(t) == t.there /\ t.symbol /\ t.supply # "none"

Init ==
  /\ pc = "down" /\ faults = 0
  \* Rows of an older build that never asked for a supply, or could not reach a symbol.
  /\ store \in [Token -> {NoRow} \cup
                  [there : {TRUE}, symbol : BOOLEAN, name : {TRUE}, decimals : BOOLEAN,
                   supply : {"none"}, pass : {0}, quote : {0}]]
  /\ \A a \in Token : store[a].there => store[a].decimals = ("decimals" \in Answers[a])
  /\ again = {}
  /\ memo = NoRows /\ todo = {} /\ asking = {} /\ seen = NoRow
  /\ pass = "idle" /\ copies = NoRows /\ left = {} /\ priced = {}
  /\ anchor = 0 /\ bundle = 0 /\ passes = 0 /\ whole = FALSE /\ published = FALSE

(***************************************************************************)
(* The process                                                             *)
(***************************************************************************)
\* Mutant: indexing starts at once, with the backfill beside it or never.
StartRacing ==
  /\ pc = "down"
  /\ pc' = "run"
  /\ UNCHANGED <<store, poll, valuing, faults>>

\* main: what a start is for.
Start ==
  /\ pc = "down"
  /\ pc' = "list"
  /\ UNCHANGED <<store, poll, valuing, faults>>

\* BackfillTokens lists the rows; main goes on to Run whether it could or not.
ListRows ==
  /\ pc = "list"
  /\ \E ok \in {TRUE} \cup (IF "list" \in Faults THEN {FALSE} ELSE {}) :
       /\ pc' = IF ok THEN "backfill" ELSE "run"
       /\ todo' = IF ok THEN {a \in Token : store[a].there} ELSE {}
  /\ UNCHANGED <<store, memo, asking, seen, again, valuing, faults>>

\* The pass returns, and what it held in memory is gone.
EndPass ==
  /\ pass' = "idle"
  /\ copies' = NoRows /\ left' = {} /\ priced' = {} /\ anchor' = 0

\* The process stops: everything but the store is gone.
Crash ==
  /\ pc # "down" /\ faults < MaxFaults
  /\ faults' = faults + 1
  /\ pc' = "down"
  /\ todo' = {} /\ asking' = {} /\ seen' = NoRow
  /\ EndPass /\ whole' = FALSE /\ published' = FALSE
  /\ memo' = NoRows
  /\ UNCHANGED <<store, again, bundle, passes>>

(***************************************************************************)
(* token(): from the backfill, then from the handlers of the one poller    *)
(***************************************************************************)
\* storedToken: the whole row, or nothing when the store does not answer.
storedToken(a) == {store[a]} \cup (IF "row" \in Faults THEN {NoRow} ELSE {})

\* Memoise a settled row, or remember it and ask the chain.
Consult(a, t) ==
  IF settled(t) THEN /\ memo' = [memo EXCEPT ![a] = t]
                     /\ UNCHANGED <<asking, seen>>
                ELSE /\ asking' = {a} /\ seen' = t
                     /\ UNCHANGED memo

\* The backfill's next row: a settled one costs nothing.
BackfillRow(a) ==
  /\ pc = "backfill" /\ asking = {} /\ a \in todo
  /\ todo' = todo \ {a}
  /\ IF settled(store[a]) \/ memo[a].there
       THEN UNCHANGED <<memo, asking, seen>>
       ELSE \E t \in storedToken(a) : Consult(a, t)
  /\ UNCHANGED <<pc, store, again, valuing, faults>>

BackfillEnd ==
  /\ pc = "backfill" /\ asking = {} /\ todo = {}
  /\ pc' = "run"
  /\ UNCHANGED <<store, poll, valuing, faults>>

\* handlePairCreated, handlePoolCreated, handleInitializeV4, handleTransfer: an
\* address nobody has asked about in this process.
Handler(a) ==
  /\ pc = "run" /\ asking = {} /\ ~memo[a].there
  /\ \E t \in storedToken(a) : Consult(a, t)
  /\ UNCHANGED <<pc, store, todo, again, valuing, faults>>

\* Mutant: the supply is read first and scaled before the decimals are known.
readSupplyFirst(a, fail) ==
  LET got == Answers[a] \ fail IN
    [symbol |-> "symbol" \in got, name |-> "name" \in got, decimals |-> "decimals" \in got,
     supply |-> IF "supply" \notin got THEN "none" ELSE "default"]

\* readERC20: four calls, decimals before supply because it is the scale of supply.
readERC20(a, fail) ==
  LET got == Answers[a] \ fail IN
    [symbol |-> "symbol" \in got, name |-> "name" \in got, decimals |-> "decimals" \in got,
     supply |-> IF "supply" \notin got THEN "none"
                ELSE IF "decimals" \in got THEN "own" ELSE "default"]

\* resolve: the read over the row, and silence erases nothing.
resolve(stored, read) ==
  [stored EXCEPT !.there = TRUE,
                 !.symbol = @ \/ read.symbol,
                 !.name = @ \/ read.name,
                 !.decimals = @ \/ read.decimals,
                 !.supply = IF read.supply # "none" THEN read.supply ELSE @]

\* The answer: memoised, silence too, and written.
Answer(a, fail) ==
  LET t == resolve(seen, readERC20(a, fail)) IN
    /\ a \in asking
    /\ asking' = {} /\ seen' = NoRow
    /\ again' = IF seen.there THEN again \cup {a} ELSE again
    /\ memo' = [memo EXCEPT ![a] = t]
    /\ store' = [store EXCEPT ![a] = t]
    /\ UNCHANGED <<pc, todo, valuing, faults>>

(***************************************************************************)
(* The valuation pass, beside the poller once Run has started both         *)
(***************************************************************************)
\* revalue reads every row once, at the top, and prices what it can.
PassRead ==
  /\ pc = "run" /\ pass = "idle" /\ passes < MaxPasses
  /\ \E a \in Token : store[a].there
  /\ copies' = store
  /\ left' = {a \in Token : store[a].there}
  /\ priced' \in SUBSET left'
  /\ pass' = "anchor" /\ passes' = passes + 1 /\ whole' = FALSE
  /\ UNCHANGED <<pc, store, poll, anchor, bundle, published, faults>>

\* Mutant: the anchor is computed and used, and never published.
AnchorUnwritten ==
  /\ pass = "anchor"
  /\ pass' = "write"
  /\ anchor' = IF Native \in priced THEN bundle + 1 ELSE 0
  /\ UNCHANGED <<pc, store, poll, copies, left, priced, bundle, passes, whole, published, faults>>

\* publishAnchor: the bundle, only when the native coin has a price.
PassAnchor ==
  /\ pass = "anchor"
  /\ pass' = "write"
  /\ IF Native \in priced THEN bundle' = bundle + 1 /\ anchor' = bundle'
                          ELSE anchor' = 0 /\ UNCHANGED bundle
  /\ UNCHANGED <<pc, store, poll, copies, left, priced, passes, whole, published, faults>>

\* Mutant: a token without a price keeps the price it had.
WriteOnlyPriced(a) ==
  IF a \in priced THEN [copies[a] EXCEPT !.pass = passes, !.quote = anchor] ELSE copies[a]

\* What the pass makes of a row; derivedNative is empty unless both prices are known.
\* One with no value locked, no volume and no price is left as it is.
Valued(a) ==
  IF a \in priced \cup Traded
    THEN [copies[a] EXCEPT !.pass = passes, !.quote = IF a \in priced THEN anchor ELSE 0]
    ELSE copies[a]

\* The copy, valued, goes back over the row, in the order of a Go map.
PassToken(a) ==
  /\ pass = "write" /\ a \in left
  /\ left' = left \ {a}
  /\ copies' = [copies EXCEPT ![a] = Valued(a)]
  /\ store' = IF a \in priced \cup Traded THEN [store EXCEPT ![a] = Valued(a)] ELSE store
  /\ UNCHANGED <<pc, poll, pass, priced, anchor, bundle, passes, whole, published, faults>>

\* Mutant: the supply goes to the store alone, before the copies are written back.
PublishEarly ==
  LET row == [store[Native] EXCEPT !.supply = "genesis"] IN
    /\ pass = "write" /\ (Native \in left \/ left = {})
    /\ IF Native \in left /\ store[Native].there
         THEN store' = [store EXCEPT ![Native] = row] /\ published' = TRUE
         ELSE UNCHANGED <<store, published>>
    /\ IF left = {} THEN EndPass /\ whole' = TRUE
                    ELSE UNCHANGED <<pass, copies, left, priced, anchor, whole>>
    /\ UNCHANGED <<pc, poll, bundle, passes, faults>>

\* publishNativeSupply, after the rows: onto the pass's copy, or the store's row when
\* the pass has none.
PublishNative ==
  LET row == IF copies[Native].there THEN copies[Native] ELSE store[Native] IN
    /\ pass = "write" /\ left = {}
    /\ IF row.there
         THEN /\ store' = [store EXCEPT ![Native] = [row EXCEPT !.supply = "genesis"]]
              /\ published' = TRUE
         ELSE UNCHANGED <<store, published>>
    /\ EndPass /\ whole' = TRUE
    /\ UNCHANGED <<pc, poll, bundle, passes, faults>>

\* revalue recovers from a panic: the pass ends where it is.
PassPanics ==
  /\ pass # "idle" /\ faults < MaxFaults
  /\ faults' = faults + 1
  /\ EndPass
  /\ UNCHANGED <<pc, store, poll, bundle, passes, whole, published>>

Next ==
  \/ Start \/ ListRows \/ BackfillEnd \/ Crash
  \/ \E a \in Token : BackfillRow(a) \/ Handler(a) \/ PassToken(a)
  \/ \E a \in Token, fail \in FailSets : Answer(a, fail)
  \/ PassRead \/ PassAnchor \/ PublishNative \/ PassPanics

Spec == Init /\ [][Next]_vars

(***************************************************************************)
(* Properties                                                              *)
(***************************************************************************)
\* Type correctness: the three copies of a row (store, cache, pass) have its shape, and a
\* pass quotes against no anchor newer than the bundle it wrote (publishAnchor).
TypeOK ==
  /\ pc \in {"down", "list", "backfill", "run"}
  /\ {store, memo, copies} \subseteq [Token -> Row]
  /\ seen \in Row /\ todo \subseteq Token /\ asking \subseteq Token /\ again \subseteq Token
  /\ pass \in {"idle", "anchor", "write"} /\ left \subseteq Token /\ priced \subseteq Token
  /\ anchor \in 0 .. bundle /\ bundle \in Nat /\ passes \in Nat /\ faults \in Nat
  /\ whole \in BOOLEAN /\ published \in BOOLEAN

\* resolve: "A read that says nothing must never erase something already known"; the
\* pass "must preserve everything the log handlers own".  Of three writers that put
\* back whole rows, none loses a symbol, a supply or newer aggregates another wrote.
KnownKept ==
  [][\A a \in Token : store[a].there =>
       /\ store'[a].there
       /\ store[a].symbol => store'[a].symbol
       /\ store[a].decimals => store'[a].decimals
       /\ store[a].supply # "none" => store'[a].supply # "none"
       /\ store'[a].pass >= store[a].pass]_vars

\* publishNativeSupply "has to be the last word on the row": once this process has
\* said what was minted, no row written back says what the wrapper holds.
NativeStands == published => store[Native].supply = "genesis"

\* A client reads a price as derivedETH times the bundle: after a pass that ended,
\* every quoted row was quoted against the bundle that is served.
QuotesMatchBundle ==
  pass = "idle" /\ whole =>
    \A a \in Token : store[a].quote # 0 => store[a].quote = bundle

\* readERC20: "Decimals is read before supply because it is the scale supply is
\* expressed in".  Whatever calls are lost, in the rows and in what the handlers were
\* told, a supply scaled by the contract's decimals has them beside it, and a supply
\* scaled by the default stands beside the contract's decimals only when the address
\* was asked about over a row it already had.
SupplyScaled ==
  \A a \in Token : \A t \in {store[a], memo[a]} :
    /\ t.supply = "own" => t.decimals
    /\ t.supply = "default" /\ t.decimals => a \in again

\* wholeUnits, "one unit for one field": every supply is in whole tokens of the
\* contract's own scale.  False of the code: a read that loses decimals() alone scales
\* by the default, and the row counts as settled.
OneUnit ==
  \A a \in Token : store[a].supply = "default" => "decimals" \notin Answers[a]

=============================================================================
