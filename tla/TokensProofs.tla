---------------------------- MODULE TokensProofs ----------------------------
(***************************************************************************)
(* Proofs about token rows: types, the scale of every supply, and, when    *)
(* the store answers its reads, that the three writers of whole rows never *)
(* undo each other.                                                        *)
(***************************************************************************)
EXTENDS Tokens, TLAPS

USE TokenConstants

\* resolve returns a row that is there, keeps what the stored one knew, leaves the
\* pass's fields alone, and has its supply from the stored row or from the read.
LEMMA ResolveKeeps ==
  ASSUME NEW t \in Row, NEW a \in Token, NEW fail \in FailSets
  PROVE  LET r == resolve(t, readERC20(a, fail)) IN
           /\ r \in Row /\ r.there
           /\ t.symbol => r.symbol
           /\ t.decimals => r.decimals
           /\ t.supply # "none" => r.supply # "none"
           /\ r.pass = t.pass /\ r.quote = t.quote
           /\ r.supply \in {t.supply, readERC20(a, fail).supply}
           /\ r.supply = "own" => r.decimals \/ t.supply = "own"
           /\ r.supply = "default" /\ r.decimals => t.decimals \/ t.supply = "default"
<1> DEFINE e == readERC20(a, fail)
           r == resolve(t, e)
<1>1. e \in [symbol : BOOLEAN, name : BOOLEAN, decimals : BOOLEAN,
             supply : {"none", "own", "default"}]
  BY DEF readERC20, Calls
<1>5. (e.supply = "own" => e.decimals) /\ (e.supply = "default" => ~e.decimals)
  BY DEF readERC20
<1>2. /\ r.there = TRUE /\ r.symbol = (t.symbol \/ e.symbol) /\ r.name = (t.name \/ e.name)
      /\ r.decimals = (t.decimals \/ e.decimals)
      /\ r.supply = IF e.supply # "none" THEN e.supply ELSE t.supply
      /\ r.pass = t.pass /\ r.quote = t.quote
  BY DEF resolve, Row
<1>3. \A sy, na, de \in BOOLEAN, su \in {"none", "own", "default", "genesis"} :
        [t EXCEPT !.there = TRUE, !.symbol = sy, !.name = na, !.decimals = de, !.supply = su] \in Row
  BY DEF Row
<1>4. r \in Row
  <2>1. /\ (t.symbol \/ e.symbol) \in BOOLEAN /\ (t.name \/ e.name) \in BOOLEAN
        /\ (t.decimals \/ e.decimals) \in BOOLEAN
        /\ (IF e.supply # "none" THEN e.supply ELSE t.supply) \in {"none", "own", "default", "genesis"}
    BY <1>1 DEF Row
  <2> QED
    BY <1>3, <2>1, Zenon DEF resolve
<1> QED
  BY <1>1, <1>2, <1>4, <1>5

\* Valued puts the pass's number and a quote on the copy and changes nothing else.
LEMMA ValuedKeeps ==
  ASSUME TypeOK, NEW a \in Token
  PROVE  /\ Valued(a) \in Row
         /\ Valued(a).there = copies[a].there /\ Valued(a).symbol = copies[a].symbol
         /\ Valued(a).decimals = copies[a].decimals /\ Valued(a).supply = copies[a].supply
         /\ Valued(a).pass \in {copies[a].pass, passes}
         /\ a \in priced \cup Traded => /\ Valued(a).pass = passes
                                        /\ Valued(a).quote \in {0, anchor}
         /\ a \notin priced \cup Traded => Valued(a) = copies[a]
<1>1. copies[a] \in Row /\ passes \in Nat /\ anchor \in Nat
  BY DEF TypeOK
<1>2. CASE a \in priced \cup Traded
  <2> DEFINE q == IF a \in priced THEN anchor ELSE 0
             v == [copies[a] EXCEPT !.pass = passes, !.quote = q]
  <2>1. Valued(a) = v
    BY <1>2 DEF Valued
  <2>2. q \in Nat /\ q \in {0, anchor}
    BY <1>1
  <2> HIDE DEF q
  <2>3. v \in Row /\ v.there = copies[a].there /\ v.symbol = copies[a].symbol
        /\ v.decimals = copies[a].decimals /\ v.supply = copies[a].supply
        /\ v.pass = passes /\ v.quote = q
    BY <1>1, <2>2 DEF Row
  <2> QED
    BY <1>2, <2>1, <2>2, <2>3
<1>3. CASE a \notin priced \cup Traded
  BY <1>1, <1>3 DEF Valued
<1> QED
  BY <1>2, <1>3

\* What publishNativeSupply writes is a row that differs in the supply alone.
LEMMA GenesisKeeps ==
  ASSUME NEW t \in Row
  PROVE  LET g == [t EXCEPT !.supply = "genesis"] IN
           /\ g \in Row /\ g.supply = "genesis"
           /\ g.there = t.there /\ g.symbol = t.symbol /\ g.decimals = t.decimals
           /\ g.pass = t.pass /\ g.quote = t.quote
BY DEF Row

\* The empty row, field by field.
LEMMA NoRowFields == NoRow \in Row /\ ~NoRow.there /\ NoRow.supply = "none"
                     /\ NoRow.pass = 0 /\ NoRow.quote = 0 /\ ~NoRow.symbol /\ ~NoRow.decimals
BY DEF NoRow, Row

(***************************************************************************)
(* Type correctness                                                        *)
(***************************************************************************)
\* TypeOK holds at the start and every action keeps it, whatever calls the node loses
\* and whichever reads the store fails.
LEMMA TypeInit == Init => TypeOK
<1> SUFFICES ASSUME Init PROVE TypeOK
  OBVIOUS
<1>1. NoRows \in [Token -> Row]
  BY NoRowFields DEF NoRows
<1>2. store \in [Token -> Row]
  BY NoRowFields DEF Init, Row
<1>3. {store, memo, copies} \subseteq [Token -> Row] /\ seen \in Row
  BY <1>1, <1>2, NoRowFields DEF Init
<1>4. /\ pc \in {"down", "list", "backfill", "run"} /\ todo \subseteq Token /\ asking \subseteq Token
      /\ pass \in {"idle", "anchor", "write"} /\ left \subseteq Token /\ priced \subseteq Token
      /\ whole \in BOOLEAN /\ published \in BOOLEAN /\ again \subseteq Token
  BY DEF Init
<1>5. anchor \in 0 .. bundle /\ bundle \in Nat /\ passes \in Nat /\ faults \in Nat
  BY DEF Init
<1> QED
  BY <1>3, <1>4, <1>5 DEF TypeOK

\* Every step keeps the types.
LEMMA TypeStep == TypeOK /\ [Next]_vars => TypeOK'
<1> SUFFICES ASSUME TypeOK, [Next]_vars PROVE TypeOK'
  OBVIOUS
<1>0. NoRows \in [Token -> Row] /\ NoRow \in Row
  BY NoRowFields DEF NoRows
<1>1. CASE Start
  BY <1>1 DEF Start, TypeOK, poll, valuing
<1>2. CASE ListRows
  BY <1>2 DEF ListRows, TypeOK, valuing
<1>3. CASE BackfillEnd
  BY <1>3 DEF BackfillEnd, TypeOK, poll, valuing
<1>4. CASE Crash
  <2>1. {store, memo, copies}' \subseteq [Token -> Row] /\ seen' \in Row
    BY <1>0, <1>4 DEF Crash, EndPass, TypeOK
  <2>2. /\ pc' = "down" /\ todo' = {} /\ asking' = {} /\ pass' = "idle" /\ left' = {} /\ priced' = {}
        /\ whole' = FALSE /\ published' = FALSE /\ anchor' = 0
    BY <1>4 DEF Crash, EndPass
  <2>3. bundle' \in Nat /\ passes' \in Nat /\ faults' \in Nat
    BY <1>4 DEF Crash, TypeOK
  <2>4. anchor' \in 0 .. bundle' /\ whole' \in BOOLEAN /\ published' \in BOOLEAN
    <3>1. anchor' = 0 /\ bundle' \in Nat
      BY <2>2, <2>3
    <3>2. anchor' \in 0 .. bundle'
      BY <3>1
    <3>3. whole' \in BOOLEAN /\ published' \in BOOLEAN
      BY <2>2
    <3> QED
      BY <3>2, <3>3
  <2>5. /\ pc' \in {"down", "list", "backfill", "run"} /\ pass' \in {"idle", "anchor", "write"}
        /\ todo' \subseteq Token /\ asking' \subseteq Token
        /\ left' \subseteq Token /\ priced' \subseteq Token
    BY <2>2
  <2>6. again' \subseteq Token
    BY <1>4 DEF Crash, TypeOK
  <2> QED
    BY <2>1, <2>3, <2>4, <2>5, <2>6 DEF TypeOK
<1>5. ASSUME NEW a \in Token, BackfillRow(a) \/ Handler(a) PROVE TypeOK'
  <2>1. PICK t \in Row : Consult(a, t) \/ UNCHANGED <<memo, asking, seen>>
    BY <1>0, <1>5 DEF BackfillRow, Handler, storedToken, TypeOK
  <2>2. memo' \in [Token -> Row] /\ asking' \subseteq Token /\ seen' \in Row
    BY <2>1 DEF Consult, TypeOK
  <2>3. todo' \subseteq Token /\ UNCHANGED <<pc, store, again, valuing, faults>>
    BY <1>5 DEF BackfillRow, Handler, TypeOK
  <2> QED
    BY <2>2, <2>3 DEF TypeOK, valuing
<1>6. ASSUME NEW a \in Token, NEW fail \in FailSets, Answer(a, fail) PROVE TypeOK'
  <2> DEFINE t == resolve(seen, readERC20(a, fail))
  <2>1. t \in Row
    BY ResolveKeeps DEF TypeOK
  <2> HIDE DEF t
  <2>2. /\ asking' = {} /\ seen' = NoRow /\ memo' = [memo EXCEPT ![a] = t]
        /\ store' = [store EXCEPT ![a] = t] /\ UNCHANGED <<pc, todo, valuing, faults>>
    BY <1>6 DEF Answer, t
  <2>3. again' \subseteq Token
    BY <1>6 DEF Answer, TypeOK
  <2> QED
    BY <1>0, <2>1, <2>2, <2>3 DEF TypeOK, valuing
<1>7. CASE PassRead
  <2>1. {store, memo, copies}' \subseteq [Token -> Row] /\ seen' \in Row
    BY <1>7 DEF PassRead, TypeOK, poll
  <2>2. left' \subseteq Token /\ priced' \subseteq Token /\ pass' = "anchor" /\ whole' = FALSE
    BY <1>7 DEF PassRead
  <2>3. passes' \in Nat /\ UNCHANGED <<pc, todo, asking, again, anchor, bundle, published, faults>>
    BY <1>7 DEF PassRead, TypeOK, poll
  <2> QED
    BY <2>1, <2>2, <2>3 DEF TypeOK
<1>8. CASE PassAnchor
  BY <1>8 DEF PassAnchor, TypeOK, poll
<1>9. ASSUME NEW a \in Token, PassToken(a) PROVE TypeOK'
  <2>1. Valued(a) \in Row
    BY ValuedKeeps
  <2> QED
    BY <1>9, <2>1 DEF PassToken, TypeOK, poll
<1>10. CASE PublishNative
  <2> DEFINE row == IF copies[Native].there THEN copies[Native] ELSE store[Native]
             g == [row EXCEPT !.supply = "genesis"]
  <2>1. row \in Row
    BY DEF TypeOK
  <2>2. g \in Row
    BY <2>1, GenesisKeeps
  <2>3. store' = [store EXCEPT ![Native] = g] \/ store' = store
    BY <1>10 DEF PublishNative
  <2> HIDE DEF g
  <2>4. store' \in [Token -> Row] /\ published' \in BOOLEAN
    BY <1>10, <2>2, <2>3 DEF TypeOK, PublishNative
  <2> QED
    BY <1>0, <1>10, <2>4 DEF PublishNative, EndPass, TypeOK, poll
<1>11. CASE PassPanics
  BY <1>0, <1>11 DEF PassPanics, EndPass, TypeOK, poll
<1>12. CASE UNCHANGED vars
  BY <1>12 DEF vars, poll, valuing, TypeOK
<1> QED
  BY <1>1, <1>2, <1>3, <1>4, <1>5, <1>6, <1>7, <1>8, <1>9, <1>10, <1>11, <1>12 DEF Next

\* The store's rows, the memoised ones and the pass's copies keep their shape, and no
\* pass quotes against an anchor newer than the bundle row (publishAnchor).
THEOREM TypeCorrect == Spec => []TypeOK
BY TypeInit, TypeStep, PTL DEF Spec

(***************************************************************************)
(* One unit for one field.  The scale of a supply is part of the read that *)
(* brought it, so every copy of a row that may be put back is watched: the *)
(* store's, the memoised one, the pass's and the one a read is out for.    *)
(***************************************************************************)
\* What SupplyScaled says of one copy of a row, `rep` being the addresses asked about
\* over a row; and a row that is not there knows nothing.
OwnScale(a, t, rep) ==
  /\ t.supply = "own" => t.decimals
  /\ t.supply = "default" /\ t.decimals => a \in rep
  /\ ~t.there => ~t.decimals /\ t.supply = "none"

ScaleInv ==
  /\ \A a \in Token : /\ OwnScale(a, store[a], again) /\ OwnScale(a, memo[a], again)
                      /\ OwnScale(a, copies[a], again)
  /\ \A a \in asking : OwnScale(a, seen, again)

\* No supply is known at the start.
LEMMA ScaleInit == Init => ScaleInv
<1> SUFFICES ASSUME Init PROVE ScaleInv
  OBVIOUS
<1>1. \A a \in Token : /\ store[a].supply = "none" /\ memo[a] = NoRow /\ copies[a] = NoRow
                       /\ store[a] = NoRow \/ store[a].there
  BY NoRowFields DEF Init, NoRows
<1>2. asking = {}
  BY DEF Init
<1> QED
  BY <1>1, <1>2, NoRowFields DEF ScaleInv, OwnScale

\* Every step keeps each supply beside the decimals it was scaled by.
LEMMA ScaleStep ==
  ASSUME TypeOK, ScaleInv, [Next]_vars
  PROVE  ScaleInv'
<1>0. \A a \in Token : \A rep : OwnScale(a, NoRow, rep) /\ NoRows[a] = NoRow
  BY NoRowFields DEF OwnScale, NoRows
<1>1. CASE Start \/ ListRows \/ BackfillEnd \/ PassAnchor \/ UNCHANGED vars
  BY <1>1 DEF Start, ListRows, BackfillEnd, PassAnchor, vars, poll, valuing, ScaleInv
<1>2. CASE Crash
  BY <1>0, <1>2 DEF Crash, EndPass, ScaleInv
<1>3. ASSUME NEW a \in Token, BackfillRow(a) \/ Handler(a) PROVE ScaleInv'
  <2>1. PICK t : OwnScale(a, t, again) /\ (Consult(a, t) \/ UNCHANGED <<memo, asking, seen>>)
    BY <1>0, <1>3 DEF BackfillRow, Handler, storedToken, ScaleInv
  <2>2. UNCHANGED <<store, copies, again>>
    BY <1>3 DEF BackfillRow, Handler, valuing
  <2>3. CASE UNCHANGED <<memo, asking, seen>>
    BY <2>2, <2>3 DEF ScaleInv
  <2>4. CASE memo' = [memo EXCEPT ![a] = t] /\ UNCHANGED <<asking, seen>>
    BY <2>1, <2>2, <2>4 DEF ScaleInv, TypeOK
  <2>5. CASE asking' = {a} /\ seen' = t /\ UNCHANGED memo
    BY <2>1, <2>2, <2>5 DEF ScaleInv
  <2> QED
    BY <2>1, <2>3, <2>4, <2>5 DEF Consult
<1>4. ASSUME NEW a \in Token, NEW fail \in FailSets, Answer(a, fail) PROVE ScaleInv'
  <2> DEFINE t == resolve(seen, readERC20(a, fail))
  <2>1. /\ asking' = {} /\ memo' = [memo EXCEPT ![a] = t]
        /\ store' = [store EXCEPT ![a] = t] /\ copies' = copies
        /\ again' = IF seen.there THEN again \cup {a} ELSE again
    BY <1>4 DEF Answer, valuing
  <2>2. OwnScale(a, seen, again) /\ seen \in Row
    BY <1>4 DEF Answer, ScaleInv, TypeOK
  <2>3. /\ t.there /\ (seen.decimals => t.decimals)
        /\ t.supply = "own" => t.decimals \/ seen.supply = "own"
        /\ t.supply = "default" /\ t.decimals => seen.decimals \/ seen.supply = "default"
    BY <2>2, ResolveKeeps
  <2>4. OwnScale(a, t, again')
    <3> HIDE DEF t
    <3>1. seen.decimals \/ seen.supply = "default" => a \in again'
      BY <2>1, <2>2 DEF OwnScale
    <3> QED
      BY <2>2, <2>3, <3>1 DEF OwnScale
  <2>5. \A b \in Token : \A u : OwnScale(b, u, again) => OwnScale(b, u, again')
    BY <2>1 DEF OwnScale
  <2> HIDE DEF t
  <2> QED
    BY <2>1, <2>4, <2>5 DEF ScaleInv, TypeOK
<1>5. CASE PassRead
  BY <1>5 DEF PassRead, poll, ScaleInv
<1>6. ASSUME NEW a \in Token, PassToken(a) PROVE ScaleInv'
  <2>1. OwnScale(a, Valued(a), again)
    BY ValuedKeeps DEF ScaleInv, OwnScale
  <2> QED
    BY <1>6, <2>1 DEF PassToken, poll, ScaleInv, TypeOK
<1>7. CASE PublishNative
  <2> DEFINE row == IF copies[Native].there THEN copies[Native] ELSE store[Native]
             g == [row EXCEPT !.supply = "genesis"]
  <2>1. row \in Row
    BY DEF TypeOK
  <2>2. row.there => OwnScale(Native, g, again)
    BY <2>1, GenesisKeeps DEF OwnScale
  <2>3. (row.there /\ store' = [store EXCEPT ![Native] = g]) \/ store' = store
    BY <1>7 DEF PublishNative
  <2>4. copies' = NoRows /\ UNCHANGED <<memo, asking, seen, again>>
    BY <1>7 DEF PublishNative, EndPass, poll
  <2> HIDE DEF g, row
  <2> QED
    BY <1>0, <2>2, <2>3, <2>4 DEF ScaleInv, TypeOK
<1>8. CASE PassPanics
  BY <1>0, <1>8 DEF PassPanics, EndPass, poll, ScaleInv
<1> QED
  BY <1>1, <1>2, <1>3, <1>4, <1>5, <1>6, <1>7, <1>8 DEF Next

\* readERC20 and resolve keep a supply and its scale together, whatever calls the node
\* loses, whatever the store fails to answer and whichever writer puts a copy back: a
\* supply scaled by the contract's decimals has them beside it, and a supply scaled by
\* the default stands beside them only in a row that was asked about again.
THEOREM SuppliesScaled == Spec => []SupplyScaled
<1>1. TypeOK /\ ScaleInv /\ [Next]_vars => ScaleInv'
  BY ScaleStep
<1>2. ScaleInv => SupplyScaled
  BY DEF ScaleInv, SupplyScaled, OwnScale
<1> QED
  BY <1>1, <1>2, ScaleInit, TypeCorrect, PTL DEF Spec

(***************************************************************************)
(* Three writers of whole rows.  When the store answers its reads, a start *)
(* has asked about every row before the handlers and the pass run, so from *)
(* then on an address is asked about only while it has no row, and the row *)
(* a pass read is the row it writes back over.                             *)
(***************************************************************************)
\* Every read of the store is answered: GetTokens in the backfill, GetToken in token().
StoreAnswers == Faults = {}

Known(a) == memo[a].there \/ settled(store[a])

\* The poller: in the backfill it holds the row as it is stored and every row is still
\* listed, asked about or known; once indexing it asks about addresses without a row.
PollerOwns ==
  /\ \A a, b \in asking : a = b
  /\ pc \in {"down", "list"} => asking = {}
  /\ pc = "backfill" => /\ \A a \in asking : seen = store[a]
                        /\ \A a \in Token : store[a].there => a \in todo \cup asking \/ Known(a)
  /\ pc = "run" => /\ \A a \in asking : seen = NoRow /\ store[a] = NoRow
                   /\ \A a \in Token : store[a].there => Known(a)

\* The pass: it runs beside the handlers only, and each copy is the row as it stands.
PassOwns ==
  /\ pass # "idle" => pc = "run" /\ ~whole
  /\ pc # "run" => ~whole /\ ~published
  /\ pass = "idle" => \A a \in Token : ~copies[a].there
  /\ \A a \in left : copies[a].there
  /\ \A a \in Token : copies[a].there => copies[a] = store[a]

\* The rows: an absent one is empty, none is from a pass not begun, and the native
\* coin's supply stands once published.
RowsStand ==
  /\ \A a \in Token : ~store[a].there => store[a] = NoRow
  /\ \A a \in Token : store[a].pass <= passes
  /\ published => store[Native].there /\ store[Native].supply = "genesis"

OwnInv == PollerOwns /\ PassOwns /\ RowsStand

\* Nothing is learned, copied or cached at the start.
LEMMA OwnInit == Init => OwnInv
<1> SUFFICES ASSUME Init PROVE OwnInv
  OBVIOUS
<1>1. \A a \in Token : (~store[a].there => store[a] = NoRow) /\ store[a].pass = 0 /\ ~copies[a].there
  BY NoRowFields DEF Init, NoRows
<1> QED
  BY <1>1 DEF Init, OwnInv, PollerOwns, PassOwns, RowsStand

\* What a write of one row has to respect: the row is there, at least as much is known
\* of it as before, and it is from no later pass than the one that runs.
Over(t, u) ==
  /\ u.there
  /\ t.symbol => u.symbol
  /\ t.decimals => u.decimals
  /\ t.supply # "none" => u.supply # "none"
  /\ u.pass >= t.pass

\* Every step leaves a row alone or writes over it what is at least as much.
RowsGrow == \A a \in Token : store[a].there => Over(store[a], store'[a])

\* Every step keeps the copies that the handlers, the backfill and the pass hold behind the rows.
LEMMA OwnStep ==
  ASSUME StoreAnswers, TypeOK, OwnInv, [Next]_vars
  PROVE  OwnInv' /\ RowsGrow
<1>0. \A a \in Token : NoRows[a] = NoRow
  BY DEF NoRows
<1>a. ASSUME UNCHANGED store PROVE RowsGrow
  BY <1>a DEF RowsGrow, Over, TypeOK, Row
<1>1. CASE Start
  BY <1>1, <1>a DEF Start, poll, valuing, OwnInv, PollerOwns, PassOwns, RowsStand, Known
<1>2. CASE ListRows
  <2>1. pc' = "backfill" /\ todo' = {a \in Token : store[a].there}
    BY <1>2 DEF ListRows, StoreAnswers
  <2> QED
    BY <1>2, <1>a, <2>1 DEF ListRows, valuing, OwnInv, PollerOwns, PassOwns, RowsStand, Known
<1>3. CASE BackfillEnd
  BY <1>3, <1>a DEF BackfillEnd, poll, valuing, OwnInv, PollerOwns, PassOwns, RowsStand, Known
<1>4. CASE Crash
  BY <1>0, <1>4, <1>a, NoRowFields
  DEF Crash, EndPass, OwnInv, PollerOwns, PassOwns, RowsStand
<1>5. ASSUME NEW a \in Token, BackfillRow(a) PROVE OwnInv' /\ RowsGrow
  <2>1. CASE (settled(store[a]) \/ memo[a].there) /\ UNCHANGED <<memo, asking, seen>>
    BY <1>5, <1>a, <2>1
    DEF BackfillRow, valuing, OwnInv, PollerOwns, PassOwns, RowsStand, Known
  <2>2. CASE ~settled(store[a]) /\ Consult(a, store[a])
    BY <1>5, <1>a, <2>2
    DEF BackfillRow, Consult, valuing, OwnInv, PollerOwns, PassOwns, RowsStand, Known
  <2> QED
    BY <1>5, <2>1, <2>2 DEF BackfillRow, storedToken, StoreAnswers
<1>6. ASSUME NEW a \in Token, Handler(a) PROVE OwnInv' /\ RowsGrow
  <2>1. Consult(a, store[a]) /\ pc = "run" /\ asking = {} /\ ~memo[a].there
        /\ UNCHANGED <<pc, store, todo, valuing, faults>>
    BY <1>6 DEF Handler, storedToken, StoreAnswers
  <2>2. CASE settled(store[a]) /\ memo' = [memo EXCEPT ![a] = store[a]] /\ UNCHANGED <<asking, seen>>
    <3>1. \A b \in Token : memo[b].there => memo'[b].there
      BY <2>2 DEF settled, TypeOK
    <3> QED
      BY <1>a, <2>1, <2>2, <3>1 DEF valuing, OwnInv, PollerOwns, PassOwns, RowsStand, Known
  <2>3. CASE ~settled(store[a]) /\ asking' = {a} /\ seen' = store[a] /\ UNCHANGED memo
    <3>1. store[a] = NoRow
      BY <2>1, <2>3 DEF OwnInv, PollerOwns, RowsStand, Known
    <3> QED
      BY <1>a, <2>1, <2>3, <3>1 DEF valuing, OwnInv, PollerOwns, PassOwns, RowsStand, Known
  <2> QED
    BY <2>1, <2>2, <2>3 DEF Consult
<1>b. ASSUME NEW a \in Token, NEW u \in Row, store' = [store EXCEPT ![a] = u],
             store[a].there => Over(store[a], u)
      PROVE  RowsGrow
  BY <1>b DEF RowsGrow, Over, TypeOK, Row
<1>7. ASSUME NEW a \in Token, NEW fail \in FailSets, Answer(a, fail) PROVE OwnInv' /\ RowsGrow
  <2> DEFINE t == resolve(seen, readERC20(a, fail))
  <2>1. /\ a \in asking /\ asking' = {} /\ memo' = [memo EXCEPT ![a] = t]
        /\ store' = [store EXCEPT ![a] = t] /\ UNCHANGED <<pc, todo, valuing, faults>>
    BY <1>7 DEF Answer
  <2>2. t \in Row /\ Over(seen, t) /\ t.pass = seen.pass
    BY ResolveKeeps DEF TypeOK, Row, Over
  <2> HIDE DEF t
  <2>3. pc \in {"backfill", "run"} /\ seen = store[a] /\ seen \in Row
    BY <2>1 DEF OwnInv, PollerOwns, TypeOK
  <2>4. pc = "run" => ~store[a].there
    BY <2>1, NoRowFields DEF OwnInv, PollerOwns
  <2>5. /\ memo'[a].there /\ \A b \in Token \ {a} : memo'[b] = memo[b] /\ store'[b] = store[b]
        /\ store'[a] = t
    BY <2>1, <2>2 DEF TypeOK, Over
  <2>6. PollerOwns'
    BY <2>1, <2>3, <2>5 DEF OwnInv, PollerOwns, Known, settled
  <2>7. PassOwns'
    <3>1. ~copies[a].there
      BY <2>3, <2>4 DEF OwnInv, PassOwns, TypeOK
    <3> QED
      BY <2>1, <2>5, <3>1 DEF OwnInv, PassOwns, valuing
  <2>8. RowsStand'
    <3>1. published => a # Native
      BY <2>3, <2>4 DEF OwnInv, PassOwns, RowsStand
    <3> QED
      BY <2>1, <2>2, <2>3, <2>5, <3>1 DEF OwnInv, RowsStand, valuing, Over
  <2> QED
    BY <1>b, <2>1, <2>2, <2>3, <2>6, <2>7, <2>8 DEF OwnInv
<1>8. CASE PassRead
  <2>1. /\ pc = "run" /\ pass' = "anchor" /\ copies' = store /\ passes' = passes + 1 /\ whole' = FALSE
        /\ left' = {a \in Token : store[a].there} /\ UNCHANGED <<pc, store, poll, published>>
    BY <1>8 DEF PassRead
  <2>2. PollerOwns'
    BY <2>1 DEF poll, OwnInv, PollerOwns, Known
  <2>3. PassOwns'
    BY <2>1 DEF OwnInv, PassOwns
  <2>4. RowsStand'
    <3>1. \A a \in Token : store[a].pass \in Nat
      BY DEF TypeOK, Row
    <3> QED
      BY <2>1, <3>1 DEF OwnInv, RowsStand, TypeOK
  <2> QED
    BY <1>a, <2>1, <2>2, <2>3, <2>4 DEF OwnInv
<1>9. CASE PassAnchor
  BY <1>9, <1>a DEF PassAnchor, poll, OwnInv, PollerOwns, PassOwns, RowsStand, Known
<1>10. ASSUME NEW a \in Token, PassToken(a) PROVE OwnInv' /\ RowsGrow
  <2>1. pc = "run" /\ copies[a] = store[a] /\ store[a].there /\ store[a] \in Row
    BY <1>10 DEF PassToken, OwnInv, PassOwns, TypeOK
  <2>2. store' = [store EXCEPT ![a] = Valued(a)]
    BY <1>10, <2>1, ValuedKeeps DEF PassToken, TypeOK
  <2>3. Valued(a) \in Row /\ Over(store[a], Valued(a)) /\ Valued(a).pass <= passes
        /\ Valued(a).supply = store[a].supply /\ Valued(a).symbol = store[a].symbol
    BY <2>1, ValuedKeeps DEF Over, OwnInv, RowsStand, TypeOK, Row
  <2>4. /\ store'[a] = Valued(a) /\ copies'[a] = Valued(a)
        /\ \A b \in Token \ {a} : store'[b] = store[b] /\ copies'[b] = copies[b]
    BY <1>10, <2>2 DEF PassToken, TypeOK
  <2>5. /\ UNCHANGED <<pc, memo, todo, asking, seen, pass, priced, anchor, passes, whole, published>>
        /\ left' = left \ {a}
    BY <1>10 DEF PassToken, poll
  <2>6. PollerOwns'
    <3>1. a \notin asking
      BY <2>1, NoRowFields DEF OwnInv, PollerOwns
    <3>2. \A b \in Token : store[b].there /\ Known(b) => Known(b)'
      BY <2>1, <2>3, <2>4, <2>5 DEF Known, settled, Over
    <3>3. \A b \in Token : store'[b].there => store[b].there
      BY <2>1, <2>4
    <3> QED
      BY <2>1, <2>4, <2>5, <3>1, <3>2, <3>3 DEF OwnInv, PollerOwns, TypeOK
  <2>7. PassOwns'
    BY <2>1, <2>3, <2>4, <2>5 DEF OwnInv, PassOwns, Over, TypeOK
  <2>8. RowsStand'
    BY <2>1, <2>3, <2>4, <2>5 DEF OwnInv, RowsStand, Over
  <2> QED
    BY <1>b, <2>2, <2>3, <2>6, <2>7, <2>8 DEF OwnInv
<1>11. CASE PublishNative
  <2> DEFINE g == [store[Native] EXCEPT !.supply = "genesis"]
  <2>1. pc = "run" /\ store[Native] \in Row
    BY <1>11 DEF PublishNative, OwnInv, PassOwns, TypeOK
  <2>2. \/ store[Native].there /\ store' = [store EXCEPT ![Native] = g]
        \/ UNCHANGED <<store, published>>
    BY <1>11 DEF PublishNative, OwnInv, PassOwns
  <2>3. /\ g \in Row /\ g.supply = "genesis" /\ g.there = store[Native].there
        /\ g.symbol = store[Native].symbol /\ g.pass = store[Native].pass
        /\ g.decimals = store[Native].decimals
    BY <2>1, GenesisKeeps
  <2> HIDE DEF g
  <2>4. /\ UNCHANGED <<pc, memo, todo, asking, seen, passes>> /\ pass' = "idle" /\ copies' = NoRows
        /\ left' = {}
    BY <1>11 DEF PublishNative, EndPass, poll
  <2>5. PassOwns'
    BY <1>0, <2>1, <2>4, NoRowFields DEF PassOwns
  <2>6. CASE UNCHANGED <<store, published>>
    BY <1>a, <2>4, <2>5, <2>6 DEF OwnInv, PollerOwns, RowsStand, Known
  <2>7. CASE store[Native].there /\ store' = [store EXCEPT ![Native] = g]
    <3>1. store'[Native] = g /\ \A b \in Token \ {Native} : store'[b] = store[b]
      BY <2>7 DEF TypeOK
    <3>2. Native \notin asking
      BY <2>1, <2>7, NoRowFields DEF OwnInv, PollerOwns
    <3>3. PollerOwns'
      BY <2>1, <2>3, <2>4, <2>7, <3>1, <3>2 DEF OwnInv, PollerOwns, Known, settled
    <3>4. RowsStand'
      <4>1. store'[Native].there /\ store'[Native].pass = store[Native].pass
            /\ store'[Native].supply = "genesis"
        BY <2>3, <2>7, <3>1
      <4> QED
        BY <2>4, <3>1, <4>1 DEF OwnInv, RowsStand
    <3>5. Over(store[Native], g)
      BY <2>1, <2>3, <2>7 DEF Over, Row
    <3> QED
      BY <1>b, <2>3, <2>5, <2>7, <3>3, <3>4, <3>5 DEF OwnInv
  <2> QED
    BY <2>2, <2>6, <2>7
<1>12. CASE PassPanics
  BY <1>0, <1>12, <1>a, NoRowFields
  DEF PassPanics, EndPass, poll, OwnInv, PollerOwns, PassOwns, RowsStand, Known
<1>13. CASE UNCHANGED vars
  BY <1>13, <1>a DEF vars, poll, valuing, OwnInv, PollerOwns, PassOwns, RowsStand, Known
<1> QED
  BY <1>1, <1>2, <1>3, <1>4, <1>5, <1>6, <1>7, <1>8, <1>9, <1>10, <1>11, <1>12, <1>13 DEF Next

\* What each writer holds, and what the rows keep, for good.
LEMMA OwnInvariant == StoreAnswers => (Spec => [](TypeOK /\ OwnInv))
<1> SUFFICES ASSUME StoreAnswers PROVE Spec => [](TypeOK /\ OwnInv)
  OBVIOUS
<1>1. TypeOK /\ OwnInv /\ [Next]_vars => OwnInv'
  BY OwnStep
<1> QED
  BY <1>1, OwnInit, TypeCorrect, PTL DEF Spec

\* publishNativeSupply has the last word: once a process has published what was minted,
\* no handler's answer and no later pass puts another supply on the native row.
THEOREM NativeSupplyStands == StoreAnswers => (Spec => []NativeStands)
<1>1. OwnInv => NativeStands
  BY DEF OwnInv, RowsStand, NativeStands
<1> QED
  BY <1>1, OwnInvariant, PTL

\* resolve and the pass lose nothing: no step of the backfill, the handlers or the pass
\* removes a row, a symbol, decimals or a supply, or puts back an older pass's values.
THEOREM NothingLost == StoreAnswers => (Spec => KnownKept)
<1> SUFFICES ASSUME StoreAnswers PROVE Spec => KnownKept
  OBVIOUS
<1>1. TypeOK /\ OwnInv /\ [Next]_vars =>
        [\A a \in Token : store[a].there =>
           /\ store'[a].there
           /\ store[a].symbol => store'[a].symbol
           /\ store[a].decimals => store'[a].decimals
           /\ store[a].supply # "none" => store'[a].supply # "none"
           /\ store'[a].pass >= store[a].pass]_vars
  BY OwnStep DEF RowsGrow, Over
<1> QED
  BY <1>1, OwnInvariant, PTL DEF Spec, KnownKept

(***************************************************************************)
(* One bundle.  The pass publishes its anchor before it writes a row, and  *)
(* rewrites every row that has traded, so when it ends no row is left that *)
(* was quoted against an earlier one.                                      *)
(***************************************************************************)
\* Rows done by the pass are quoted against its anchor or not at all; rows it did not
\* read are new, and carry no quote.
QuoteInv ==
  /\ pass = "anchor" => \A a \in Token : copies[a].there => a \in left
  /\ pass = "write" => anchor \in {0, bundle}
  /\ pass # "idle" => \A a \in Token \ left : store[a].quote \in {0, anchor}
  /\ pass = "anchor" => \A a \in Token \ left : store[a].quote = 0
  /\ QuotesMatchBundle

\* No quote is stored at the start.
LEMMA QuoteInit == Init => QuoteInv
BY DEF Init, QuoteInv, QuotesMatchBundle

\* Every step keeps the stored quotes those of one bundle or of the pass under way.
LEMMA QuoteStep ==
  ASSUME Traded = Token, StoreAnswers, TypeOK, OwnInv, QuoteInv, [Next]_vars
  PROVE  QuoteInv'
<1>1. CASE Start \/ ListRows \/ BackfillEnd \/ UNCHANGED vars
  <2>1. UNCHANGED <<store, valuing>>
    BY <1>1 DEF Start, ListRows, BackfillEnd, vars
  <2> QED
    BY <2>1 DEF valuing, QuoteInv, QuotesMatchBundle
<1>2. CASE Crash
  BY <1>2 DEF Crash, EndPass, QuoteInv, QuotesMatchBundle
<1>3. ASSUME NEW a \in Token, BackfillRow(a) \/ Handler(a) PROVE QuoteInv'
  BY <1>3 DEF BackfillRow, Handler, valuing, QuoteInv, QuotesMatchBundle
<1>4. ASSUME NEW a \in Token, NEW fail \in FailSets, Answer(a, fail) PROVE QuoteInv'
  <2> DEFINE t == resolve(seen, readERC20(a, fail))
  <2>1. a \in asking /\ store' = [store EXCEPT ![a] = t] /\ UNCHANGED <<pc, valuing>>
    BY <1>4 DEF Answer
  <2>2. t.quote = seen.quote
    BY ResolveKeeps DEF TypeOK
  <2> HIDE DEF t
  <2>3. store'[a] = t /\ \A b \in Token \ {a} : store'[b] = store[b]
    BY <2>1 DEF TypeOK
  <2>4. CASE pc = "run"
    <3>1. t.quote = 0 /\ store'[a].quote = 0
      BY <2>1, <2>2, <2>3, <2>4, NoRowFields DEF OwnInv, PollerOwns
    <3> QED
      BY <2>1, <2>3, <3>1 DEF valuing, QuoteInv, QuotesMatchBundle
  <2>5. CASE pc # "run"
    BY <2>1, <2>5 DEF valuing, OwnInv, PassOwns, QuoteInv, QuotesMatchBundle
  <2> QED
    BY <2>4, <2>5
<1>5. CASE PassRead
  <2>1. \A a \in Token : ~store[a].there => store[a].quote = 0
    BY NoRowFields DEF OwnInv, RowsStand
  <2> QED
    BY <1>5, <2>1 DEF PassRead, QuoteInv, QuotesMatchBundle
<1>6. CASE PassAnchor
  BY <1>6 DEF PassAnchor, QuoteInv, QuotesMatchBundle
<1>7. ASSUME NEW a \in Token, PassToken(a) PROVE QuoteInv'
  <2>1. store' = [store EXCEPT ![a] = Valued(a)] /\ Valued(a).quote \in {0, anchor}
    BY <1>7, ValuedKeeps DEF PassToken
  <2>2. store'[a].quote \in {0, anchor} /\ \A b \in Token \ {a} : store'[b] = store[b]
    BY <2>1 DEF TypeOK
  <2>3. /\ pass = "write" /\ left' = left \ {a} /\ UNCHANGED <<pass, anchor, bundle>>
    BY <1>7 DEF PassToken
  <2> QED
    BY <2>2, <2>3 DEF QuoteInv, QuotesMatchBundle
<1>8. CASE PublishNative
  <2>1. \A a \in Token : store'[a].quote = store[a].quote
    <3> DEFINE g == [store[Native] EXCEPT !.supply = "genesis"]
    <3>1. store' = [store EXCEPT ![Native] = g] \/ UNCHANGED store
      BY <1>8 DEF PublishNative, OwnInv, PassOwns
    <3>2. g.quote = store[Native].quote
      BY GenesisKeeps DEF TypeOK
    <3> HIDE DEF g
    <3> QED
      BY <3>1, <3>2 DEF TypeOK
  <2>2. pass = "write" /\ left = {} /\ pass' = "idle" /\ UNCHANGED bundle
    BY <1>8 DEF PublishNative, EndPass
  <2>3. \A a \in Token : store[a].quote # 0 => store[a].quote = bundle
    BY <2>2 DEF QuoteInv
  <2> QED
    BY <2>1, <2>2, <2>3 DEF QuoteInv, QuotesMatchBundle
<1>9. CASE PassPanics
  BY <1>9 DEF PassPanics, EndPass, OwnInv, PassOwns, QuoteInv, QuotesMatchBundle
<1> QED
  BY <1>1, <1>2, <1>3, <1>4, <1>5, <1>6, <1>7, <1>8, <1>9 DEF Next

\* publishAnchor and the rows agree: after a pass that ended, whatever the handlers write
\* before the next one, every quoted row is quoted against the bundle that is served.
THEOREM QuotesAreOfBundle == Traded = Token /\ StoreAnswers => (Spec => []QuotesMatchBundle)
<1> SUFFICES ASSUME Traded = Token, StoreAnswers PROVE Spec => []QuotesMatchBundle
  OBVIOUS
<1>1. TypeOK /\ OwnInv /\ QuoteInv /\ [Next]_vars => QuoteInv'
  BY QuoteStep
<1>2. QuoteInv => QuotesMatchBundle
  BY DEF QuoteInv
<1> QED
  BY <1>1, <1>2, QuoteInit, OwnInvariant, PTL DEF Spec

=============================================================================
