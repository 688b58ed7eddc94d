-------------------------- MODULE ValuationProofs --------------------------
(***************************************************************************)
(* What holds of Valuation for every history, window and set of faults.    *)
(***************************************************************************)
EXTENDS Valuation, FiniteSetTheorems, WellFoundedInduction, TLAPS

\* The constants, as the proofs use them.
LEMMA Constants ==
  /\ N \in Nat
  /\ \A i \in Swaps : i \in Nat /\ Time[i] \in Nat \ {0} /\ Day(Time[i]) \in Days
  /\ \A i, j \in Swaps : i < Time[j]
  /\ Window \in Nat \ {0} /\ MaxLag \in Nat /\ MaxFaults \in Nat
  /\ Legacy \in 0 .. N /\ Priceable \subseteq Valued
  <1>1. N \in Nat
    BY ValuationConstants DEF N
  <1>2. \A i \in Swaps : i \in Nat /\ Time[i] \in Nat \ {0}
    BY ValuationConstants DEF N, Swaps
  <1>3. \A i \in Swaps : Day(Time[i]) \in Days
    BY DEF Days
  <1>. QED BY <1>1, <1>2, <1>3, ValuationConstants, TimesInOrder

\* wholeDays only ever leaves rows out.
LEMMA WholeDaysSubset ==
  ASSUME NEW T, NEW cut, NEW W \in WholeDays(T, cut)
  PROVE  W \subseteq T
  BY DEF WholeDays, Without

\* The head and the tail read put known marks on known swaps.
LEMMA TakeType ==
  ASSUME batch \in [Swaps -> {"unread", "undated", "dated"}], NEW T, Take(T)
  PROVE  batch' \in [Swaps -> {"unread", "undated", "dated"}]
  BY DEF Take

\* The type invariant holds of every behaviour of the pass, the heal and the poller.
THEOREM TypeCorrect == Spec => []TypeOK
  <1>1. Init => TypeOK
    <2>. SUFFICES ASSUME Init PROVE TypeOK
      OBVIOUS
    <2>1. 1 .. Legacy \subseteq Swaps /\ Legacy \in 0 .. N
      BY Constants DEF Swaps
    <2>2. stamp \in [Swaps -> Nat]
      BY Constants DEF Init
    <2>. QED BY <2>1, <2>2, Constants DEF Init, TypeOK
  <1>2. TypeOK /\ [Next]_vars => TypeOK'
    <2>. SUFFICES ASSUME TypeOK, [Next]_vars PROVE TypeOK'
      OBVIOUS
    <2>. USE DEF pollerVars, tableVars, passVars, healVars
    <2>1. CASE BeginPass
      BY <2>1 DEF BeginPass, PoolsRead, TypeOK
    <2>2. ASSUME NEW p \in Priceable, BeginPassUnquoted(p) PROVE TypeOK'
      BY <2>2, Constants DEF BeginPassUnquoted, Fault, PoolsRead, TypeOK
    <2>3. CASE ReadHead
      <3>1. batch' \in [Swaps -> {"unread", "undated", "dated"}]
        BY <2>3, TakeType DEF ReadHead, TypeOK
      <3>. QED BY <2>3, <3>1 DEF ReadHead, TypeOK
    <2>4. CASE ReadHeadFails
      BY <2>4, Constants DEF ReadHeadFails, Fault, TypeOK
    <2>5. CASE ReadTail
      <3>1. PICK T \in FirstRows({i \in have : stamp[i] > mark}) :
              \E W \in IF T = {} THEN {{}} ELSE WholeDays(T, "newest") :
                /\ Take(W)
                /\ reached' \in {stamp[i] : i \in W} \cup {0}
        BY <2>5 DEF ReadTail
      <3>2. PICK W \in IF T = {} THEN {{}} ELSE WholeDays(T, "newest") :
                /\ Take(W)
                /\ reached' \in {stamp[i] : i \in W} \cup {0}
        BY <3>1
      <3>3. W \subseteq T /\ T \subseteq Swaps
        BY <3>2, WholeDaysSubset DEF FirstRows, TypeOK
      <3>4. reached' \in Nat
        BY <3>2, <3>3 DEF TypeOK
      <3>5. batch' \in [Swaps -> {"unread", "undated", "dated"}]
        BY <3>2, TakeType DEF TypeOK
      <3>. QED BY <2>5, <3>4, <3>5, Constants DEF ReadTail, TypeOK
    <2>6. CASE ReadTailFails
      BY <2>6, Constants DEF ReadTailFails, Fault, TypeOK
    <2>7. CASE ValueSwaps
      BY <2>7 DEF ValueSwaps, TypeOK
    <2>8. CASE ValueFails
      BY <2>8, Constants DEF ValueFails, Fault, TypeOK
    <2>9. CASE Mark
      BY <2>9 DEF Mark, TypeOK
    <2>10. CASE Totals
      BY <2>10 DEF Totals, TypeOK
    <2>11. ASSUME NEW today \in Days, WriteSeries(today) PROVE TypeOK'
      <3>1. \A d \in Days : Cell(d) \subseteq Swaps
        BY DEF Cell
      <3>2. dayRow' \in [Days -> SUBSET Swaps]
        BY <2>11, <3>1 DEF WriteSeries, TypeOK
      <3>. QED BY <2>11, <3>2 DEF WriteSeries, PassDone, TypeOK
    <2>12. CASE HealRead
      <3>1. stale' \subseteq Swaps /\ staleUsd' \subseteq Swaps
        BY <2>12 DEF HealRead, FirstRows, TypeOK
      <3>. QED BY <2>12, <3>1 DEF HealRead, TypeOK
    <2>13. CASE HealReadFails
      BY <2>13, Constants DEF HealReadFails, Fault, TypeOK
    <2>14. ASSUME NEW i \in Swaps, HealWrite(i) PROVE TypeOK'
      BY <2>14, Constants DEF HealWrite, TypeOK
    <2>15. ASSUME NEW i \in Swaps, HealSkip(i) PROVE TypeOK'
      BY <2>15 DEF HealSkip, TypeOK
    <2>16. CASE Insert
      <3>1. next + 1 \in Swaps
        BY <2>16, Constants DEF Insert, Swaps, TypeOK
      <3>. QED BY <2>16, <3>1, Constants DEF Insert, Swaps, TypeOK
    <2>17. CASE Commit
      BY <2>17 DEF Commit, TypeOK
    <2>18. CASE Abandon
      BY <2>18, Constants DEF Abandon, Fault, TypeOK
    <2>19. CASE Drop
      BY <2>19, Constants DEF Drop, PassDone, Fault, TypeOK
    <2>20. CASE UNCHANGED vars
      BY <2>20 DEF vars, TypeOK
    <2>. QED BY <2>1, <2>2, <2>3, <2>4, <2>5, <2>6, <2>7, <2>8, <2>9, <2>10, <2>11, <2>12,
                <2>13, <2>14, <2>15, <2>16, <2>17, <2>18, <2>19, <2>20
             DEF Next, Pass, PassFault, Heal, Poller
  <1>. QED BY <1>1, <1>2, PTL DEF Spec

-----------------------------------------------------------------------------
\* A row's timestamp is its block's time when it is dated and its block's number
\* when it is not: what lets the ascending read find the undated rows first.
StampInv ==
  \A i \in have : stamp[i] = IF dated[i] THEN Time[i] ELSE i

HealInv == StampInv /\ AllDated

\* If any row is undated, the ascending read of at least one row holds an undated one.
LEMMA FirstRowsHoldUndated ==
  ASSUME TypeOK, StampInv, NEW T \in FirstRows(have), NEW b \in have, ~dated[b]
  PROVE  \E a \in T : ~dated[a]
  <1>. SUFFICES ASSUME \A a \in T : dated[a] PROVE FALSE
    OBVIOUS
  <1>1. have \subseteq Swaps /\ T \subseteq have /\ b \notin T
    BY DEF TypeOK, FirstRows
  <1>2. IsFiniteSet(have)
    <2>1. IsFiniteSet(Swaps)
      BY Constants, FS_Interval DEF Swaps
    <2>. QED BY <2>1, <1>1, FS_Subset
  <1>3. Cardinality(have) \in Nat /\ Cardinality(have) # 0
    BY <1>2, FS_CardinalityType, FS_EmptySet
  <1>4. Cardinality(T) # 0
    BY <1>3, Constants DEF FirstRows
  <1>5. T # {}
    BY <1>4, FS_EmptySet
  <1>6. PICK a \in T : TRUE
    BY <1>5
  <1>7. stamp[a] <= stamp[b]
    BY <1>1, <1>6 DEF FirstRows
  <1>8. stamp[a] = Time[a] /\ stamp[b] = b
    BY <1>1, <1>6 DEF StampInv
  <1>9. b < Time[a] /\ b \in Nat /\ Time[a] \in Nat
    BY <1>1, <1>6, Constants
  <1>. QED BY <1>7, <1>8, <1>9

\* keepSwapTimes: finding nothing to date "is the ONLY way out" of the heal, and with
\* queries that do not fail it is taken only when every stored row is dated.
THEOREM HealStopsWhenDone == ("read" \notin Faults) => (Spec => []AllDated)
  <1>. SUFFICES ASSUME "read" \notin Faults PROVE Spec => []AllDated
    OBVIOUS
  <1>1. Init => HealInv
    BY Constants DEF Init, HealInv, StampInv, AllDated, Swaps
  <1>2. TypeOK /\ HealInv /\ [Next]_vars => HealInv'
    <2>. SUFFICES ASSUME TypeOK, HealInv, [Next]_vars PROVE HealInv'
      OBVIOUS
    <2>. USE DEF pollerVars, tableVars, passVars, healVars
    <2>1. ASSUME UNCHANGED <<have, stamp, dated, heal>> PROVE HealInv'
      BY <2>1 DEF HealInv, StampInv, AllDated
    <2>2. CASE HealRead
      <3>1. PICK T \in FirstRows(have) : stale' = {i \in T : ~dated[i]}
        BY <2>2 DEF HealRead
      <3>2. (heal' = "done") => \A i \in have : dated[i]
        <4>. SUFFICES ASSUME heal' = "done", NEW b \in have, ~dated[b] PROVE FALSE
          OBVIOUS
        <4>1. stale' = {}
          BY <2>2 DEF HealRead
        <4>2. \E a \in T : ~dated[a]
          BY <3>1, FirstRowsHoldUndated DEF HealInv
        <4>. QED BY <3>1, <4>1, <4>2
      <3>. QED BY <2>2, <3>2 DEF HealRead, HealInv, StampInv, AllDated
    <2>3. CASE HealReadFails
      BY <2>3 DEF HealReadFails, Fault
    <2>4. ASSUME NEW i \in Swaps, HealWrite(i) PROVE HealInv'
      <3>1. /\ stamp' = [stamp EXCEPT ![i] = Time[i]] /\ dated' = [dated EXCEPT ![i] = TRUE]
            /\ have' = have /\ heal' # "done"
        BY <2>4 DEF HealWrite
      <3>2. have \subseteq Swaps /\ stamp \in [Swaps -> Nat] /\ dated \in [Swaps -> BOOLEAN]
        BY DEF TypeOK
      <3>. QED BY <3>1, <3>2 DEF HealInv, StampInv, AllDated
    <2>5. ASSUME NEW i \in Swaps, HealSkip(i) PROVE HealInv'
      BY <2>5 DEF HealSkip, HealInv, StampInv, AllDated
    <2>6. CASE Insert
      <3>1. next + 1 \in Swaps
        BY <2>6, Constants DEF Insert, Swaps, TypeOK
      <3>2. /\ stamp' = [stamp EXCEPT ![next + 1] = Time[next + 1]]
            /\ dated' = [dated EXCEPT ![next + 1] = TRUE]
            /\ have' = have \cup {next + 1} /\ heal' = heal
        BY <2>6 DEF Insert
      <3>3. have \subseteq Swaps /\ stamp \in [Swaps -> Nat] /\ dated \in [Swaps -> BOOLEAN]
        BY DEF TypeOK
      <3>. QED BY <3>1, <3>2, <3>3 DEF HealInv, StampInv, AllDated
    <2>7. CASE Drop
      BY <2>7 DEF Drop, HealInv, StampInv, AllDated
    <2>8. CASE Pass
      <3>1. UNCHANGED <<have, stamp, dated, heal>>
        BY <2>8 DEF Pass, BeginPass, ReadHead, ReadTail, ValueSwaps, Mark, Totals, WriteSeries
      <3>. QED BY <2>1, <3>1
    <2>9. CASE PassFault
      <3>1. UNCHANGED <<have, stamp, dated, heal>>
        BY <2>9 DEF PassFault, BeginPassUnquoted, ReadHeadFails, ReadTailFails, ValueFails
      <3>. QED BY <2>1, <3>1
    <2>10. CASE Commit \/ Abandon
      BY <2>1, <2>10 DEF Commit, Abandon
    <2>11. CASE UNCHANGED vars
      BY <2>1, <2>11 DEF vars
    <2>. QED BY <2>2, <2>3, <2>4, <2>5, <2>6, <2>7, <2>8, <2>9, <2>10, <2>11
             DEF Next, Heal, Poller
  <1>3. HealInv => AllDated
    BY DEF HealInv
  <1>. QED BY <1>1, <1>2, <1>3, TypeCorrect, PTL DEF Spec

-----------------------------------------------------------------------------
(***************************************************************************)
(* Numbers, days and the cuts of a window                                  *)
(***************************************************************************)
\* A set of natural numbers that is not empty has a least one.
LEMMA LeastOfNat ==
  ASSUME NEW S \in SUBSET Nat, S # {}
  PROVE  \E m \in S : \A x \in S : m <= x
  <1>. DEFINE R == OpToRel(<, Nat)
  <1>1. IsWellFoundedOn(R, Nat)
    BY NatLessThanWellFounded, Zenon
  <1>2. \A x, y \in Nat : <<x, y>> \in R <=> x < y
    BY DEF OpToRel
  <1>. HIDE DEF R
  <1>3. PICK m \in S : \A x \in S : ~ (<<x, m>> \in R)
    BY <1>1, WFMin
  <1>4. \A x \in S : ~ (x < m)
    BY <1>2, <1>3
  <1>5. m \in Nat /\ \A x \in S : x \in Nat
    OBVIOUS
  <1>6. \A x \in S : m <= x
    BY <1>4, <1>5
  <1>. QED BY <1>6

\* A bounded one has a greatest one.
LEMMA GreatestOfBounded ==
  ASSUME NEW S \in SUBSET Nat, S # {}, NEW b \in Nat, \A x \in S : x <= b
  PROVE  \E m \in S : \A x \in S : x <= m
  <1>. DEFINE D == {b - x : x \in S}
  <1>1. PICK y \in S : TRUE
    OBVIOUS
  <1>2. D \in SUBSET Nat /\ D # {}
    <2>1. \A x \in S : b - x \in Nat
      OBVIOUS
    <2>2. b - y \in D
      BY <1>1
    <2>. QED BY <2>1, <2>2
  <1>3. PICK d \in D : \A e \in D : d <= e
    <2>. HIDE DEF D
    <2>. QED BY <1>2, LeastOfNat
  <1>4. PICK m \in S : d = b - m
    OBVIOUS
  <1>5. \A x \in S : b - m <= b - x
    BY <1>3, <1>4
  <1>. QED BY <1>5

\* Integer division, as the solver knows it.
LEMMA DayBounds ==
  ASSUME NEW t \in Nat
  PROVE  /\ Day(t) \in Nat
         /\ Day(t) * DayLength <= t
         /\ t < (Day(t) + 1) * DayLength
  BY ValuationConstants DEF Day

\* A later time is not on an earlier day.
LEMMA DayMonotone ==
  ASSUME NEW s \in Nat, NEW t \in Nat, s <= t
  PROVE  Day(s) <= Day(t)
  <1>. DEFINE a == Day(s)
              b == Day(t)
  <1>1. /\ a \in Nat /\ b \in Nat /\ DayLength \in Nat \ {0}
        /\ a * DayLength <= s /\ t < (b + 1) * DayLength
    BY DayBounds, ValuationConstants
  <1>. HIDE DEF a, b
  <1>2. a * DayLength < (b + 1) * DayLength
    <2>1. a * DayLength \in Nat /\ (b + 1) * DayLength \in Nat
      BY <1>1
    <2>. QED BY <1>1, <2>1
  <1>3. ~(b + 1 <= a)
    <2>. SUFFICES ASSUME b + 1 <= a PROVE FALSE
      OBVIOUS
    <2>1. PICK k \in Nat : a = b + 1 + k
      <3>1. a - (b + 1) \in Nat /\ a = b + 1 + (a - (b + 1))
        BY <1>1
      <3>. QED BY <3>1
    <2>2. a * DayLength = (b + 1) * DayLength + k * DayLength /\ k * DayLength \in Nat
      BY <1>1, <2>1
    <2>. QED BY <1>1, <1>2, <2>2
  <1>4. a <= b
    BY <1>1, <1>3
  <1>. QED BY <1>4 DEF a, b

-----------------------------------------------------------------------------
(***************************************************************************)
(* A store that no older build wrote to and no address change empties: its *)
(* rows are a prefix of the history, every one with its time.              *)
(***************************************************************************)
Fresh == Legacy = 0 /\ "drop" \notin Faults

StoreInv ==
  /\ \A i \in have, j \in Swaps : j < i => j \in have
  /\ \A i \in Swaps : i <= next => i \in have
  /\ \A i \in have : dated[i] /\ stamp[i] = Time[i]
  /\ stale = {}

\* The steps that touch neither the rows nor the heal.
LEMMA StoreQuiet ==
  ASSUME StoreInv, UNCHANGED <<have, stamp, dated, stale>>, next' <= next, next' \in Nat, next \in Nat
  PROVE  StoreInv'
  <1>1. \A i \in Swaps : i <= next' => i <= next
    BY Constants
  <1>. QED BY <1>1 DEF StoreInv

\* Every step keeps the rows a dated prefix of the history.
LEMMA StoreStep ==
  ASSUME Fresh, TypeOK, StoreInv, [Next]_vars
  PROVE  StoreInv'
  <1>. USE DEF pollerVars, tableVars, passVars, healVars
  <1>0. next \in Nat /\ cursor \in Nat
    BY Constants DEF TypeOK
  <1>1. CASE Pass
    <2>1. UNCHANGED <<have, stamp, dated, stale, next>>
      BY <1>1 DEF Pass, BeginPass, ReadHead, ReadTail, ValueSwaps, Mark, Totals, WriteSeries
    <2>. QED BY <1>0, <2>1, StoreQuiet
  <1>2. CASE PassFault
    <2>1. UNCHANGED <<have, stamp, dated, stale, next>>
      BY <1>2 DEF PassFault, BeginPassUnquoted, ReadHeadFails, ReadTailFails, ValueFails
    <2>. QED BY <1>0, <2>1, StoreQuiet
  <1>3. CASE HealRead
    <2>1. UNCHANGED <<have, stamp, dated, next>> /\ stale' = {}
      BY <1>3 DEF HealRead, FirstRows, StoreInv
    <2>. QED BY <2>1 DEF StoreInv
  <1>4. CASE HealReadFails
    <2>1. UNCHANGED <<have, stamp, dated, next>> /\ stale' = {}
      BY <1>4 DEF HealReadFails
    <2>. QED BY <2>1 DEF StoreInv
  <1>5. ASSUME NEW i \in Swaps, HealWrite(i) \/ HealSkip(i) PROVE StoreInv'
    BY <1>5 DEF HealWrite, HealSkip, StoreInv
  <1>6. CASE Insert
    <2>1. next + 1 \in Swaps
      BY <1>6, Constants DEF Insert, Swaps, TypeOK
    <2>2. /\ stamp' = [stamp EXCEPT ![next + 1] = Time[next + 1]]
          /\ dated' = [dated EXCEPT ![next + 1] = TRUE]
          /\ have' = have \cup {next + 1} /\ next' = next + 1 /\ stale' = stale
      BY <1>6 DEF Insert
    <2>3. have \subseteq Swaps /\ stamp \in [Swaps -> Nat] /\ dated \in [Swaps -> BOOLEAN]
      BY DEF TypeOK
    <2>4. \A i \in have' : dated'[i] /\ stamp'[i] = Time[i]
      BY <2>1, <2>2, <2>3 DEF StoreInv
    <2>5. \A j \in Swaps : j <= next + 1 => j <= next \/ j = next + 1
      BY <1>0, Constants
    <2>6. \A j \in Swaps : j < next + 1 => j <= next
      BY <1>0, Constants
    <2>. QED BY <2>2, <2>4, <2>5, <2>6 DEF StoreInv
  <1>7. CASE Commit \/ Abandon
    <2>1. UNCHANGED <<have, stamp, dated, stale>> /\ (next' = next \/ (next' = cursor /\ cursor < next))
      BY <1>7 DEF Commit, Abandon
    <2>. QED BY <1>0, <2>1, StoreQuiet
  <1>8. CASE Drop
    BY <1>8 DEF Drop, Fault, Fresh
  <1>9. CASE UNCHANGED vars
    BY <1>0, <1>9, StoreQuiet DEF vars
  <1>. QED BY <1>1, <1>2, <1>3, <1>4, <1>5, <1>6, <1>7, <1>8, <1>9 DEF Next, Heal, Poller

\* The rows are a dated prefix of the history for good.
LEMMA StoreInvariant == Fresh => (Spec => [](TypeOK /\ StoreInv))
  <1>. SUFFICES ASSUME Fresh PROVE Spec => [](TypeOK /\ StoreInv)
    OBVIOUS
  <1>1. Init => StoreInv
    <2>. SUFFICES ASSUME Init PROVE StoreInv
      OBVIOUS
    <2>1. have = {} /\ next = 0 /\ stale = {}
      BY DEF Init, Fresh
    <2>2. \A i \in Swaps : ~(i <= 0)
      BY Constants DEF Swaps
    <2>. QED BY <2>1, <2>2 DEF StoreInv
  <1>2. TypeOK /\ StoreInv /\ [Next]_vars => StoreInv'
    BY StoreStep
  <1>. QED BY <1>1, <1>2, TypeCorrect, PTL DEF Spec

\* The day HighDay picks is the last one, and a stored row's day is that of its time.
LEMMA HighDayIsLast ==
  ASSUME TypeOK, StoreInv, NEW T \in SUBSET have, T # {}
  PROVE  HighDay(T) \in DaysOf(T) /\ \A e \in DaysOf(T) : e <= HighDay(T)
  <1>1. T \in SUBSET Nat /\ N \in Nat /\ \A i \in T : i <= N /\ i \in Swaps
    BY Constants DEF TypeOK, Swaps
  <1>2. PICK m \in T : \A i \in T : i <= m
    BY <1>1, GreatestOfBounded
  <1>3. ASSUME NEW i \in T PROVE Day(stamp[i]) <= Day(stamp[m])
    <2>1. stamp[i] = Time[i] /\ stamp[m] = Time[m] /\ Time[i] \in Nat /\ Time[m] \in Nat
      BY <1>1, Constants DEF StoreInv
    <2>2. Time[i] <= Time[m]
      BY <1>1, <1>2, <2>1, TimesInOrder
    <2>. QED BY <2>1, <2>2, DayMonotone
  <1>4. Day(stamp[m]) \in DaysOf(T) /\ \A e \in DaysOf(T) : e <= Day(stamp[m])
    BY <1>3 DEF DaysOf
  <1>. QED BY <1>4 DEF HighDay

-----------------------------------------------------------------------------
(***************************************************************************)
(* No swap is left behind the mark.  What the tail read reaches, it holds  *)
(* whole, so everything up to the new mark was in the batch that was       *)
(* valued, and what is inserted later is later than it.                    *)
(***************************************************************************)
TimesApart == \A i, j \in Swaps : i < j => Time[i] < Time[j]

\* No pool makes its first trade, and no balance is lost, in the middle of a pass.
QuotesAll ==
  pc # "idle" => \A i \in have : PoolOf[i] \in Priceable => PoolOf[i] \in quoted

PricedInv ==
  /\ \A i \in have : i <= next
  /\ \A i \in have : PoolOf[i] \in Priceable /\ Time[i] <= mark => i \in usd
  /\ \A k \in Swaps \ have : Time[k] > mark /\ Time[k] > reached
  /\ pc \notin {"value", "mark", "totals", "series"} => reached = 0
  /\ pc = "value" => \A i \in have : mark < Time[i] /\ Time[i] <= reached => batch[i] # "unread"
  /\ pc = "mark" => \A i \in have : PoolOf[i] \in Priceable /\ Time[i] <= reached => i \in usd

\* A row the tail read left out is later than every row it kept.
LEMMA TailIsPrefix ==
  ASSUME TypeOK, StoreInv, TimesApart,
         NEW T \in FirstRows({i \in have : stamp[i] > mark}),
         NEW W \in IF T = {} THEN {{}} ELSE WholeDays(T, "newest"),
         NEW a \in W, NEW b \in have, Time[b] > mark, b \notin W
  PROVE  Time[a] < Time[b]
  <1>1. T # {} /\ W \subseteq T /\ T \in SUBSET have
    BY WholeDaysSubset DEF FirstRows
  <1>2. /\ a \in Swaps /\ b \in Swaps /\ a \in T
        /\ stamp[a] = Time[a] /\ stamp[b] = Time[b] /\ Time[a] \in Nat /\ Time[b] \in Nat
    BY <1>1, Constants DEF TypeOK, StoreInv
  <1>3. CASE b \notin T
    <2>1. Time[a] <= Time[b]
      BY <1>2, <1>3 DEF FirstRows
    <2>2. a # b /\ a \in Nat /\ b \in Nat
      BY <1>2, <1>3, Constants
    <2>3. a < b \/ b < a
      BY <2>2
    <2>. QED BY <1>2, <2>1, <2>3 DEF TimesApart
  <1>4. CASE b \in T
    <2>1. W = Without(T, HighDay(T))
      BY <1>1, <1>4 DEF WholeDays
    <2>2. Day(stamp[b]) = HighDay(T) /\ Day(stamp[a]) # HighDay(T)
      BY <1>4, <2>1 DEF Without
    <2>3. Day(stamp[a]) <= HighDay(T)
      BY <1>1, <1>2, HighDayIsLast DEF DaysOf
    <2>4. Day(Time[a]) \in Nat /\ Day(Time[b]) \in Nat /\ Day(Time[a]) < Day(Time[b])
      <3>1. Day(Time[a]) \in Nat /\ Day(Time[b]) \in Nat
        BY <1>2, DayBounds
      <3>. QED BY <1>2, <2>2, <2>3, <3>1
    <2>5. ~(Time[b] <= Time[a])
      <3>1. Time[b] <= Time[a] => Day(Time[b]) <= Day(Time[a])
        BY <1>2, DayMonotone
      <3>. QED BY <2>4, <3>1
    <2>. QED BY <1>2, <2>5
  <1>. QED BY <1>3, <1>4

\* The steps that leave the rows, the values and the mark alone.
LEMMA PricedQuiet ==
  ASSUME PricedInv, UNCHANGED <<have, usd, mark, next>>,
         \/ UNCHANGED <<pc, batch, reached>>
         \/ pc' \notin {"value", "mark"} /\ reached' = 0
         \/ pc' \notin {"value", "mark"} /\ reached' = reached /\ pc' \in {"totals", "series"}
  PROVE  PricedInv'
  <1>1. CASE UNCHANGED <<pc, batch, reached>>
    BY <1>1 DEF PricedInv
  <1>2. CASE pc' \notin {"value", "mark"} /\ reached' = 0
    <2>1. \A k \in Swaps \ have : Time[k] > 0
      BY Constants
    <2>. QED BY <1>2, <2>1 DEF PricedInv
  <1>3. CASE pc' \notin {"value", "mark"} /\ reached' = reached /\ pc' \in {"totals", "series"}
    BY <1>3 DEF PricedInv
  <1>. QED BY <1>1, <1>2, <1>3

\* Every step keeps what is behind the mark priced.
LEMMA PricedStep ==
  ASSUME Fresh, "abort" \notin Faults, TimesApart,
         TypeOK, StoreInv, QuotesAll, PricedInv, [Next]_vars
  PROVE  PricedInv'
  <1>. USE DEF pollerVars, tableVars, passVars, healVars
  <1>0. /\ have \subseteq Swaps /\ mark \in Nat /\ reached \in Nat /\ next \in Nat
        /\ \A i \in Swaps : Time[i] \in Nat
    BY Constants DEF TypeOK
  <1>1. CASE BeginPass \/ \E p \in Priceable : BeginPassUnquoted(p)
    <2>1. /\ pc = "idle" /\ pc' = "head"
          /\ UNCHANGED <<have, usd, mark, next, reached>>
      BY <1>1 DEF BeginPass, BeginPassUnquoted
    <2>2. reached' = 0
      BY <2>1 DEF PricedInv
    <2>. QED BY <2>1, <2>2, PricedQuiet
  <1>2. CASE ReadHead \/ ReadHeadFails
    <2>1. /\ pc = "head" /\ pc' = "tail"
          /\ UNCHANGED <<have, usd, mark, next, reached>>
      BY <1>2 DEF ReadHead, ReadHeadFails
    <2>2. reached' = 0
      BY <2>1 DEF PricedInv
    <2>. QED BY <2>1, <2>2, PricedQuiet
  <1>3. CASE ReadTail
    <2>1. PICK T \in FirstRows({i \in have : stamp[i] > mark}) :
            \E W \in IF T = {} THEN {{}} ELSE WholeDays(T, "newest") :
              /\ Take(W)
              /\ reached' \in {stamp[i] : i \in W} \cup {0}
              /\ \A i \in W : stamp[i] <= reached'
      BY <1>3 DEF ReadTail
    <2>2. PICK W \in IF T = {} THEN {{}} ELSE WholeDays(T, "newest") :
              /\ Take(W)
              /\ reached' \in {stamp[i] : i \in W} \cup {0}
              /\ \A i \in W : stamp[i] <= reached'
      BY <2>1
    <2>3. W \subseteq T /\ T \subseteq have
      BY <2>2, WholeDaysSubset DEF FirstRows
    <2>4. /\ pc' = "value" /\ pc = "tail"
          /\ UNCHANGED <<have, usd, mark, next>>
      BY <1>3 DEF ReadTail
    <2>5. \A i \in W : batch'[i] # "unread"
      BY <1>0, <2>2, <2>3 DEF Take
    <2>6. \A i \in have : mark < Time[i] /\ Time[i] <= reached' => i \in W
      <3>. SUFFICES ASSUME NEW b \in have, mark < Time[b], Time[b] <= reached', b \notin W
                    PROVE  FALSE
        OBVIOUS
      <3>1. reached' # 0
        BY <1>0
      <3>2. PICK a \in W : reached' = stamp[a]
        BY <2>2, <3>1
      <3>3. stamp[a] = Time[a]
        BY <2>3, <3>2 DEF StoreInv
      <3>4. Time[a] < Time[b]
        BY <1>0, <3>2, TailIsPrefix
      <3>5. a \in Swaps /\ b \in Swaps
        BY <1>0, <2>3, <3>2
      <3>. QED BY <1>0, <3>2, <3>3, <3>4, <3>5
    <2>7. \A k \in Swaps \ have : Time[k] > reached'
      <3>. SUFFICES ASSUME NEW k \in Swaps \ have PROVE Time[k] > reached'
        OBVIOUS
      <3>1. CASE reached' = 0
        BY <3>1, Constants
      <3>2. CASE reached' # 0
        <4>1. PICK a \in W : reached' = stamp[a]
          BY <2>2, <3>2
        <4>2. stamp[a] = Time[a] /\ a \in have /\ a \in Swaps
          BY <1>0, <2>3, <4>1 DEF StoreInv
        <4>3. ~(k < a) /\ k # a
          BY <4>2 DEF StoreInv
        <4>4. a < k
          BY <4>2, <4>3, Constants
        <4>. QED BY <1>0, <4>1, <4>2, <4>4 DEF TimesApart
      <3>. QED BY <3>1, <3>2
    <2>. QED BY <2>4, <2>5, <2>6, <2>7 DEF PricedInv
  <1>4. CASE ReadTailFails
    <2>1. /\ pc = "tail" /\ pc' = "value"
          /\ UNCHANGED <<have, usd, mark, next, reached>>
      BY <1>4 DEF ReadTailFails
    <2>2. reached' = 0
      BY <2>1 DEF PricedInv
    <2>3. \A i \in have : ~(Time[i] <= 0)
      BY <1>0, Constants
    <2>. QED BY <2>1, <2>2, <2>3 DEF PricedInv
  <1>5. CASE ValueSwaps
    <2>1. /\ pc = "value" /\ pc' = "mark" /\ usd' = usd \cup (Priced \cap have)
          /\ UNCHANGED <<have, mark, next, reached>>
      BY <1>5 DEF ValueSwaps
    <2>2. ASSUME NEW i \in have, PoolOf[i] \in Priceable, Time[i] <= reached PROVE i \in usd'
      <3>1. CASE Time[i] <= mark
        BY <2>1, <2>2, <3>1 DEF PricedInv
      <3>2. CASE mark < Time[i]
        <4>1. batch[i] # "unread" /\ PoolOf[i] \in quoted
          BY <2>1, <2>2, <3>2 DEF PricedInv, QuotesAll
        <4>. QED BY <1>0, <2>1, <4>1 DEF Priced
      <3>. QED BY <1>0, <3>1, <3>2
    <2>. QED BY <2>1, <2>2 DEF PricedInv
  <1>6. CASE ValueFails
    <2>1. pc' = "totals" /\ UNCHANGED <<have, usd, mark, next, reached>>
      BY <1>6 DEF ValueFails
    <2>. QED BY <2>1, PricedQuiet
  <1>7. CASE Mark
    <2>1. /\ pc = "mark" /\ pc' = "totals" /\ mark' = IF reached > mark THEN reached ELSE mark
          /\ UNCHANGED <<have, usd, next, reached>>
      BY <1>7 DEF Mark
    <2>2. \A i \in have : PoolOf[i] \in Priceable /\ Time[i] <= mark' => i \in usd
      BY <2>1 DEF PricedInv
    <2>3. \A k \in Swaps \ have : Time[k] > mark' /\ Time[k] > reached
      BY <2>1 DEF PricedInv
    <2>. QED BY <2>1, <2>2, <2>3 DEF PricedInv
  <1>8. CASE Totals
    <2>1. pc' = "series" /\ UNCHANGED <<have, usd, mark, next, reached>>
      BY <1>8 DEF Totals
    <2>. QED BY <2>1, PricedQuiet
  <1>9. CASE \E today \in Days : WriteSeries(today)
    <2>1. pc' = "idle" /\ reached' = 0 /\ UNCHANGED <<have, usd, mark, next>>
      BY <1>9 DEF WriteSeries, PassDone
    <2>. QED BY <2>1, PricedQuiet
  <1>10. CASE Heal
    <2>1. UNCHANGED <<have, usd, mark, next, pc, batch, reached>>
      BY <1>10 DEF Heal, HealRead, HealReadFails, HealWrite, HealSkip, StoreInv
    <2>. QED BY <2>1, PricedQuiet
  <1>11. CASE Insert
    <2>1. /\ next + 1 \in Swaps /\ next' = next + 1 /\ have' = have \cup {next + 1}
          /\ usd' = usd \ {next + 1} /\ UNCHANGED <<mark, pc, batch, reached>>
      BY <1>11, Constants DEF Insert, Swaps, TypeOK
    <2>2. next + 1 \notin have
      BY <1>0 DEF PricedInv
    <2>3. Time[next + 1] > mark /\ Time[next + 1] > reached
      BY <2>1, <2>2 DEF PricedInv
    <2>4. ~(Time[next + 1] <= mark) /\ ~(Time[next + 1] <= reached)
      BY <1>0, <2>1, <2>3
    <2>5. \A i \in have' : i <= next'
      <3>1. \A i \in have : i <= next /\ i \in Nat
        BY <1>0, Constants DEF PricedInv
      <3>. QED BY <1>0, <2>1, <3>1
    <2>. QED BY <2>1, <2>2, <2>4, <2>5 DEF PricedInv
  <1>12. CASE Commit
    BY <1>12, PricedQuiet DEF Commit
  <1>13. CASE Abandon \/ Drop
    BY <1>13 DEF Abandon, Drop, Fault, Fresh
  <1>14. CASE UNCHANGED vars
    BY <1>14, PricedQuiet DEF vars
  <1>. QED BY <1>1, <1>2, <1>3, <1>4, <1>5, <1>6, <1>7, <1>8, <1>9, <1>10, <1>11, <1>12, <1>13,
              <1>14 DEF Next, Pass, PassFault, Poller

\* revalue: "behind the mark and unpriced for good" happens to no swap a pass can
\* price, whatever queries and value transactions fail, when no two swaps share a
\* time, the poller inserts no row a second time, the store is neither an older build's nor
\* dropped, and no pool turns up or loses its quote in the middle of a pass.
THEOREM NonePassedOver ==
  (Fresh /\ "abort" \notin Faults /\ TimesApart) => (Spec /\ []QuotesAll => []NoneLeftBehind)
  <1>. SUFFICES ASSUME Fresh, "abort" \notin Faults, TimesApart
                PROVE  Spec /\ []QuotesAll => []NoneLeftBehind
    OBVIOUS
  <1>1. Init => PricedInv
    <2>. SUFFICES ASSUME Init PROVE PricedInv
      OBVIOUS
    <2>1. have = {} /\ mark = 0 /\ reached = 0 /\ pc = "idle"
      BY DEF Init, Fresh
    <2>2. \A k \in Swaps : Time[k] > 0
      BY Constants
    <2>. QED BY <2>1, <2>2 DEF PricedInv
  <1>2. TypeOK /\ StoreInv /\ QuotesAll /\ PricedInv /\ [Next]_vars => PricedInv'
    BY PricedStep
  <1>3. TypeOK /\ StoreInv /\ PricedInv => NoneLeftBehind
    BY DEF StoreInv, PricedInv, NoneLeftBehind
  <1>. QED BY <1>1, <1>2, <1>3, StoreInvariant, PTL DEF Spec

-----------------------------------------------------------------------------
(***************************************************************************)
(* No day's row loses a swap.  A day that a pass read in part was read     *)
(* whole by its other read, or is cut from the batch: what a row counted   *)
(* is in every batch that replaces the row.                                *)
(***************************************************************************)
\* No swap is of day 0, which wholeDays takes for "none yet".
NoDayZero == \A i \in Swaps : Time[i] >= DayLength

\* A day's swaps fit in one read.
DaysFit == \A d \in Days : Cardinality({i \in Swaps : Day(Time[i]) = d}) <= Window

\* The mark stands between two stored swaps of one day.
MidDay == \E i \in have : Time[i] > mark /\ Day(Time[i]) = Day(mark)

\* The poller does not run so far ahead that the rest of the mark's day is out of
\* the head window when a pass starts.
KeepsUp ==
  pc = "head" /\ MidDay => Cardinality({i \in have : Day(Time[i]) >= Day(mark)}) < Window

\* What a day row counts is stored, of that day and of a pool the pass knows.
RowInv ==
  /\ \A d \in Days : \A j \in dayRow[d] :
       /\ j \in have /\ Day(Time[j]) = d /\ PoolOf[j] \in Valued
       /\ pc # "idle" => PoolOf[j] \in known
  /\ \A i \in Swaps : batch[i] # "unread" => i \in have /\ pc \notin {"idle", "head"}

Kept(d) == \A j \in dayRow[d] : batch[j] = "dated"

\* After the head read the batch keeps the row of every day it has a swap of, of the
\* newest day, and of the day the mark stands in.
WholeInv ==
  pc \notin {"idle", "head"} =>
    /\ \A i \in Swaps : batch[i] # "unread" => Kept(Day(Time[i]))
    /\ \A d \in Days : (\A i \in have : Day(Time[i]) <= d) => Kept(d)
    /\ pc = "tail" /\ MidDay => Kept(Day(mark))

\* Stored rows, their times and their days.
LEMMA RowFacts ==
  ASSUME TypeOK, StoreInv, NEW i \in have
  PROVE  /\ i \in Swaps /\ i \in Nat /\ stamp[i] = Time[i] /\ Time[i] \in Nat /\ dated[i]
         /\ Day(Time[i]) \in Nat /\ Day(Time[i]) \in Days
  <1>1. i \in Swaps /\ stamp[i] = Time[i] /\ dated[i]
    BY DEF TypeOK, StoreInv
  <1>2. i \in Nat /\ Time[i] \in Nat /\ Day(Time[i]) \in Days
    BY <1>1, Constants
  <1>3. Day(Time[i]) \in Nat
    BY <1>2, DayBounds
  <1>. QED BY <1>1, <1>2, <1>3

\* A window that is not full holds every row it was asked for.
LEMMA ShortReadIsAll ==
  ASSUME TypeOK, NEW R \in SUBSET have, NEW T \in FirstRows(R) \cup LastRows(R),
         Cardinality(T) < Window
  PROVE  T = R
  <1>1. IsFiniteSet(R)
    <2>1. IsFiniteSet(Swaps)
      BY Constants, FS_Interval DEF Swaps
    <2>2. R \subseteq Swaps
      BY DEF TypeOK
    <2>. QED BY <2>1, <2>2, FS_Subset
  <1>2. T \subseteq R
    BY DEF FirstRows, LastRows
  <1>3. Cardinality(T) = IF Cardinality(R) < Window THEN Cardinality(R) ELSE Window
    BY DEF FirstRows, LastRows
  <1>4. Cardinality(T) = Cardinality(R)
    <2>1. Cardinality(R) \in Nat /\ Cardinality(T) \in Nat /\ Window \in Nat
      BY <1>1, <1>2, FS_Subset, FS_CardinalityType, Constants
    <2>. QED BY <1>3, <2>1
  <1>. QED BY <1>1, <1>2, <1>4, FS_Subset

\* A full window of one day is that whole day.
LEMMA FullDayIsWhole ==
  ASSUME TypeOK, StoreInv, DaysFit, NEW T \in SUBSET have, ~(Cardinality(T) < Window),
         NEW d \in Days, \A i \in T : Day(Time[i]) = d,
         NEW j \in have, Day(Time[j]) = d
  PROVE  j \in T
  <1>. DEFINE D == {i \in Swaps : Day(Time[i]) = d}
  <1>1. IsFiniteSet(D) /\ T \subseteq D /\ j \in D
    <2>1. IsFiniteSet(Swaps)
      BY Constants, FS_Interval DEF Swaps
    <2>2. D \subseteq Swaps
      OBVIOUS
    <2>3. IsFiniteSet(D)
      BY <2>1, <2>2, FS_Subset
    <2>. QED BY <2>3 DEF TypeOK
  <1>2. Cardinality(D) <= Window
    BY DEF DaysFit
  <1>. HIDE DEF D
  <1>3. Cardinality(T) \in Nat /\ Cardinality(D) \in Nat /\ Cardinality(T) <= Cardinality(D)
        /\ (Cardinality(T) = Cardinality(D) => T = D)
    BY <1>1, FS_Subset, FS_CardinalityType
  <1>4. Cardinality(T) = Cardinality(D)
    BY <1>2, <1>3, Constants
  <1>. QED BY <1>1, <1>3, <1>4

\* The least day of a batch, when day 0 is not one of its days.
LEMMA LowDayIsFirst ==
  ASSUME TypeOK, StoreInv, NoDayZero, NEW T \in SUBSET have, NEW lo \in LowDays(T)
  PROVE  /\ lo \in DaysOf(T) /\ lo \in Nat /\ DaysOf(T) \subseteq Nat
         /\ \A e \in DaysOf(T) : lo <= e
         /\ \A i \in T : Day(stamp[i]) = Day(Time[i]) /\ Day(Time[i]) \in DaysOf(T)
  <1>1. \A i \in T : Day(stamp[i]) = Day(Time[i]) /\ Day(Time[i]) \in Nat
    BY RowFacts
  <1>2. \A i \in T : Day(Time[i]) # 0
    <2>. SUFFICES ASSUME NEW i \in T, Day(Time[i]) = 0 PROVE FALSE
      OBVIOUS
    <2>1. Time[i] \in Nat /\ i \in Swaps
      BY RowFacts
    <2>2. Time[i] < (Day(Time[i]) + 1) * DayLength
      BY <2>1, DayBounds
    <2>3. Time[i] < (0 + 1) * DayLength /\ Time[i] >= DayLength
      BY <2>1, <2>2 DEF NoDayZero
    <2>. QED BY <2>1, <2>3, ValuationConstants
  <1>3. DaysOf(T) \subseteq Nat /\ 0 \notin DaysOf(T)
    BY <1>1, <1>2 DEF DaysOf
  <1>4. lo \in DaysOf(T) /\ \A e \in DaysOf(T) : lo <= e
    BY <1>3 DEF LowDays
  <1>5. \A i \in T : Day(Time[i]) \in DaysOf(T)
    BY <1>1 DEF DaysOf
  <1>. QED BY <1>1, <1>3, <1>4, <1>5

\* A later day's swap has the later time.
LEMMA LaterDay ==
  ASSUME TypeOK, StoreInv, NEW a \in have, NEW b \in have, Time[a] <= Time[b]
  PROVE  Day(Time[a]) <= Day(Time[b])
  BY RowFacts, DayMonotone

\* A full window holds a row from outside any set smaller than it.
LEMMA WindowReachesOut ==
  ASSUME TypeOK, NEW T \in SUBSET have, ~(Cardinality(T) < Window), NEW m \in Nat,
         Cardinality({i \in have : Day(Time[i]) >= m}) < Window
  PROVE  \E a \in T : ~(Day(Time[a]) >= m)
  <1>. DEFINE B == {i \in have : Day(Time[i]) >= m}
  <1>. SUFFICES ASSUME T \subseteq B PROVE FALSE
    OBVIOUS
  <1>1. IsFiniteSet(B)
    <2>1. IsFiniteSet(Swaps)
      BY Constants, FS_Interval DEF Swaps
    <2>2. B \subseteq Swaps
      BY DEF TypeOK
    <2>. QED BY <2>1, <2>2, FS_Subset
  <1>2. Cardinality(B) < Window
    OBVIOUS
  <1>. HIDE DEF B
  <1>3. Cardinality(T) \in Nat /\ Cardinality(B) \in Nat /\ Cardinality(T) <= Cardinality(B)
    BY <1>1, FS_Subset, FS_CardinalityType
  <1>. QED BY <1>2, <1>3, Constants

\* What the head read keeps: days whole; the newest day; and, with the rows from day m
\* on fewer than a window, every row from day m on.
LEMMA HeadIsWhole ==
  ASSUME TypeOK, StoreInv, NoDayZero, DaysFit,
         NEW T \in LastRows(have), NEW W \in WholeDays(T, "oldest"), NEW j \in have
  PROVE  /\ \A i \in W : Day(Time[i]) = Day(Time[j]) => j \in W
         /\ (\A i \in have : Day(Time[i]) <= Day(Time[j])) => j \in W
         /\ \A m \in Nat :
              /\ Cardinality({i \in have : Day(Time[i]) >= m}) < Window
              /\ Day(Time[j]) >= m
              => j \in W
  <1>0. T \subseteq have
    BY DEF LastRows
  <1>1. CASE Cardinality(T) < Window
    <2>1. W = T
      BY <1>1 DEF WholeDays
    <2>2. T = have
      BY <1>1, ShortReadIsAll
    <2>. QED BY <2>1, <2>2
  <1>2. CASE ~(Cardinality(T) < Window)
    <2>1. PICK lo \in LowDays(T) : W = IF lo = HighDay(T) THEN T ELSE Without(T, lo)
      BY <1>2 DEF WholeDays
    <2>2. /\ lo \in DaysOf(T) /\ lo \in Nat /\ DaysOf(T) \subseteq Nat
          /\ \A e \in DaysOf(T) : lo <= e
          /\ \A i \in T : Day(stamp[i]) = Day(Time[i]) /\ Day(Time[i]) \in DaysOf(T)
      BY <1>0, <2>1, LowDayIsFirst
    <2>3. PICK l \in T : lo = Day(Time[l])
      BY <2>2 DEF DaysOf
    <2>4. HighDay(T) \in DaysOf(T) /\ \A e \in DaysOf(T) : e <= HighDay(T)
      BY <1>0, <2>3, HighDayIsLast
    <2>5. Day(Time[j]) \in Nat /\ Day(Time[j]) \in Days
      BY RowFacts
    <2>6. ASSUME j \notin T, NEW a \in T PROVE Day(Time[j]) <= Day(Time[a])
      <3>1. stamp[a] >= stamp[j]
        BY <2>6 DEF LastRows
      <3>2. /\ stamp[a] = Time[a] /\ stamp[j] = Time[j]
            /\ Time[a] \in Nat /\ Time[j] \in Nat /\ a \in have
        BY <1>0, RowFacts
      <3>. QED BY <3>1, <3>2, DayMonotone
    <2>7. CASE lo = HighDay(T)
      <3>1. W = T
        BY <2>1, <2>7
      <3>2. \A i \in T : Day(Time[i]) = lo
        BY <2>2, <2>4, <2>7
      <3>3. Day(Time[j]) = lo => j \in W
        BY <1>0, <1>2, <2>5, <3>1, <3>2, FullDayIsWhole
      <3>4. (\A i \in have : Day(Time[i]) <= Day(Time[j])) => j \in W
        <4>. SUFFICES ASSUME \A i \in have : Day(Time[i]) <= Day(Time[j]), j \notin T
                      PROVE  FALSE
          BY <3>1
        <4>1. Day(Time[j]) <= lo /\ lo <= Day(Time[j])
          BY <1>0, <2>3, <2>6
        <4>. QED BY <2>2, <2>5, <3>1, <3>3, <4>1
      <3>5. ASSUME NEW m \in Nat, Cardinality({i \in have : Day(Time[i]) >= m}) < Window,
                   Day(Time[j]) >= m
            PROVE  j \in W
        <4>1. PICK a \in T : ~(Day(Time[a]) >= m)
          BY <1>0, <1>2, <3>5, WindowReachesOut
        <4>2. Day(Time[a]) \in Nat
          BY <2>2
        <4>3. j \in T
          BY <2>5, <2>6, <3>5, <4>1, <4>2
        <4>. QED BY <3>1, <4>3
      <3>6. \A i \in W : Day(Time[i]) = Day(Time[j]) => j \in W
        BY <3>1, <3>2, <3>3
      <3>. QED BY <3>4, <3>5, <3>6
    <2>8. CASE lo # HighDay(T)
      <3>1. \A i \in T : i \in W <=> Day(Time[i]) # lo
        BY <2>1, <2>2, <2>8 DEF Without
      <3>2. W \subseteq T
        BY <2>1, <2>8 DEF Without
      <3>3. ASSUME NEW i \in W, Day(Time[i]) = Day(Time[j]) PROVE j \in W
        <4>1. lo < Day(Time[i])
          BY <2>2, <3>1, <3>2
        <4>2. j \in T
          BY <2>2, <2>3, <2>5, <2>6, <3>3, <4>1
        <4>. QED BY <2>2, <3>1, <3>3, <4>1, <4>2
      <3>4. ASSUME \A i \in have : Day(Time[i]) <= Day(Time[j]) PROVE j \in W
        <4>1. PICK h \in T : HighDay(T) = Day(Time[h])
          BY <2>2, <2>4 DEF DaysOf
        <4>2. Day(Time[h]) <= Day(Time[j]) /\ Day(Time[h]) \in Nat
          BY <1>0, <2>2, <3>4, <4>1
        <4>3. lo < Day(Time[h])
          BY <2>2, <2>4, <2>8, <4>1
        <4>4. j \in T
          BY <2>2, <2>3, <2>5, <2>6, <4>2, <4>3
        <4>. QED BY <2>2, <2>5, <3>1, <4>2, <4>3, <4>4
      <3>5. ASSUME NEW m \in Nat, Cardinality({i \in have : Day(Time[i]) >= m}) < Window,
                   Day(Time[j]) >= m
            PROVE  j \in W
        <4>1. PICK a \in T : ~(Day(Time[a]) >= m)
          BY <1>0, <1>2, <3>5, WindowReachesOut
        <4>2. Day(Time[a]) \in Nat /\ lo <= Day(Time[a])
          BY <2>2
        <4>3. j \in T
          BY <2>5, <2>6, <3>5, <4>1, <4>2
        <4>4. Day(Time[j]) # lo
          BY <2>2, <2>5, <3>5, <4>1, <4>2
        <4>. QED BY <3>1, <4>3, <4>4
      <3>. QED BY <3>3, <3>4, <3>5
    <2>. QED BY <2>7, <2>8
  <1>. QED BY <1>1, <1>2

\* What the tail read keeps of a day, it keeps whole.
LEMMA TailIsWhole ==
  ASSUME TypeOK, StoreInv, NoDayZero, DaysFit,
         NEW T \in FirstRows({i \in have : stamp[i] > mark}),
         NEW W \in IF T = {} THEN {{}} ELSE WholeDays(T, "newest"),
         NEW i \in W, NEW j \in have, stamp[j] > mark, Day(Time[i]) = Day(Time[j])
  PROVE  j \in W
  <1>. DEFINE R == {k \in have : stamp[k] > mark}
  <1>0. R \subseteq have /\ j \in R /\ T \in FirstRows(R) /\ T \subseteq R /\ T # {}
    BY DEF FirstRows
  <1>1. T \subseteq have /\ W \in WholeDays(T, "newest")
    BY <1>0
  <1>. HIDE DEF R
  <1>2. CASE Cardinality(T) < Window
    <2>1. W = T
      BY <1>1, <1>2 DEF WholeDays
    <2>2. T = R
      BY <1>0, <1>2, ShortReadIsAll
    <2>. QED BY <1>0, <2>1, <2>2
  <1>3. CASE ~(Cardinality(T) < Window)
    <2>1. PICK lo \in LowDays(T) : W = IF lo = HighDay(T) THEN T ELSE Without(T, HighDay(T))
      BY <1>1, <1>3 DEF WholeDays
    <2>2. /\ lo \in DaysOf(T) /\ lo \in Nat /\ DaysOf(T) \subseteq Nat
          /\ \A e \in DaysOf(T) : lo <= e
          /\ \A k \in T : Day(stamp[k]) = Day(Time[k]) /\ Day(Time[k]) \in DaysOf(T)
      BY <1>1, <2>1, LowDayIsFirst
    <2>3. HighDay(T) \in DaysOf(T) /\ \A e \in DaysOf(T) : e <= HighDay(T)
      BY <1>0, <1>1, HighDayIsLast
    <2>4. PICK h \in T : HighDay(T) = Day(Time[h])
      BY <2>2, <2>3 DEF DaysOf
    <2>5. Day(Time[j]) \in Nat /\ Day(Time[j]) \in Days
      BY RowFacts
    <2>6. CASE lo = HighDay(T)
      <3>1. W = T
        BY <2>1, <2>6
      <3>2. \A k \in T : Day(Time[k]) = lo
        BY <2>2, <2>3, <2>6
      <3>3. \A k \in T : Day(Time[k]) = Day(Time[j])
        BY <3>1, <3>2
      <3>. QED BY <1>1, <1>3, <2>5, <3>1, <3>3, FullDayIsWhole
    <2>7. CASE lo # HighDay(T)
      <3>1. \A k \in T : k \in W <=> Day(Time[k]) # HighDay(T)
        BY <2>1, <2>2, <2>7 DEF Without
      <3>2. i \in T
        BY <2>1, <2>7 DEF Without
      <3>3. Day(Time[i]) < Day(Time[h])
        BY <2>2, <2>3, <2>4, <3>1, <3>2
      <3>4. j \in T
        <4>. SUFFICES ASSUME j \notin T PROVE FALSE
          OBVIOUS
        <4>1. stamp[h] <= stamp[j]
          BY <1>0, <2>4 DEF FirstRows
        <4>2. /\ stamp[h] = Time[h] /\ stamp[j] = Time[j] /\ h \in have
          BY <1>1, RowFacts
        <4>3. Day(Time[h]) <= Day(Time[j])
          BY <4>1, <4>2, LaterDay
        <4>. QED BY <2>2, <2>4, <2>5, <3>3, <4>3
      <3>. QED BY <2>2, <2>4, <3>1, <3>2, <3>4
    <2>. QED BY <2>6, <2>7
  <1>. QED BY <1>2, <1>3

\* Every step keeps the rows' contents within the store and the pass's pools.
LEMMA RowStep ==
  ASSUME Fresh, TypeOK, StoreInv, RowInv, [Next]_vars
  PROVE  RowInv'
  <1>. USE DEF pollerVars, tableVars, passVars, healVars
  <1>0. have \subseteq Swaps /\ batch \in [Swaps -> {"unread", "undated", "dated"}]
    BY DEF TypeOK
  <1>1. CASE BeginPass \/ \E p \in Priceable : BeginPassUnquoted(p)
    <2>1. /\ pc = "idle" /\ pc' = "head" /\ known' = PoolsRead
          /\ UNCHANGED <<have, dayRow, batch>>
      BY <1>1 DEF BeginPass, BeginPassUnquoted
    <2>2. \A d \in Days : \A j \in dayRow[d] : PoolOf[j] \in PoolsRead
      BY DEF PoolsRead, RowInv
    <2>. QED BY <2>1, <2>2 DEF RowInv
  <1>2. CASE ReadHead \/ ReadTail
    <2>1. PICK W \in SUBSET have : Take(W)
      <3>1. CASE ReadHead
        <4>1. PICK T \in LastRows(have) : \E W \in WholeDays(T, "oldest") : Take(W)
          BY <3>1 DEF ReadHead
        <4>2. PICK W \in WholeDays(T, "oldest") : Take(W)
          BY <4>1
        <4>3. W \subseteq have
          BY <4>2, WholeDaysSubset DEF LastRows
        <4>. QED BY <4>2, <4>3
      <3>2. CASE ReadTail
        <4>1. PICK T \in FirstRows({i \in have : stamp[i] > mark}) :
                \E W \in IF T = {} THEN {{}} ELSE WholeDays(T, "newest") : Take(W)
          BY <3>2 DEF ReadTail
        <4>2. PICK W \in IF T = {} THEN {{}} ELSE WholeDays(T, "newest") : Take(W)
          BY <4>1
        <4>3. W \subseteq have
          BY <4>2, WholeDaysSubset DEF FirstRows
        <4>. QED BY <4>2, <4>3
      <3>. QED BY <1>2, <3>1, <3>2
    <2>2. pc # "idle" /\ pc' \in {"tail", "value"} /\ UNCHANGED <<have, dayRow, known>>
      BY <1>2 DEF ReadHead, ReadTail
    <2>3. \A i \in Swaps : batch'[i] # "unread" => i \in have
      BY <2>1 DEF Take, RowInv
    <2>. QED BY <2>2, <2>3 DEF RowInv
  <1>3. CASE ReadHeadFails \/ ReadTailFails \/ ValueSwaps \/ ValueFails \/ Mark \/ Totals
    <2>1. /\ pc # "idle" /\ pc' \notin {"idle", "head"}
          /\ UNCHANGED <<have, dayRow, known, batch>>
      BY <1>3 DEF ReadHeadFails, ReadTailFails, ValueSwaps, ValueFails, Mark, Totals
    <2>. QED BY <2>1 DEF RowInv
  <1>4. ASSUME NEW today \in Days, WriteSeries(today) PROVE RowInv'
    <2>1. /\ pc = "series" /\ pc' = "idle" /\ have' = have
          /\ batch' = [i \in Swaps |-> "unread"]
          /\ \A d \in Days : dayRow'[d] = Cell(d) \/ dayRow'[d] = dayRow[d]
      BY <1>4 DEF WriteSeries, PassDone
    <2>2. \A d \in Days : \A j \in Cell(d) :
            j \in have /\ Day(Time[j]) = d /\ PoolOf[j] \in Valued
      BY DEF Cell, RowInv, TypeOK
    <2>. QED BY <2>1, <2>2 DEF RowInv
  <1>5. CASE Heal \/ Commit \/ Abandon \/ UNCHANGED vars
    <2>1. UNCHANGED <<have, dayRow, known, batch, pc>>
      BY <1>5 DEF Heal, HealRead, HealReadFails, HealWrite, HealSkip, Commit, Abandon, vars
    <2>. QED BY <2>1 DEF RowInv
  <1>6. CASE Insert
    <2>1. have \subseteq have' /\ UNCHANGED <<dayRow, known, batch, pc>>
      BY <1>6 DEF Insert
    <2>. QED BY <2>1 DEF RowInv
  <1>7. CASE Drop
    BY <1>7 DEF Drop, Fault, Fresh
  <1>. QED BY <1>1, <1>2, <1>3, <1>4, <1>5, <1>6, <1>7 DEF Next, Pass, PassFault, Poller

\* Every step keeps the batch whole.
LEMMA WholeStep ==
  ASSUME Fresh, "read" \notin Faults, NoDayZero, DaysFit, KeepsUp,
         TypeOK, StoreInv, RowInv, WholeInv, [Next]_vars
  PROVE  WholeInv'
  <1>. USE DEF pollerVars, tableVars, passVars, healVars
  <1>0. have \subseteq Swaps /\ batch \in [Swaps -> {"unread", "undated", "dated"}]
        /\ mark \in Nat
    BY DEF TypeOK
  <1>1. CASE BeginPass \/ \E p \in Priceable : BeginPassUnquoted(p)
    BY <1>1 DEF BeginPass, BeginPassUnquoted, WholeInv
  <1>2. CASE ReadHead
    <2>1. PICK T \in LastRows(have) : \E W \in WholeDays(T, "oldest") : Take(W)
      BY <1>2 DEF ReadHead
    <2>2. PICK W \in WholeDays(T, "oldest") : Take(W)
      BY <2>1
    <2>3. pc = "head" /\ pc' = "tail" /\ UNCHANGED <<have, dayRow, mark>>
      BY <1>2 DEF ReadHead
    <2>4. W \subseteq have
      BY <2>2, WholeDaysSubset DEF LastRows
    <2>5. \A i \in Swaps : batch[i] = "unread"
      BY <2>3 DEF RowInv
    <2>6. \A i \in W : batch'[i] = "dated"
      BY <1>0, <2>2, <2>4 DEF Take, StoreInv
    <2>7. \A i \in Swaps : batch'[i] # "unread" => i \in W
      BY <2>2, <2>5 DEF Take
    <2>8. ASSUME NEW i \in Swaps, batch'[i] # "unread" PROVE Kept(Day(Time[i]))'
      <3>1. i \in W /\ Day(Time[i]) \in Days
        BY <2>7, <2>8, Constants
      <3>2. \A j \in dayRow[Day(Time[i])] : j \in have /\ Day(Time[j]) = Day(Time[i])
        BY <3>1 DEF RowInv
      <3>3. \A j \in dayRow[Day(Time[i])] : j \in W
        BY <2>1, <2>2, <3>1, <3>2, HeadIsWhole
      <3>. QED BY <2>3, <2>6, <3>3 DEF Kept
    <2>9. ASSUME NEW d \in Days, \A i \in have : Day(Time[i]) <= d PROVE Kept(d)'
      <3>1. \A j \in dayRow[d] : j \in have /\ Day(Time[j]) = d
        BY DEF RowInv
      <3>2. \A j \in dayRow[d] : j \in W
        BY <2>1, <2>2, <2>9, <3>1, HeadIsWhole
      <3>. QED BY <2>3, <2>6, <3>2 DEF Kept
    <2>10. ASSUME MidDay PROVE Kept(Day(mark))'
      <3>1. Day(mark) \in Days /\ Day(mark) \in Nat
        BY <1>0, <2>10, RowFacts, DayBounds DEF MidDay
      <3>2. \A j \in dayRow[Day(mark)] : j \in have /\ Day(Time[j]) = Day(mark)
        BY <3>1 DEF RowInv
      <3>3. Cardinality({i \in have : Day(Time[i]) >= Day(mark)}) < Window
        BY <2>3, <2>10 DEF KeepsUp
      <3>4. \A j \in dayRow[Day(mark)] : Day(Time[j]) >= Day(mark)
        BY <3>1, <3>2
      <3>5. \A j \in dayRow[Day(mark)] : j \in W
        BY <2>1, <2>2, <3>1, <3>2, <3>3, <3>4, HeadIsWhole
      <3>. QED BY <2>3, <2>6, <3>5 DEF Kept
    <2>11. MidDay' => MidDay
      BY <2>3 DEF MidDay
    <2>. QED BY <2>3, <2>8, <2>9, <2>10, <2>11 DEF WholeInv
  <1>3. CASE ReadTail
    <2>1. PICK T \in FirstRows({i \in have : stamp[i] > mark}) :
            \E W \in IF T = {} THEN {{}} ELSE WholeDays(T, "newest") : Take(W)
      BY <1>3 DEF ReadTail
    <2>2. PICK W \in IF T = {} THEN {{}} ELSE WholeDays(T, "newest") : Take(W)
      BY <2>1
    <2>3. pc = "tail" /\ pc' = "value" /\ UNCHANGED <<have, dayRow, mark>>
      BY <1>3 DEF ReadTail
    <2>4. W \subseteq T /\ T \subseteq have /\ \A i \in T : stamp[i] > mark
      BY <2>2, WholeDaysSubset DEF FirstRows
    <2>5. \A i \in Swaps : i \in W \/ batch[i] = "dated" => batch'[i] = "dated"
      BY <2>2, <2>4 DEF Take, StoreInv
    <2>6. \A i \in Swaps : batch'[i] # "unread" => i \in W \/ batch[i] # "unread"
      BY <2>2 DEF Take
    <2>7. \A d \in Days : dayRow[d] \subseteq Swaps
      BY DEF TypeOK
    <2>8. \A d \in Days : Kept(d) => Kept(d)'
      BY <2>3, <2>5, <2>7 DEF Kept
    <2>9. ASSUME NEW i \in W PROVE Kept(Day(Time[i]))'
      <3>. DEFINE d == Day(Time[i])
      <3>1. /\ i \in have /\ i \in Swaps /\ d \in Days /\ d \in Nat /\ Time[i] \in Nat
            /\ stamp[i] = Time[i] /\ Time[i] > mark /\ Day(mark) \in Nat
        BY <1>0, <2>4, RowFacts, DayBounds
      <3>2. CASE d = Day(mark)
        <4>1. MidDay
          BY <3>1, <3>2 DEF MidDay
        <4>2. Kept(d)
          BY <2>3, <3>2, <4>1 DEF WholeInv
        <4>. QED BY <2>8, <3>1, <4>2
      <3>3. CASE d # Day(mark)
        <4>1. Day(mark) <= d
          BY <1>0, <3>1, DayMonotone
        <4>2. ASSUME NEW j \in dayRow[d] PROVE j \in W
          <5>1. j \in have /\ Day(Time[j]) = d
            BY <3>1 DEF RowInv
          <5>2. stamp[j] = Time[j] /\ Time[j] \in Nat
            BY <5>1, RowFacts
          <5>3. Time[j] <= mark => Day(Time[j]) <= Day(mark)
            BY <1>0, <5>2, DayMonotone
          <5>4. stamp[j] > mark
            <6>. HIDE DEF d
            <6>. QED BY <1>0, <3>1, <3>3, <4>1, <5>1, <5>2, <5>3
          <5>. QED BY <2>1, <2>2, <5>1, <5>4, TailIsWhole
        <4>. QED BY <2>3, <2>5, <2>7, <3>1, <4>2 DEF Kept
      <3>. QED BY <3>2, <3>3
    <2>10. \A i \in Swaps : batch[i] # "unread" => Kept(Day(Time[i]))'
      BY <2>3, <2>8, Constants DEF WholeInv
    <2>11. \A d \in Days : (\A i \in have : Day(Time[i]) <= d) => Kept(d)'
      BY <2>3, <2>8 DEF WholeInv
    <2>. QED BY <2>3, <2>6, <2>9, <2>10, <2>11 DEF WholeInv
  <1>4. CASE ReadHeadFails \/ ReadTailFails
    BY <1>4 DEF ReadHeadFails, ReadTailFails, Fault
  <1>5. CASE ValueSwaps \/ ValueFails \/ Mark \/ Totals
    <2>1. /\ pc \notin {"idle", "head"} /\ pc' \notin {"idle", "head", "tail"}
          /\ UNCHANGED <<have, dayRow, batch>>
      BY <1>5 DEF ValueSwaps, ValueFails, Mark, Totals
    <2>. QED BY <2>1 DEF WholeInv, Kept
  <1>6. CASE \E today \in Days : WriteSeries(today)
    BY <1>6 DEF WriteSeries, PassDone, WholeInv
  <1>7. CASE Heal \/ Commit \/ Abandon \/ UNCHANGED vars
    <2>1. UNCHANGED <<have, dayRow, batch, pc, mark>>
      BY <1>7 DEF Heal, HealRead, HealReadFails, HealWrite, HealSkip, Commit, Abandon, vars
    <2>. QED BY <2>1 DEF WholeInv, Kept, MidDay
  <1>8. CASE Insert
    <2>. DEFINE n == next + 1
    <2>1. n \in Swaps /\ have' = have \cup {n} /\ UNCHANGED <<dayRow, batch, pc, mark>>
      BY <1>8, Constants DEF Insert, Swaps, TypeOK
    <2>. HIDE DEF n
    <2>2. CASE pc \in {"idle", "head"}
      BY <2>1, <2>2 DEF WholeInv
    <2>3. CASE pc \notin {"idle", "head"}
      <3>1. \A i \in Swaps : batch[i] # "unread" => Kept(Day(Time[i]))'
        BY <2>1, <2>3 DEF WholeInv, Kept
      <3>2. \A d \in Days : (\A i \in have' : Day(Time[i]) <= d) => Kept(d)'
        BY <2>1, <2>3 DEF WholeInv, Kept
      <3>3. ASSUME pc = "tail", MidDay' PROVE Kept(Day(mark))'
        <4>1. CASE MidDay
          BY <2>1, <3>3, <4>1 DEF WholeInv, Kept
        <4>2. CASE ~MidDay
          <5>1. n \notin have /\ Day(Time[n]) = Day(mark)
            BY <2>1, <3>3, <4>2 DEF MidDay
          <5>2. ASSUME NEW i \in have PROVE Day(Time[i]) <= Day(mark)
            <6>1. i \in Swaps /\ ~(n < i) /\ n # i
              BY <1>0, <2>1, <5>1 DEF StoreInv
            <6>2. i < n
              BY <2>1, <6>1, Constants
            <6>3. Time[i] <= Time[n] /\ Time[i] \in Nat /\ Time[n] \in Nat
              BY <2>1, <6>1, <6>2, Constants, TimesInOrder
            <6>. QED BY <5>1, <6>3, DayMonotone
          <5>3. Day(mark) \in Days
            BY <2>1, <5>1, Constants
          <5>4. Kept(Day(mark))
            BY <2>3, <5>2, <5>3 DEF WholeInv
          <5>. QED BY <2>1, <5>4 DEF Kept
        <4>. QED BY <4>1, <4>2
      <3>. QED BY <2>1, <3>1, <3>2, <3>3 DEF WholeInv
    <2>. QED BY <2>2, <2>3
  <1>9. CASE Drop
    BY <1>9 DEF Drop, Fault, Fresh
  <1>. QED BY <1>1, <1>2, <1>3, <1>4, <1>5, <1>6, <1>7, <1>8, <1>9
           DEF Next, Pass, PassFault, Poller

\* wholeDays: no pass puts "half a day's volume where a whole day's had been", on a
\* store of this build whose queries do not fail, when a day fits in one read and the
\* poller stays within a window of the pass.
THEOREM DaysOnlyGrow ==
  (Fresh /\ "read" \notin Faults /\ NoDayZero /\ DaysFit)
    => (Spec /\ []KeepsUp => DayNeverShrinks)
  <1>. SUFFICES ASSUME Fresh, "read" \notin Faults, NoDayZero, DaysFit
                PROVE  Spec /\ []KeepsUp => DayNeverShrinks
    OBVIOUS
  <1>. DEFINE Grows == have \subseteq have' => \A d \in Days : dayRow[d] \subseteq dayRow'[d]
  <1>1. Init => RowInv /\ WholeInv
    BY DEF Init, RowInv, WholeInv
  <1>2. TypeOK /\ StoreInv /\ KeepsUp /\ RowInv /\ WholeInv /\ [Next]_vars
          => RowInv' /\ WholeInv'
    BY RowStep, WholeStep
  <1>3. TypeOK /\ RowInv /\ WholeInv /\ [Next]_vars => [Grows]_vars
    <2>. SUFFICES ASSUME TypeOK, RowInv, WholeInv, Next PROVE Grows
      OBVIOUS
    <2>. USE DEF pollerVars, tableVars, passVars, healVars
    <2>1. ASSUME NEW today \in Days, WriteSeries(today) PROVE Grows
      <3>. SUFFICES ASSUME NEW d \in Days, NEW j \in dayRow[d] PROVE j \in dayRow'[d]
        OBVIOUS
      <3>1. /\ pc = "series" /\ \A i \in have : Day(Time[i]) <= today
            /\ dayRow'[d] = IF d = today \/ Cell(d) \cap Priced # {} THEN Cell(d) ELSE dayRow[d]
        BY <2>1 DEF WriteSeries
      <3>2. d = today \/ Cell(d) \cap Priced # {} => Kept(d)
        <4>1. CASE d = today
          BY <3>1, <4>1 DEF WholeInv
        <4>2. ASSUME NEW i \in Cell(d) PROVE Kept(d)
          BY <3>1, <4>2 DEF WholeInv, Cell
        <4>. QED BY <4>1, <4>2
      <3>3. Kept(d) => j \in Cell(d)
        BY <3>1 DEF Kept, Cell, RowInv, TypeOK
      <3>. QED BY <3>1, <3>2, <3>3
    <2>2. CASE UNCHANGED dayRow
      BY <2>2
    <2>3. CASE Drop
      BY <2>3 DEF Drop, Fault, Fresh
    <2>4. CASE BeginPass \/ ReadHead \/ ReadTail \/ ValueSwaps \/ Mark \/ Totals
      BY <2>2, <2>4 DEF BeginPass, ReadHead, ReadTail, ValueSwaps, Mark, Totals
    <2>5. CASE PassFault \/ Heal
      BY <2>2, <2>5 DEF PassFault, BeginPassUnquoted, ReadHeadFails, ReadTailFails, ValueFails,
                        Heal, HealRead, HealReadFails, HealWrite, HealSkip
    <2>6. CASE Poller \/ Abandon
      BY <2>2, <2>6 DEF Poller, Insert, Commit, Abandon
    <2>. QED BY <2>1, <2>3, <2>4, <2>5, <2>6 DEF Next, Pass
  <1>4. Spec /\ []KeepsUp => [][Grows]_vars
    <2>. HIDE DEF Grows
    <2>. QED BY <1>1, <1>2, <1>3, StoreInvariant, PTL DEF Spec
  <1>. QED BY <1>4 DEF DayNeverShrinks, Grows

=============================================================================
