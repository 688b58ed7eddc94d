-------------------------- MODULE RateLimitProofs --------------------------
(***************************************************************************)
(* Proofs about RateLimit, for every set of clients, burst, rate and idle  *)
(* time that refills a bucket.                                             *)
(***************************************************************************)
EXTENDS RateLimit, TLAPS

Entry == [there : BOOLEAN, tokens : 0 .. Cap, lastSeen : 0 .. now]

\* A full bucket is a positive number of units, and a request is at most one.
LEMMA CapType == Cap \in Nat /\ Cost \in Nat /\ Cost > 0 /\ Cost <= Cap /\ Idle \in Nat /\ Idle >= Cap
  <1> DEFINE k == Burst - 1
  <1>1. k \in Nat /\ Burst = k + 1 /\ Cost \in Nat /\ Cost > 0
    BY LimiterConstants
  <1>2. k * Cost \in Nat
    BY <1>1
  <1>3. Cap = k * Cost + Cost
    BY <1>1 DEF Cap
  <1> QED
    BY <1>1, <1>2, <1>3, LimiterConstants

\* What a bucket holds is between nothing and a full bucket.
LEMMA RefilledType ==
  ASSUME TypeOK, NEW c \in Clients, buckets[c].there
  PROVE  /\ buckets[c] \in Entry
         /\ Refilled(buckets[c]) \in 0 .. Cap
         /\ Refilled(buckets[c]) >= buckets[c].tokens
  <1>1. buckets[c] \in Entry
    BY DEF TypeOK, Entry, Absent
  <1>2. /\ buckets[c].tokens \in 0 .. Cap /\ buckets[c].lastSeen \in 0 .. now
        /\ now \in Nat /\ Cap \in Nat
    BY <1>1, CapType, LimiterConstants DEF Entry, TypeOK
  <1> QED
    BY <1>1, <1>2 DEF Refilled, Least

\* The type invariant holds in every reachable state.
THEOREM TypeCorrect == Spec => []TypeOK
  <1>1. Init => TypeOK
    BY LimiterConstants, CapType DEF Init, TypeOK, Absent
  <1>2. TypeOK /\ [Next]_vars => TypeOK'
    <2> SUFFICES ASSUME TypeOK, [Next]_vars PROVE TypeOK'
      OBVIOUS
    <2>1. ASSUME NEW c \in Clients, AllowNew(c) PROVE TypeOK'
      BY <2>1, CapType, LimiterConstants DEF TypeOK, AllowNew, Bucket
    <2>2. ASSUME NEW c \in Clients, AllowKnown(c) PROVE TypeOK'
      <3>1. buckets[c] \in Entry /\ Refilled(buckets[c]) \in 0 .. Cap
        BY <2>2, RefilledType DEF AllowKnown
      <3>2. Refilled(buckets[c]) - Cost \in 0 .. Cap
        BY <3>1, <2>2, CapType DEF AllowKnown
      <3>3. buckets' \in [Clients -> Entry]
        BY <2>2, <3>2, LimiterConstants DEF TypeOK, Entry, AllowKnown, Bucket
      <3> QED
        BY <2>2, <3>3, CapType, LimiterConstants DEF TypeOK, AllowKnown, Entry
    <2>3. ASSUME NEW c \in Clients, RefuseKnown(c) PROVE TypeOK'
      <3>1. buckets[c] \in Entry /\ Refilled(buckets[c]) \in 0 .. Cap
        BY <2>3, RefilledType DEF RefuseKnown
      <3>2. buckets' \in [Clients -> Entry]
        BY <2>3, <3>1, LimiterConstants DEF TypeOK, Entry, RefuseKnown, Bucket
      <3> QED
        BY <2>3, <3>2 DEF TypeOK, RefuseKnown, Entry
    <2>4. CASE Sweep
      <3>1. Absent \in Entry
        BY CapType, LimiterConstants DEF TypeOK, Absent, Entry
      <3>2. buckets' \in [Clients -> Entry]
        BY <2>4, <3>1 DEF TypeOK, Sweep, Entry
      <3> QED
        BY <2>4, <3>2, LimiterConstants DEF TypeOK, Sweep, Entry
    <2>5. ASSUME NEW d \in 1 .. MaxTime, Elapse(d) PROVE TypeOK'
      BY <2>5, CapType, LimiterConstants DEF TypeOK, Elapse, Absent
    <2>6. CASE Observe
      BY <2>6 DEF TypeOK, Observe, Absent
    <2>7. CASE UNCHANGED vars
      BY <2>7 DEF TypeOK, vars, Absent
    <2> QED
      BY <2>1, <2>2, <2>3, <2>4, <2>5, <2>6, <2>7 DEF Next
  <1> QED
    BY <1>1, <1>2, PTL DEF Spec

\* Time adds to what a client has what it adds in the bucket that is never evicted.
LEMMA AvailElapse ==
  ASSUME TypeOK, NEW d \in 1 .. MaxTime, Elapse(d), NEW c \in Clients
  PROVE  Avail(c)' = Least(Cap, Avail(c) + d)
  <1>1. CASE buckets[c].there
    <2>1. buckets[c] \in Entry
      BY <1>1, RefilledType
    <2> QED
      BY <1>1, <2>1, CapType, LimiterConstants
      DEF Elapse, Avail, Refilled, Least, Entry, TypeOK
  <1>2. CASE ~buckets[c].there
    BY <1>2, CapType, LimiterConstants DEF Elapse, Avail, Least
  <1> QED
    BY <1>1, <1>2

\* Eviction takes nothing from a client and gives it nothing: a bucket that has
\* been idle that long is full.
LEMMA AvailSweep ==
  ASSUME TypeOK, Sweep, NEW c \in Clients
  PROVE  Avail(c)' = Avail(c)
  <1>1. CASE buckets[c].there /\ buckets[c].lastSeen < now - Idle
    <2>1. buckets[c] \in Entry
      BY <1>1, RefilledType
    <2>2. Refilled(buckets[c]) = Cap
      BY <1>1, <2>1, CapType, LimiterConstants DEF Refilled, Least, Entry, TypeOK
    <2> QED
      BY <1>1, <2>2 DEF Sweep, Avail, Absent
  <1>2. CASE ~buckets[c].there
    BY <1>2 DEF Sweep, Avail, Absent, TypeOK
  <1>3. CASE buckets[c].there /\ ~(buckets[c].lastSeen < now - Idle)
    BY <1>3 DEF Sweep, Avail, Refilled
  <1> QED
    BY <1>1, <1>2, <1>3

\* An admitted request finds a token and takes exactly one, from its client alone.
LEMMA AvailAllow ==
  ASSUME TypeOK, NEW c \in Clients, AllowNew(c) \/ AllowKnown(c)
  PROVE  /\ Avail(c) >= Cost
         /\ \A x \in Clients : Avail(x)' = IF x = c THEN Avail(x) - Cost ELSE Avail(x)
  <1>1. CASE AllowNew(c)
    <2>1. Avail(c) = Cap
      BY <1>1 DEF AllowNew, Avail
    <2>2. Avail(c)' = Cap - Cost
      BY <1>1, CapType, LimiterConstants DEF AllowNew, Avail, Refilled, Least, TypeOK, Bucket
    <2>3. \A x \in Clients : x # c => Avail(x)' = Avail(x)
      BY <1>1 DEF AllowNew, Avail, Refilled, TypeOK
    <2> QED
      BY <2>1, <2>2, <2>3, CapType
  <1>2. CASE AllowKnown(c)
    <2>1. buckets[c] \in Entry /\ Refilled(buckets[c]) \in 0 .. Cap
      BY <1>2, RefilledType DEF AllowKnown
    <2>2. Avail(c) = Refilled(buckets[c]) /\ Avail(c) >= Cost
      BY <1>2 DEF AllowKnown, Avail
    <2>3. buckets'[c] = Bucket(Avail(c) - Cost)
      BY <1>2, <2>1, <2>2 DEF AllowKnown, TypeOK, Entry
    <2>4. Avail(c)' = Avail(c) - Cost
      BY <1>2, <2>1, <2>2, <2>3, CapType, LimiterConstants
      DEF AllowKnown, Avail, Refilled, Least, TypeOK, Bucket
    <2>5. \A x \in Clients : x # c => Avail(x)' = Avail(x)
      BY <1>2 DEF AllowKnown, Avail, Refilled, TypeOK
    <2> QED
      BY <2>2, <2>4, <2>5
  <1> QED
    BY <1>1, <1>2

\* A refused request found no token, and keeps what its client had.
LEMMA AvailRefuse ==
  ASSUME TypeOK, NEW c \in Clients, RefuseKnown(c)
  PROVE  /\ Avail(c) < Cost
         /\ \A x \in Clients : Avail(x)' = Avail(x)
  <1>1. buckets[c] \in Entry /\ Refilled(buckets[c]) \in 0 .. Cap
    BY RefilledType DEF RefuseKnown
  <1>2. Avail(c) = Refilled(buckets[c]) /\ Avail(c) < Cost
    BY DEF RefuseKnown, Avail
  <1>3. buckets'[c] = Bucket(Avail(c))
    BY <1>1, <1>2 DEF RefuseKnown, TypeOK, Entry
  <1>4. Avail(c)' = Avail(c)
    BY <1>1, <1>2, <1>3, CapType, LimiterConstants
    DEF RefuseKnown, Avail, Refilled, Least, TypeOK, Bucket
  <1>5. \A x \in Clients : x # c => Avail(x)' = Avail(x)
    BY DEF RefuseKnown, Avail, Refilled, TypeOK
  <1> QED
    BY <1>2, <1>4, <1>5

\* What a client has is between nothing and a full bucket.
LEMMA AvailType ==
  ASSUME TypeOK, NEW c \in Clients PROVE Avail(c) \in 0 .. Cap
  BY RefilledType, CapType DEF Avail

\* What a client took since the window opened and what it still has come to no more
\* than one full bucket and the time since: the induction behind Bounded.
Budget == \A c \in Clients : spent[c] + Avail(c) <= Cap + (now - from)

\* Every step keeps the budget: time adds as much to one side as to the other at
\* most, a request moves Cost from what is had to what is spent, a sweep moves nothing.
LEMMA BudgetStep == TypeOK /\ Budget /\ [Next]_vars => Budget'
  <1> SUFFICES ASSUME TypeOK, Budget, [Next]_vars, NEW x \in Clients
               PROVE  (spent[x] + Avail(x) <= Cap + (now - from))'
    BY DEF Budget
  <1>0. /\ spent[x] \in Nat /\ Avail(x) \in 0 .. Cap /\ Cap \in Nat /\ Cost \in Nat
        /\ now \in Nat /\ from \in 0 .. now /\ spent[x] + Avail(x) <= Cap + (now - from)
        /\ Cap' = Cap
    BY AvailType, CapType, LimiterConstants DEF TypeOK, Budget, Cap
  <1>1. ASSUME NEW c \in Clients, AllowNew(c) \/ AllowKnown(c)
        PROVE  (spent[x] + Avail(x) <= Cap + (now - from))'
    <2>1. Avail(x)' = IF x = c THEN Avail(x) - Cost ELSE Avail(x)
      BY <1>1, AvailAllow
    <2>2. /\ spent'[x] = IF x = c THEN spent[x] + Cost ELSE spent[x]
          /\ now' = now /\ from' = from
      BY <1>1 DEF AllowNew, AllowKnown, TypeOK
    <2> QED
      BY <1>0, <2>1, <2>2
  <1>2. ASSUME NEW c \in Clients, RefuseKnown(c)
        PROVE  (spent[x] + Avail(x) <= Cap + (now - from))'
    <2>1. Avail(x)' = Avail(x)
      BY <1>2, AvailRefuse
    <2> QED
      BY <1>0, <1>2, <2>1 DEF RefuseKnown
  <1>3. CASE Sweep
    <2>1. Avail(x)' = Avail(x)
      BY <1>3, AvailSweep
    <2> QED
      BY <1>0, <1>3, <2>1 DEF Sweep
  <1>4. ASSUME NEW d \in 1 .. MaxTime, Elapse(d)
        PROVE  (spent[x] + Avail(x) <= Cap + (now - from))'
    <2>1. Avail(x)' = Least(Cap, Avail(x) + d)
      BY <1>4, AvailElapse
    <2>2. d \in Nat /\ now' = now + d /\ from' = from /\ spent' = spent
      BY <1>4, LimiterConstants DEF Elapse
    <2> QED
      BY <1>0, <2>1, <2>2 DEF Least
  <1>5. CASE Observe
    <2>1. Avail(x)' = Avail(x)
      BY <1>5 DEF Observe, Avail, Refilled
    <2>2. spent'[x] = 0 /\ from' = now /\ now' = now
      BY <1>5 DEF Observe
    <2> QED
      BY <1>0, <2>1, <2>2
  <1>6. CASE UNCHANGED vars
    BY <1>0, <1>6 DEF vars, Avail, Refilled
  <1> QED
    BY <1>1, <1>2, <1>3, <1>4, <1>5, <1>6 DEF Next

\* Bounded holds in every reachable state, for every burst and rate.
THEOREM BoundHolds == Spec => []Bounded
  <1>1. Init => Budget
    <2> SUFFICES ASSUME Init, NEW c \in Clients
                 PROVE  spent[c] + Avail(c) <= Cap + (now - from)
      BY DEF Budget
    <2>1. Avail(c) = Cap /\ spent[c] = 0 /\ now = 0 /\ from = 0
      BY DEF Init, Avail, Absent
    <2> QED
      BY <2>1, CapType
  <1>2. TypeOK /\ Budget => Bounded
    <2> SUFFICES ASSUME TypeOK, Budget, NEW c \in Clients
                 PROVE  spent[c] <= Cap + (now - from)
      BY DEF Bounded
    <2> QED
      BY AvailType, CapType, LimiterConstants DEF TypeOK, Budget
  <1> QED
    BY <1>1, <1>2, BudgetStep, TypeCorrect, PTL DEF Spec

\* Every step of the limiter with the map is a step of the ideal one, or none.
LEMMA IdealStep == TypeOK /\ [Next]_vars => [Ideal!Next]_(Ideal!vars)
  <1> SUFFICES ASSUME TypeOK, [Next]_vars PROVE [Ideal!Next]_(Ideal!vars)
    OBVIOUS
  <1> DEFINE avail == [c \in Clients |-> Avail(c)]
  <1>1. ASSUME NEW c \in Clients, AllowNew(c) \/ AllowKnown(c) PROVE Ideal!Admit(c)
    <2>1. /\ Avail(c) >= Cost
          /\ \A x \in Clients : Avail(x)' = IF x = c THEN Avail(x) - Cost ELSE Avail(x)
      BY <1>1, AvailAllow
    <2>2. avail' = [avail EXCEPT ![c] = @ - Cost]
      BY <2>1
    <2>3. verdict' = <<c, TRUE>>
      BY <1>1 DEF AllowNew, AllowKnown
    <2> QED
      BY <2>1, <2>2, <2>3 DEF Ideal!Admit
  <1>2. ASSUME NEW c \in Clients, RefuseKnown(c) PROVE Ideal!Refuse(c)
    <2>1. Avail(c) < Cost /\ \A x \in Clients : Avail(x)' = Avail(x)
      BY <1>2, AvailRefuse
    <2>2. avail' = avail
      BY <2>1
    <2> QED
      BY <1>2, <2>1, <2>2 DEF Ideal!Refuse, RefuseKnown
  <1>3. CASE Sweep
    <2>1. avail' = avail
      BY <1>3, AvailSweep
    <2> QED
      BY <1>3, <2>1 DEF Ideal!vars, Sweep
  <1>4. ASSUME NEW d \in 1 .. MaxTime, Elapse(d) PROVE Ideal!Elapse(d)
    <2>1. \A x \in Clients : Avail(x)' = Least(Cap, Avail(x) + d)
      BY <1>4, AvailElapse
    <2>2. avail' = [c \in Clients |-> Least(Cap, avail[c] + d)]
      BY <2>1
    <2> QED
      BY <1>4, <2>2 DEF Ideal!Elapse, Ideal!Least, Least, Elapse
  <1>5. CASE Observe
    <2>1. avail' = avail
      BY <1>5 DEF Observe, Avail, Refilled
    <2> QED
      BY <1>5, <2>1 DEF Ideal!vars, Observe
  <1>6. CASE UNCHANGED vars
    <2>1. avail' = avail
      BY <1>6 DEF vars, Avail, Refilled
    <2> QED
      BY <1>6, <2>1 DEF Ideal!vars, vars
  <1> QED
    BY <1>1, <1>2, <1>3, <1>4, <1>5, <1>6 DEF Next, Ideal!Next

\* The limiter implements the ideal one: no eviction can be told from the outside.
THEOREM Implements == Spec => EvictionUnseen
  <1>1. Init => Ideal!Init
    BY DEF Init, Ideal!Init, Avail, Absent
  <1> QED
    BY <1>1, IdealStep, TypeCorrect, PTL DEF Spec, EvictionUnseen, Ideal!Spec

=============================================================================
