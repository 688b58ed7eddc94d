----------------------------- MODULE RateLimit -----------------------------
(***************************************************************************)
(* The rate limiter of cmd/graphd/ratelimit.go: buckets made on a client's *)
(* first request, filled lazily by the time since the last one, and        *)
(* evicted by a sweep once idle.  Time is in ticks of one unit of credit,  *)
(* so that a bucket is an integer: `rate` is one request per Cost ticks.   *)
(*                                                                         *)
(* The map is behind one mutex, so `allow` and one sweep are each a step.  *)
(***************************************************************************)
EXTENDS Integers

CONSTANTS
  Clients,   \* what clientIP answers
  Burst,     \* burst
  Cost,      \* ticks that earn one request: 1 / rate
  Idle,      \* how long a bucket is kept after its last request: three minutes
  Nap,       \* the least time between two sweeps: one minute
  MaxTime    \* bound on the clock

Cap == Burst * Cost

\* newRateLimiter(100, 100): a minute's idling refills any bucket many times over.
ASSUME LimiterConstants ==
  /\ Burst \in Nat \ {0} /\ Cost \in Nat \ {0} /\ Nap \in Nat \ {0}
  /\ Idle \in Nat /\ Idle >= Cap
  /\ MaxTime \in Nat

Absent == [there |-> FALSE, tokens |-> 0, lastSeen |-> 0]

VARIABLES
  now,       \* time.Now()
  buckets,   \* buckets[c], Absent when the map has no entry
  wake,      \* when cleanup's sleep is over
  verdict,   \* the last answer
  from,      \* history: when the observed window opened
  spent      \* history: spent[c], units client c took since

vars == <<now, buckets, wake, verdict, from, spent>>

Least(a, b) == IF a < b THEN a ELSE b

\* What a bucket holds once `allow` has added the time since its last request.
Refilled(b) == Least(Cap, b.tokens + (now - b.lastSeen))

\* A bucket with n units, touched now.
Bucket(n) == [there |-> TRUE, tokens |-> n, lastSeen |-> now]

Init ==
  /\ now = 0
  /\ buckets = [c \in Clients |-> Absent]
  /\ wake = Nap
  /\ verdict = <<>>
  /\ from = 0
  /\ spent = [c \in Clients |-> 0]

\* allow, the client's first request since it was last evicted.
AllowNew(c) ==
  /\ ~buckets[c].there
  /\ buckets' = [buckets EXCEPT ![c] = Bucket(Cap - Cost)]
  /\ verdict' = <<c, TRUE>>
  /\ spent' = [spent EXCEPT ![c] = @ + Cost]
  /\ UNCHANGED <<now, wake, from>>

\* Mutant: the refill has no ceiling.
RefillUncapped(c) ==
  LET level == buckets[c].tokens + (now - buckets[c].lastSeen) IN
    /\ buckets[c].there
    /\ level >= Cost
    /\ buckets' = [buckets EXCEPT ![c] = Bucket(level - Cost)]
    /\ verdict' = <<c, TRUE>>
    /\ spent' = [spent EXCEPT ![c] = @ + Cost]
    /\ UNCHANGED <<now, wake, from>>

\* allow, from a bucket that has a token.
AllowKnown(c) ==
  LET level == Refilled(buckets[c]) IN
    /\ buckets[c].there
    /\ level >= Cost
    /\ buckets' = [buckets EXCEPT ![c] = Bucket(level - Cost)]
    /\ verdict' = <<c, TRUE>>
    /\ spent' = [spent EXCEPT ![c] = @ + Cost]
    /\ UNCHANGED <<now, wake, from>>

\* Mutant: a refused request moves lastSeen and loses the time it was credited.
RefuseForgetful(c) ==
  /\ buckets[c].there
  /\ Refilled(buckets[c]) < Cost
  /\ buckets' = [buckets EXCEPT ![c].lastSeen = now]
  /\ verdict' = <<c, FALSE>>
  /\ UNCHANGED <<now, wake, from, spent>>

\* allow, from a bucket that has none: the refill is kept, the request is not.
RefuseKnown(c) ==
  LET level == Refilled(buckets[c]) IN
    /\ buckets[c].there
    /\ level < Cost
    /\ buckets' = [buckets EXCEPT ![c] = Bucket(level)]
    /\ verdict' = <<c, FALSE>>
    /\ UNCHANGED <<now, wake, from, spent>>

\* Mutant: the sweep takes buckets that were used a tick ago.
SweepEager ==
  /\ now >= wake
  /\ wake' = now + Nap
  /\ buckets' = [c \in Clients |-> IF buckets[c].lastSeen < now THEN Absent ELSE buckets[c]]
  /\ UNCHANGED <<now, verdict, from, spent>>

\* cleanup: one sweep, and back to sleep.
Sweep ==
  /\ now >= wake
  /\ wake' = now + Nap
  /\ buckets' = [c \in Clients |->
                   IF buckets[c].lastSeen < now - Idle THEN Absent ELSE buckets[c]]
  /\ UNCHANGED <<now, verdict, from, spent>>

\* The clock.
Elapse(d) ==
  /\ now + d <= MaxTime
  /\ now' = now + d
  /\ UNCHANGED <<buckets, wake, verdict, from, spent>>

\* An observer opens a window: what is spent is counted from here.
Observe ==
  /\ from' = now
  /\ spent' = [c \in Clients |-> 0]
  /\ UNCHANGED <<now, buckets, wake, verdict>>

Next ==
  \/ \E c \in Clients : AllowNew(c) \/ AllowKnown(c) \/ RefuseKnown(c)
  \/ Sweep
  \/ \E d \in 1 .. MaxTime : Elapse(d)
  \/ Observe

Spec == Init /\ [][Next]_vars

(***************************************************************************)
(* Properties                                                              *)
(***************************************************************************)
\* Type correctness: a bucket never holds more than the burst (the Min of allow) nor less
\* than nothing, and was last seen in the past.
TypeOK ==
  /\ now \in 0 .. MaxTime /\ from \in 0 .. now /\ wake \in Nat
  /\ buckets \in [Clients -> [there : BOOLEAN, tokens : 0 .. Cap, lastSeen : 0 .. now]]
  /\ spent \in [Clients -> Nat]

\* What a client has, evicted or not.
Avail(c) == IF buckets[c].there THEN Refilled(buckets[c]) ELSE Cap

\* newRateLimiter: "100 req/s per IP, burst 100".  Whenever one starts to count, no
\* client is admitted more than its burst plus what the time since has earned it,
\* however its bucket was made, evicted and made again in between.
Bounded == \A c \in Clients : spent[c] <= Cap + (now - from)

Ideal == INSTANCE IdealLimiter WITH avail <- [c \in Clients |-> Avail(c)]

\* cleanup "evicts stale entries" and nobody can tell: the limiter with a map that
\* is made and swept implements the one in which every bucket is kept for ever, so a
\* request is refused exactly when that one would refuse it.
EvictionUnseen == Ideal!Spec

=============================================================================
