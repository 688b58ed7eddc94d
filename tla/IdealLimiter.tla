---------------------------- MODULE IdealLimiter ----------------------------
(***************************************************************************)
(* What the rate limiter promises: every client that could ever call has a *)
(* bucket, full at first, that fills by one unit a tick up to Cap and pays *)
(* Cost for each request it admits.  Nothing is ever forgotten.            *)
(***************************************************************************)
EXTENDS Integers

CONSTANTS
  Clients,   \* addresses
  Cap,       \* units in a full bucket
  Cost,      \* units one request takes
  MaxTime    \* bound on one step of the clock

VARIABLES
  avail,     \* avail[c]: units client c has now
  verdict    \* the last answer: <<client, admitted>>, or <<>> before one

vars == <<avail, verdict>>

Least(a, b) == IF a < b THEN a ELSE b

Init ==
  /\ avail = [c \in Clients |-> Cap]
  /\ verdict = <<>>

Elapse(d) ==
  /\ avail' = [c \in Clients |-> Least(Cap, avail[c] + d)]
  /\ UNCHANGED verdict

Admit(c) ==
  /\ avail[c] >= Cost
  /\ avail' = [avail EXCEPT ![c] = @ - Cost]
  /\ verdict' = <<c, TRUE>>

Refuse(c) ==
  /\ avail[c] < Cost
  /\ verdict' = <<c, FALSE>>
  /\ UNCHANGED avail

Next ==
  \/ \E d \in 1 .. MaxTime : Elapse(d)
  \/ \E c \in Clients : Admit(c) \/ Refuse(c)

Spec == Init /\ [][Next]_vars

=============================================================================
