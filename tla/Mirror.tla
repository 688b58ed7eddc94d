------------------------------- MODULE Mirror -------------------------------
(***************************************************************************)
(* What a source of the indexer promises of its store.  A chain, read with *)
(* the addresses an operator trusts, is a book of entries, each due at a   *)
(* height.  An entry that has its rows keeps them for as long as the book  *)
(* is the same, a cursor passes a height only when everything due there    *)
(* has its rows, and the only way back is to the start.                    *)
(***************************************************************************)
EXTENDS Integers

CONSTANT Base   \* the height at which an unread book begins

VARIABLES
  book,     \* the book that is mirrored
  due,      \* due[e]: the height of each entry of the book
  has,      \* the entries that have their rows
  cursor    \* the height up to which the book counts as read

vars == <<book, due, has, cursor>>

\* Nothing due at or below the cursor is missing.
Whole == cursor > Base => \A e \in DOMAIN due : due[e] <= cursor => e \in has

Init == cursor <= Base

\* Entries get their rows; the cursor stays behind.
Record ==
  /\ has \subseteq has'
  /\ UNCHANGED <<book, due, cursor>>

\* The cursor moves up, past nothing that is missing.
Advance ==
  /\ cursor' > cursor
  /\ has \subseteq has'
  /\ UNCHANGED <<book, due>>
  /\ Whole'

\* The book is to be read again from the start; the rows stay.
Rewind ==
  /\ cursor' <= Base
  /\ has \subseteq has'
  /\ UNCHANGED <<book, due>>

\* Another chain, or other addresses: an unread book.
Switch ==
  /\ book' # book
  /\ cursor' <= Base

Next == Record \/ Advance \/ Rewind \/ Switch

Spec == Init /\ [][Next]_vars

=============================================================================
