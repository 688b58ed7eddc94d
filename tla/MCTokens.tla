------------------------------ MODULE MCTokens ------------------------------
(***************************************************************************)
(* A wrapped native token and a contract that has no decimals().  A read   *)
(* is delivered whole or loses one, two or all of its calls.               *)
(***************************************************************************)
EXTENDS Tokens

CONSTANTS wnat, odd

TwoTokens == {wnat, odd}
MCAnswers == [a \in TwoTokens |-> IF a = odd THEN Calls \ {"decimals"} ELSE Calls]

\* decimals() and totalSupply() fail alone, the first also with the symbol: the address
\* is asked about again.
LostCalls == {{}, {"decimals"}, {"supply"}, {"symbol"}, {"symbol", "decimals"}, Calls}

=============================================================================
