------------------------------ MODULE MCQuery ------------------------------
(***************************************************************************)
(* Documents of one, two or three of eight fields, minified and pretty-    *)
(* printed, whole or without up to four of their last lexemes, and a text  *)
(* whose arguments end in an opening brace.                                *)
(***************************************************************************)
EXTENDS Documents

\* One field of the core that erc20 registers again, one of the AMM, and one that
\* two packages of "all" claim.
FewNames ==
  [p \in ToSet(AllPackages) \cup {"core"} |->
     CASE p \in {"core", "erc20"} -> {"tokens"} [] p = "amm" -> {"pools"}
       [] p \in {"fhe", "key"} -> {"keyShare"} [] OTHER -> {}]

F(a, n, args, sel) == [alias |-> a, name |-> n, args |-> args, sel |-> sel]
B(k, x) == <<k, [kind |-> "bare", is |-> <<x>>]>>
S(k, t) == <<k, [kind |-> "quoted", is |-> t]>>
O(k, a) == <<k, [kind |-> "object", is |-> a]>>

Id     == <<"{", "id", "}">>
Nested == <<"{", "id", " ", "token", "{", "id", "}", "}">>
Inner  == <<"{", "day", "(", "of", ":", Quote, "}", Quote, ")", "{", "id", "}", "}">>
Deep   == <<"{", "a", "{", "b", "{", "id", "}", "}", "}">>

\* Bare, aliased and colliding fields; strings that hold brackets, a colon and a
\* comma; nested objects; a selection whose own arguments quote a brace.
MCFields ==
  { F("", "tokens", <<>>, <<>>),
    F("", "pools", <<>>, Nested),
    F("mine", "pools", <<B("first", "1"), B("first", "2")>>, Id),
    F("his", "pools", <<S("id", <<"x", ")", ",", "{", ":">>)>>, Inner),
    F("", "keyShare", <<O("where", <<S("pool", <<"x", ":">>), O("in", <<B("a", "1")>>)>>), B("first", "2")>>, <<>>),
    F("", "pools", <<O("where", <<B("day", "1")>>), S("id", <<>>)>>, Id),
    F("", "nosuch", <<>>, Id),
    F("", "tokens", <<>>, Deep) }

MCDocuments ==
  [1 .. 1 -> MCFields] \cup [1 .. 2 -> MCFields] \cup [1 .. 3 -> {f \in MCFields : f.alias # ""}]

Lay(op, sep, gap, comma, pad) == [op |-> op, sep |-> sep, gap |-> gap, comma |-> comma, pad |-> pad]
MCLayouts ==
  { Lay(<<>>, <<>>, <<>>, <<",">>, <<>>),
    Lay(<<"query", " ">>, <<"\n", " ">>, <<" ">>, <<",", "\n">>, <<" ">>),
    Lay(<<>>, <<",">>, <<" ">>, <<" ", ",", " ">>, <<"\n">>),
    Lay(<<"mutation", " ">>, <<" ">>, <<>>, <<",">>, <<>>) }

\* Braces that balance only outside the parentheses, the last of them a value.
Crossed == <<"{", "pools", "(", "a", ":", "1", "}", ",", "b", ":", "{", ")", "}">>

MCRequests ==
  {Request(d, L, c) : d \in MCDocuments, L \in MCLayouts, c \in 0 .. 4} \cup {Stray(Crossed)}

\* Every truncated document is what TruncatedRefused is about, and no whole one is.
ASSUME CutsAreUnfinished == \A a \in Requests : Unfinished(a.text) <=> a.cut > 0
=============================================================================
