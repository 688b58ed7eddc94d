------------------------------- MODULE Query -------------------------------
(***************************************************************************)
(* The GraphQL engine of engine/engine.go: the schema it is started with,  *)
(* the hand-written scanner that splits a document into top-level fields,  *)
(* and the resolvers it calls for them, one after the other.               *)
(*                                                                         *)
(* A document is a sequence of lexemes: the punctuation the scanner tells  *)
(* apart, white space, and everything else, of which only the identity     *)
(* matters (an escaped quote is one lexeme).  Positions are from 1, and 0  *)
(* stands for Go's -1.  Any sequence may be sent; module Documents has the *)
(* ones that clients write, and what they should be answered with.         *)
(***************************************************************************)
EXTENDS Integers, SequencesExt, TLC

CONSTANTS
  Names,          \* Names[p]: the fields package p registers
  Asked,          \* values of the -schema flag, Unset when it is not given
  Requests,       \* what clients send: a text, and what is known of it
  MaxQueryDepth, MaxTopFields,   \* Config
  MaxQuery        \* the longest document that is not "too large"

ASSUME QueryConstants ==
  /\ \A a \in Requests : a.text \in Seq(STRING)
  /\ MaxQueryDepth \in Nat /\ MaxTopFields \in Int /\ MaxQuery \in Nat

Quote  == "\""
Unset  == ""
Spaces == {" ", "\n"}
Empty  == [k \in {} |-> 0]

----------------------------------------------------------------------------
(* The scanner.                                                            *)

\* The first position from i on whose lexeme is in S, past the end if there is none.
Until(s, i, S) == Min({j \in i .. Len(s) : s[j] \in S} \cup {Max({i, Len(s) + 1})})

isSpace(c) == c \in Spaces
At(s, i, c) == i <= Len(s) /\ s[i] = c

scanName(s, i) == Until(s, i, Spaces \cup {"(", "{", ":", ","})

skipSpace(s, i) ==
  Min({j \in i .. Len(s) : ~isSpace(s[j])} \cup {Max({i, Len(s) + 1})})

Trim(s) ==
  LET solid == {j \in 1 .. Len(s) : ~isSpace(s[j])} IN
    IF solid = {} THEN <<>> ELSE SubSeq(s, Min(solid), Max(solid))

Places(s, c)    == {j \in 1 .. Len(s) : s[j] = c}
Index(s, c)     == IF Places(s, c) = {} THEN 0 ELSE Min(Places(s, c))
LastIndex(s, c) == IF Places(s, c) = {} THEN 0 ELSE Max(Places(s, c))

\* The positions from pos on that are outside quoted strings.
Unquoted(s, pos) ==
  {j \in pos .. Len(s) : /\ s[j] # Quote
                         /\ Cardinality({q \in pos .. j : s[q] = Quote}) % 2 = 0}

\* How many brackets of live are open after position j.
Open(s, live, j, opens, closes) ==
    Cardinality({q \in live : q <= j /\ s[q] \in opens})
  - Cardinality({q \in live : q <= j /\ s[q] \in closes})

\* The first `close` of live that leaves no bracket open.
Closing(s, live, close, opens, closes) ==
  LET shut == {j \in live : s[j] = close /\ Open(s, live, j, opens, closes) = 0} IN
    IF shut = {} THEN 0 ELSE Min(shut)

\* Mutant: a selection set that is never closed ends with the text.
braceToEnd(s, pos) ==
  LET closed == Closing(s, Unquoted(s, pos), "}", {"{"}, {"}"}) IN
    IF closed = 0 THEN Len(s) ELSE closed

findMatchingBrace(s, pos) == Closing(s, Unquoted(s, pos), "}", {"{"}, {"}"})

\* Mutant: brackets inside quoted strings count.
parenInQuotes(s, pos) == Closing(s, pos .. Len(s), ")", {"(", "{"}, {")", "}"})

findMatchingParen(s, pos) == Closing(s, Unquoted(s, pos), ")", {"(", "{"}, {")", "}"})

\* The deepest nesting of braces outside quoted strings.
queryDepth(s) ==
  LET live == Unquoted(s, 1) IN
    Max({0} \cup {Open(s, live, j, {"{"}, {"}"}) : j \in live})

\* What parseArgs makes of a value: a string, or an object of further arguments.
Str(t) == [str |-> t]
Obj(f) == [obj |-> f]
NoArgs == [args |-> Empty, panics |-> FALSE]

\* The key-value pairs of the text between two parentheses or braces; the last
\* value of a key stays.  A quoted value ends at the next quote, an object at its
\* closing brace whatever is quoted, or with the text, any other at a comma.  Of
\* an opening brace that ends the text there is nothing left to slice: s[1:0] panics.
parseArgs[text \in Seq(STRING)] ==
  LET s     == Trim(text)
      colon == Index(s, ":")
      key   == Trim(SubSeq(s, 1, colon - 1))
      v     == Trim(SubSeq(s, colon + 1, Len(s)))
      n     == Len(v)
      brace == Closing(v, 1 .. n, "}", {"{"}, {"}"})
      end   == CASE v[1] = Quote -> Until(v, 2, {Quote})
                 [] v[1] = "{"   -> IF brace = 0 THEN n ELSE brace
                 [] OTHER        -> Until(v, 1, {","}) - 1
      inner == parseArgs[SubSeq(v, 2, end - 1)]
      val   == CASE v[1] = Quote -> Str(SubSeq(v, 2, end - 1))
                 [] v[1] = "{"   -> Obj(inner.args)
                 [] OTHER        -> Str(Trim(SubSeq(v, 1, end)))
      rest  == Trim(SubSeq(v, end + 1, n))
      more  == parseArgs[IF At(rest, 1, ",") THEN Tail(rest) ELSE rest]
  IN  IF colon = 0 \/ v = <<>> THEN NoArgs
      ELSE [args   |-> more.args @@ (key :> val),
            panics |-> v = <<"{">> \/ (v[1] = "{" /\ inner.panics) \/ more.panics]

\* One field's text: an alias when a colon comes before any bracket, the name up
\* to a bracket or a blank, the arguments from the first parenthesis.
parseField(text) ==
  LET s     == Trim(text)
      colon == Index(s, ":")
      named == colon > 1 /\ \A j \in 1 .. colon - 1 : s[j] \notin {"(", "{"}
      t     == IF named THEN Trim(SubSeq(s, colon + 1, Len(s))) ELSE s
      open  == Index(t, "(")
      close == IF open = 0 THEN 0 ELSE findMatchingParen(t, open)
      found == IF close > open THEN parseArgs[SubSeq(t, open + 1, close - 1)] ELSE NoArgs
  IN  [alias |-> IF named THEN Trim(SubSeq(s, 1, colon - 1)) ELSE <<>>,
       name  |-> SubSeq(t, 1, Until(t, 1, {"(", "{", " "}) - 1),
       args  |-> found.args, panics |-> found.panics]

\* Past the name at i, and past `alias: name`.
scanNames(s, i) ==
  LET j == skipSpace(s, scanName(s, i)) IN
    IF At(s, j, ":") THEN skipSpace(s, scanName(s, skipSpace(s, j + 1))) ELSE j

Ends(k) == [end |-> k, err |-> "nil"]
Bad(e)  == [end |-> 0, err |-> e]

\* Mutant: an unmatched bracket is not noticed.
scanFieldUnchecked(s, start) ==
  LET i == scanNames(s, start)
      j == IF At(s, i, "(") THEN skipSpace(s, findMatchingParen(s, i) + 1) ELSE i
  IN  Ends(IF At(s, j, "{") THEN findMatchingBrace(s, j) + 1 ELSE j)

\* Where the field that starts at `start` ends, or why the document is refused.
scanField(s, start) ==
  LET i      == scanNames(s, start)
      closed == findMatchingParen(s, i)
      j      == IF At(s, i, "(") THEN skipSpace(s, closed + 1) ELSE i
      shut   == findMatchingBrace(s, j)
      k      == IF At(s, j, "{") THEN shut + 1 ELSE j
  IN  IF At(s, i, "(") /\ closed <= i    THEN Bad("unclosed arguments")
      ELSE IF At(s, j, "{") /\ shut <= j THEN Bad("unclosed selection set")
      ELSE IF k = start                  THEN Bad("cannot parse field")
      ELSE Ends(k)

----------------------------------------------------------------------------
(* The schemas.                                                            *)

\* The packages of "all", in the order it registers them.
AllPackages ==
  << "amm", "v4", "erc20", "erc721", "dex", "fhe", "platform", "exchange", "utxo", "bridge",
     "privacy", "quantum", "key", "mpc", "ai", "identity", "oracle", "relay", "zk",
     "servicenode", "precompile", "governance", "dao", "treasury", "liquid", "did",
     "prediction", "securities", "derivatives", "liquidity", "liquidprotocol" >>

\* Schemas that are not called what their package is called.
Spelled ==
  [amm |-> {"amm-v2", "uniswap-v2", "amm-v3", "uniswap-v3"}, fhe |-> {"threshold"},
   platform |-> {"pchain"}, exchange |-> {"xchain"}, zk |-> {"zchain"}, mpc |-> {"mchain"},
   bridge |-> {"bchain"}, quantum |-> {"qchain"}, key |-> {"kchain"}, ai |-> {"achain"},
   identity |-> {"ichain"}, oracle |-> {"ochain"}, relay |-> {"rchain"},
   servicenode |-> {"schain"}, precompile |-> {"precompiles"}, liquid |-> {"liquid-staking"},
   liquidity |-> {"liquidity-protocol", "omnichain"},
   liquidprotocol |-> {"liquid-protocol", "teleport", "liquid-vault"}, did |-> {"did-registry"},
   prediction |-> {"prediction-market"}, securities |-> {"security-token"},
   derivatives |-> {"futures", "options"}]

\* What LoadBuiltin registers for a schema, nothing for one it does not know.
LoadBuiltin(schema) ==
  CASE schema = "all" -> AllPackages
    [] schema \in {"v4", "amm-v4", "uniswap-v4"} -> <<"amm", "v4">>
    [] schema \in ToSet(AllPackages) \ {"v4", "liquidprotocol"} -> <<schema>>
    [] OTHER -> SetToSeq({p \in DOMAIN Spelled : schema \in Spelled[p]})

\* The engine's own resolvers, then the packages': a later one of a name replaces
\* an earlier one.
Registered(packages) ==
  FoldLeft(LAMBDA known, p : [f \in Names[p] |-> p] @@ known, Empty, <<"core">> \o packages)

----------------------------------------------------------------------------
VARIABLES
  resolvers,   \* resolvers[f]: the package that answers field f
  pc,          \* "load", "exited", "idle", "scan", "resolve" or "answered"
  asked,       \* history: the request being answered
  body,        \* body: the document inside its outermost braces
  i,           \* i: where the scanner is
  fields,      \* fields
  done,        \* how many of them have been resolved
  data,        \* data
  resp         \* the last response: data, one error, or none

vars == <<resolvers, pc, asked, body, i, fields, done, data, resp>>

Error(e) == [error |-> e]
Data(d)  == [data |-> d]
None     == [none |-> TRUE]

Init ==
  /\ resolvers = Empty
  /\ pc = "load"
  /\ asked = None
  /\ body = <<>> /\ i = 1 /\ fields = <<>> /\ done = 0 /\ data = Empty
  /\ resp = None

\* main loads the schema of its flag, the AMM when there is none, and exits on one
\* the engine does not know, as it does on any -config file (LoadConfig only fails).
LoadSchema(schema) ==
  LET packages == LoadBuiltin(IF schema = Unset THEN "amm" ELSE schema) IN
    /\ pc = "load"
    /\ pc' = IF packages = <<>> THEN "exited" ELSE "idle"
    /\ resolvers' = Registered(packages)
    /\ UNCHANGED <<asked, body, i, fields, done, data, resp>>

\* The response is written, if there is one; what the request built is dropped.
Answer(r) ==
  /\ resp' = r
  /\ pc' = "answered"
  /\ body' = <<>> /\ i' = 1 /\ fields' = <<>> /\ done' = 0 /\ data' = Empty

\* The body of the POST is not JSON.
BadRequest ==
  /\ pc = "idle"
  /\ asked' = None
  /\ Answer(Error("invalid JSON"))
  /\ UNCHANGED resolvers

maxTopFields == IF MaxTopFields <= 0 THEN 64 ELSE MaxTopFields

----------------------------------------------------------------------------
(* Execute, one step per pass of its loops.                                *)

\* What is inside the outermost braces.
Body(query) == Trim(SubSeq(query, Index(query, "{") + 1, LastIndex(query, "}") - 1))

\* What parseTopFields refuses before it scans a field.
Shapeless(query) ==
  IF Index(query, "{") = 0 \/ LastIndex(query, "}") <= Index(query, "{") THEN "missing braces"
  ELSE IF Body(query) = <<>> THEN "empty selection set"
  ELSE "nil"

\* What Execute refuses, in this order.
Refusal(query) ==
  IF query = <<>>                           THEN "empty query"
  ELSE IF Len(query) > MaxQuery             THEN "query too large"
  ELSE IF query[1] = "mutation"             THEN "mutations not allowed"
  ELSE IF queryDepth(query) > MaxQueryDepth THEN "query depth"
  ELSE Shapeless(query)

Execute(a) ==
  LET query == Trim(a.text) IN
    /\ pc = "idle"
    /\ asked' = a
    /\ UNCHANGED resolvers
    /\ IF Refusal(query) # "nil" THEN Answer(Error(Refusal(query)))
       ELSE /\ pc' = "scan"
            /\ body' = Body(query)
            /\ UNCHANGED <<i, fields, done, data, resp>>

Separator == isSpace(body[i]) \/ body[i] = ","

SkipSeparator ==
  /\ pc = "scan" /\ i <= Len(body) /\ Separator
  /\ i' = i + 1
  /\ UNCHANGED <<resolvers, pc, asked, body, fields, done, data, resp>>

\* One field.  A text with no name in it is passed over.  A panic takes the request
\* and no more: the HTTP server recovers it and closes the connection unanswered.
ScanField ==
  /\ pc = "scan" /\ i <= Len(body) /\ ~Separator
  /\ UNCHANGED <<resolvers, asked>>
  /\ LET scan == scanField(body, i)
         f    == parseField(SubSeq(body, i, scan.end - 1))
     IN  IF scan.err # "nil" THEN Answer(Error(scan.err))
         ELSE IF f.panics THEN Answer(None)
         ELSE /\ i' = scan.end
              /\ fields' = IF f.name = <<>> THEN fields ELSE Append(fields, f)
              /\ UNCHANGED <<pc, body, done, data, resp>>

\* Mutant: the cap on top-level fields is not applied.
ScanEndsUncapped ==
  /\ pc = "scan" /\ i > Len(body)
  /\ UNCHANGED <<resolvers, asked>>
  /\ IF fields = <<>> THEN Answer(Error("no fields"))
     ELSE /\ pc' = "resolve"
          /\ UNCHANGED <<body, i, fields, done, data, resp>>

\* The document is through: it needs a field, and not too many.
ScanEnds ==
  /\ pc = "scan" /\ i > Len(body)
  /\ UNCHANGED <<resolvers, asked>>
  /\ IF fields = <<>> THEN Answer(Error("no fields"))
     ELSE IF Len(fields) > maxTopFields THEN Answer(Error("too many top-level fields"))
     ELSE /\ pc' = "resolve"
          /\ UNCHANGED <<body, i, fields, done, data, resp>>

Known(f) == Len(f.name) = 1 /\ f.name[1] \in DOMAIN resolvers

\* Mutant: the answer goes under the field's name, alias or not.
ResolveUnaliased ==
  /\ pc = "resolve" /\ done < Len(fields)
  /\ LET f == fields[done + 1] IN
       /\ Known(f)
       /\ data' = (f.name :> [by |-> resolvers[f.name[1]], args |-> f.args]) @@ data
  /\ done' = done + 1
  /\ UNCHANGED <<resolvers, pc, asked, body, i, fields, resp>>

Resolve ==
  /\ pc = "resolve" /\ done < Len(fields)
  /\ LET f   == fields[done + 1]
         key == IF f.alias = <<>> THEN f.name ELSE f.alias
     IN  /\ Known(f)
         /\ data' = (key :> [by |-> resolvers[f.name[1]], args |-> f.args]) @@ data
  /\ done' = done + 1
  /\ UNCHANGED <<resolvers, pc, asked, body, i, fields, resp>>

\* An unknown field, or a resolver that fails (a missing id, the store, the deadline):
\* the whole document is answered with the error.
ResolveFails ==
  /\ pc = "resolve" /\ done < Len(fields)
  /\ UNCHANGED <<resolvers, asked>>
  /\ Answer(Error(IF Known(fields[done + 1]) THEN "resolver" ELSE "unknown field"))

\* Every field is resolved; the encoded answer may still be too long.
Respond ==
  /\ pc = "resolve" /\ done = Len(fields)
  /\ UNCHANGED <<resolvers, asked>>
  /\ Answer(Data(data)) \/ Answer(Error("result exceeds maximum size"))

\* The handler returns; the engine keeps nothing of a request.
Return ==
  /\ pc = "answered"
  /\ pc' = "idle" /\ asked' = None /\ resp' = None
  /\ UNCHANGED <<resolvers, body, i, fields, done, data>>

Next ==
  \/ \E schema \in Asked : LoadSchema(schema)
  \/ BadRequest
  \/ \E a \in Requests : Execute(a)
  \/ SkipSeparator \/ ScanField \/ ScanEnds
  \/ Resolve \/ ResolveFails \/ Respond \/ Return

Spec == Init /\ [][Next]_vars

----------------------------------------------------------------------------
(* Type correctness: the scanner stays within its text, whatever was cut   *)
(* off it, and never resolves more fields than it found.                   *)
TypeOK ==
  /\ pc \in {"load", "exited", "idle", "scan", "resolve", "answered"}
  /\ i \in 1 .. Len(body) + 1
  /\ done \in 0 .. Len(fields)
  /\ DOMAIN resp \subseteq {"data", "error", "none"}
  /\ pc = "resolve" => Len(fields) \in 1 .. maxTopFields
  /\ pc \notin {"scan", "resolve"} => i = 1 /\ fields = <<>> /\ done = 0

\* A text that stops before its end: it has no brace at all, or its first one is never
\* closed.  What there is of it nests: no bracket is closed that was not opened,
\* strings stand inside arguments, and a selection set that is closed holds as many
\* opening as closing parentheses.
Unfinished(text) ==
  LET q        == Trim(text)
      first    == Index(q, "{")
      live     == Unquoted(q, first)
      Depth(j) == Open(q, live, j, {"(", "{"}, {")", "}"})
      Shut(p)  == Closing(q, {j \in live : j >= p}, "}", {"{"}, {"}"})
  IN  \/ first = 0
      \/ /\ \A j \in live : Depth(j) > 0
         /\ \A j \in first .. Len(q) : q[j] = Quote => Depth(j) > 1
         /\ \A p \in live : q[p] = "{" /\ Shut(p) # 0 => Depth(Shut(p)) = Depth(p) - 1

(* A truncated document is never answered with the fields it still has,    *)
(* wherever it stops (parseTopFields must give no partial answer with "no  *)
(* sign anything was missing"), although the scanner takes the last brace  *)
(* it finds, be it a field's or one in a string, for the document's.  (One *)
(* that parseArgs panics on is not answered at all.)                       *)
TruncatedRefused ==
  (asked # None /\ resp # None) => (Unfinished(asked.text) => DOMAIN resp = {"error"})

(* parseTopFields: "Every pass must consume something." *)
ScanAdvances == [][pc = "scan" /\ pc' = "scan" => i' > i]_vars

=============================================================================
