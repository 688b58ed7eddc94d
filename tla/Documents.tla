----------------------------- MODULE Documents -----------------------------
(***************************************************************************)
(* The documents clients write for the engine of module Query, and what    *)
(* they should be answered with.  A document is a sequence of fields, a    *)
(* layout says what is put between their lexemes, and a truncated document *)
(* is sent without its last ones.                                          *)
(***************************************************************************)
EXTENDS Query

(* What a client writes: fields with an alias (or ""), a name, arguments   *)
(* and the lexemes of a selection set.  An argument is a key and a value,  *)
(* which is bare, quoted or an object of further arguments.                *)

RECURSIVE WriteArgs(_, _)
WriteArgs(args, L) ==
  LET Value(v) == CASE v.kind = "bare"   -> v.is
                    [] v.kind = "quoted" -> <<Quote>> \o v.is \o <<Quote>>
                    [] v.kind = "object" -> <<"{">> \o WriteArgs(v.is, L) \o <<"}">>
      Pair(a)  == <<a[1], ":">> \o L.pad \o Value(a[2])
  IN  L.pad \o FoldLeft(LAMBDA t, n : t \o (IF n = 1 THEN <<>> ELSE L.comma) \o Pair(args[n]),
                        <<>>, [n \in 1 .. Len(args) |-> n]) \o L.pad

WriteField(f, L) ==
  (IF f.alias = "" THEN <<>> ELSE <<f.alias>> \o L.gap \o <<":">> \o L.pad) \o <<f.name>>
  \o (IF f.args = <<>> THEN <<>> ELSE L.gap \o <<"(">> \o WriteArgs(f.args, L) \o <<")">>)
  \o (IF f.sel = <<>> THEN <<>> ELSE L.gap \o f.sel)

\* Two names need something between them; after a bracket nothing is needed.
Write(doc, L) ==
  L.op \o <<"{">> \o L.pad
  \o FoldLeft(LAMBDA t, f : t \o WriteField(f, L)
                              \o (IF L.sep = <<>> /\ f.args \o f.sel = <<>> THEN <<" ">> ELSE L.sep),
              <<>>, doc)
  \o <<"}">>

RECURSIVE ArgsMean(_)
ArgsMean(args) ==
  LET Mean(v) == IF v.kind = "object" THEN Obj(ArgsMean(v.is)) ELSE Str(v.is) IN
    FoldLeft(LAMBDA known, a : (<<a[1]>> :> Mean(a[2])) @@ known, Empty, args)

RECURSIVE ArgsDepth(_)
ArgsDepth(args) ==
  Max({0} \cup {1 + ArgsDepth(args[n][2].is) : n \in {m \in DOMAIN args : args[m][2].kind = "object"}})

KeyOf(f) == IF f.alias = "" THEN <<f.name>> ELSE <<f.alias>>

\* What a document should be answered with: of two fields of one key, the last.
Meaning(doc) ==
  FoldLeft(LAMBDA known, f : (KeyOf(f) :> [by |-> resolvers[f.name], args |-> ArgsMean(f.args)]) @@ known,
           Empty, doc)

\* The request that sends doc so, without its last lexemes.
Request(doc, L, cut) ==
  LET text == Write(doc, L) IN
    [doc |-> doc, layout |-> L, cut |-> cut, text |-> SubSeq(text, 1, Len(text) - cut)]

----------------------------------------------------------------------------
\* The answers a whole document may get.
Answers(doc) ==
  LET depth == 1 + Max({Max({ArgsDepth(doc[n].args), queryDepth(doc[n].sel)}) : n \in DOMAIN doc})
  IN  IF depth > MaxQueryDepth THEN {Error("query depth")}
      ELSE IF Len(doc) > maxTopFields THEN {Error("too many top-level fields")}
      ELSE {Error("resolver")} \cup
           (IF \E n \in DOMAIN doc : doc[n].name \notin DOMAIN resolvers
            THEN {Error("unknown field")}
            ELSE {Error("result exceeds maximum size"), Data(Meaning(doc))})

\* A text that is not a document at all.
Stray(text) == [doc |-> <<>>, layout |-> [op |-> <<>>], cut |-> 0, text |-> text]

(* A document means the same in each of the layouts: it is answered, with  *)
(* exactly the fields written, under the keys written, by the resolver     *)
(* registered last, with the arguments written, or refused for what was    *)
(* written (parseTopFields: "the same document pretty-printed or           *)
(* minified"; no field is dropped without an error).                       *)
AnsweredAsWritten ==
  (pc = "answered" /\ asked # None /\ asked.doc # <<>> /\ asked.cut = 0
   /\ Len(Write(asked.doc, asked.layout)) <= MaxQuery) =>
    IF asked.layout.op # <<>> /\ asked.layout.op[1] = "mutation" THEN resp = Error("mutations not allowed")
    ELSE resp \in Answers(asked.doc)

=============================================================================
