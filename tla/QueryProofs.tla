---------------------------- MODULE QueryProofs ----------------------------
(***************************************************************************)
(* What holds of the engine's scanner for every text a client may send,    *)
(* well formed or not: it stays inside the text, every pass consumes some  *)
(* of it, no document gets more fields than the cap, and a document that   *)
(* ends before its first brace is closed is refused.                       *)
(***************************************************************************)
EXTENDS Query, SequenceTheorems, FiniteSetTheorems, WellFoundedInduction, TLAPS

-----------------------------------------------------------------------------
(***************************************************************************)
(* First and last of a set of positions                                    *)
(***************************************************************************)
\* A set of positions that is not empty has a first one, which Min is.
LEMMA MinIsLeast ==
  ASSUME NEW S \in SUBSET Nat, S # {}
  PROVE  Min(S) \in S /\ \A x \in S : Min(S) <= x
  <1>. DEFINE R == OpToRel(<, Nat)
  <1>1. IsWellFoundedOn(R, Nat)
    BY NatLessThanWellFounded, Zenon
  <1>2. \A x, y \in Nat : <<x, y>> \in R <=> x < y
    BY DEF OpToRel
  <1>. HIDE DEF R
  <1>3. PICK m \in S : \A x \in S : ~ (<<x, m>> \in R)
    BY <1>1, WFMin
  <1>4. \A x \in S : ~ (x < m)
    BY <1>2, <1>3
  <1>5. m \in Nat /\ \A x \in S : x \in Nat
    OBVIOUS
  <1>6. \A x \in S : m <= x
    BY <1>4, <1>5
  <1>. QED BY <1>6 DEF Min

\* A bounded one has a last one, which Max is.
LEMMA MaxIsGreatest ==
  ASSUME NEW S \in SUBSET Nat, S # {}, NEW b \in Nat, \A x \in S : x <= b
  PROVE  Max(S) \in S /\ \A x \in S : x <= Max(S)
  <1>. DEFINE D == {b - x : x \in S}
  <1>1. PICK y \in S : TRUE
    OBVIOUS
  <1>2. D \in SUBSET Nat /\ D # {}
    <2>1. \A x \in S : b - x \in Nat
      OBVIOUS
    <2>2. b - y \in D
      BY <1>1
    <2>. QED BY <2>1, <2>2
  <1>3. PICK d \in D : \A e \in D : d <= e
    <2>. HIDE DEF D
    <2>. QED BY <1>2, MinIsLeast
  <1>4. PICK m \in S : d = b - m
    OBVIOUS
  <1>5. \A x \in S : b - m <= b - x
    BY <1>3, <1>4
  <1>6. \A x \in S : m >= x
    <2>1. m \in Nat /\ \A x \in S : x \in Nat
      OBVIOUS
    <2>. QED BY <1>5, <2>1
  <1>7. \E x \in S : \A z \in S : x >= z
    BY <1>6
  <1>8. Max(S) \in S /\ \A z \in S : Max(S) >= z
    BY <1>7 DEF Max
  <1>9. \A x \in S : x \in Nat
    OBVIOUS
  <1>. QED BY <1>8, <1>9

-----------------------------------------------------------------------------
(***************************************************************************)
(* The scanner's helpers stay in their text                                *)
(***************************************************************************)
Text == Seq(STRING)

\* A search that starts in the text, or just past it, ends there.
LEMMA FirstFrom ==
  ASSUME NEW n \in Nat, NEW p \in 1 .. n + 1, NEW H \in SUBSET (p .. n)
  PROVE  Min(H \cup {Max({p, n + 1})}) \in p .. n + 1
  <1>1. Max({p, n + 1}) = n + 1
    <2>1. {p, n + 1} \in SUBSET Nat /\ \A x \in {p, n + 1} : x <= n + 1
      OBVIOUS
    <2>2. Max({p, n + 1}) \in {p, n + 1} /\ \A x \in {p, n + 1} : x <= Max({p, n + 1})
      BY <2>1, MaxIsGreatest
    <2>. QED BY <2>2
  <1>. DEFINE S == H \cup {n + 1}
  <1>2. S \in SUBSET Nat /\ S # {} /\ S \subseteq p .. n + 1
    OBVIOUS
  <1>. HIDE DEF S
  <1>3. Min(S) \in S
    BY <1>2, MinIsLeast
  <1>. QED BY <1>1, <1>2, <1>3 DEF S

\* scanName and skipSpace do.
LEMMA ScansForward ==
  ASSUME NEW s \in Text, NEW p \in 1 .. Len(s) + 1
  PROVE  scanName(s, p) \in p .. Len(s) + 1 /\ skipSpace(s, p) \in p .. Len(s) + 1
  <1>1. Len(s) \in Nat
    BY DEF Text
  <1>2. \A C : {j \in p .. Len(s) : s[j] \in C} \in SUBSET (p .. Len(s))
    OBVIOUS
  <1>3. scanName(s, p) \in p .. Len(s) + 1
    BY <1>1, <1>2, FirstFrom DEF scanName, Until
  <1>4. {j \in p .. Len(s) : ~isSpace(s[j])} \in SUBSET (p .. Len(s))
    OBVIOUS
  <1>5. skipSpace(s, p) \in p .. Len(s) + 1
    BY <1>1, <1>4, FirstFrom DEF skipSpace
  <1>. QED BY <1>3, <1>5

\* A closing bracket is found in the text after the position, or not at all.
LEMMA ClosesInside ==
  ASSUME NEW s \in Text, NEW p \in 1 .. Len(s) + 1
  PROVE  /\ findMatchingParen(s, p) \in {0} \cup p .. Len(s)
         /\ findMatchingBrace(s, p) \in {0} \cup p .. Len(s)
  <1>1. Len(s) \in Nat /\ Unquoted(s, p) \subseteq p .. Len(s)
    BY DEF Unquoted, Text
  <1>2. ASSUME NEW c, NEW O, NEW C
        PROVE  Closing(s, Unquoted(s, p), c, O, C) \in {0} \cup p .. Len(s)
    <2>. DEFINE shut == {j \in Unquoted(s, p) :
                           s[j] = c /\ Open(s, Unquoted(s, p), j, O, C) = 0}
    <2>1. Closing(s, Unquoted(s, p), c, O, C) = IF shut = {} THEN 0 ELSE Min(shut)
      BY DEF Closing
    <2>2. shut \in SUBSET Nat /\ shut \subseteq p .. Len(s)
      BY <1>1
    <2>. HIDE DEF shut
    <2>3. CASE shut = {}
      BY <2>1, <2>3
    <2>4. CASE shut # {}
      <3>1. Min(shut) \in shut
        BY <2>2, <2>4, MinIsLeast
      <3>. QED BY <2>1, <2>2, <2>4, <3>1
    <2>. QED BY <2>3, <2>4
  <1>. QED BY <1>2 DEF findMatchingParen, findMatchingBrace

\* A field that is accepted ends past its start and within the text.
LEMMA FieldAdvances ==
  ASSUME NEW s \in Text, NEW start \in 1 .. Len(s), scanField(s, start).err = "nil"
  PROVE  scanField(s, start).end \in start + 1 .. Len(s) + 1
  <1>. DEFINE n == Len(s)
              a == scanNames(s, start)
              closed == findMatchingParen(s, a)
              args == At(s, a, "(")
              j == IF args THEN skipSpace(s, closed + 1) ELSE a
              shut == findMatchingBrace(s, j)
              sel == At(s, j, "{")
              k == IF sel THEN shut + 1 ELSE j
  <1>0. n \in Nat
    BY DEF Text
  <1>1. a \in start .. n + 1
    <2>. DEFINE b == scanName(s, start)
                c == skipSpace(s, b)
                d == skipSpace(s, c + 1)
                e == scanName(s, d)
    <2>1. b \in start .. n + 1
      BY <1>0, ScansForward
    <2>2. c \in start .. n + 1
      BY <1>0, <2>1, ScansForward
    <2>3. CASE ~At(s, c, ":")
      BY <2>2, <2>3 DEF scanNames
    <2>4. CASE At(s, c, ":")
      <3>1. c + 1 \in start .. n + 1
        BY <1>0, <2>2, <2>4 DEF At
      <3>2. d \in start .. n + 1
        BY <1>0, <3>1, ScansForward
      <3>3. e \in start .. n + 1
        BY <1>0, <3>2, ScansForward
      <3>4. skipSpace(s, e) \in start .. n + 1
        BY <1>0, <3>3, ScansForward
      <3>. QED BY <2>4, <3>4 DEF scanNames
    <2>. QED BY <2>3, <2>4
  <1>2. scanField(s, start) =
          IF args /\ closed <= a THEN Bad("unclosed arguments")
          ELSE IF sel /\ shut <= j THEN Bad("unclosed selection set")
          ELSE IF k = start THEN Bad("cannot parse field") ELSE Ends(k)
    BY DEF scanField
  <1>. HIDE DEF a, n, args, sel
  <1>3. ~(args /\ closed <= a) /\ ~(sel /\ shut <= j) /\ k # start /\ scanField(s, start).end = k
    <2>. HIDE DEF closed, j, shut, k
    <2>1. /\ Bad("unclosed arguments").err # "nil"
          /\ Bad("unclosed selection set").err # "nil"
          /\ Bad("cannot parse field").err # "nil"
      BY Zenon DEF Bad
    <2>2. Ends(k).end = k
      BY DEF Ends
    <2>. QED BY <1>2, <2>1, <2>2, Zenon
  <1>4. j \in a .. n + 1
    <2>1. CASE ~args
      BY <1>1, <2>1
    <2>2. CASE args
      <3>1. closed \in {0} \cup a .. n
        BY <1>0, <1>1, ClosesInside DEF n
      <3>2. closed + 1 \in a .. n + 1 /\ closed + 1 \in 1 .. n + 1
        <4>. HIDE DEF closed
        <4>. QED BY <1>0, <1>1, <1>3, <2>2, <3>1
      <3>3. skipSpace(s, closed + 1) \in closed + 1 .. n + 1
        BY <3>2, ScansForward DEF n
      <3>. HIDE DEF closed
      <3>. QED BY <1>0, <1>1, <2>2, <3>2, <3>3
    <2>. QED BY <2>1, <2>2
  <1>. HIDE DEF j
  <1>5. k \in start .. n + 1
    <2>1. CASE ~sel
      BY <1>0, <1>1, <1>4, <2>1
    <2>2. CASE sel
      <3>1. j \in 1 .. n + 1
        BY <1>0, <1>1, <1>4
      <3>2. shut \in {0} \cup j .. n
        BY <3>1, ClosesInside DEF n
      <3>. HIDE DEF shut
      <3>. QED BY <1>0, <1>1, <1>3, <1>4, <2>2, <3>2
    <2>. QED BY <2>1, <2>2
  <1>. HIDE DEF k
  <1>. QED BY <1>0, <1>3, <1>5 DEF n

\* A cut of a text is a text.
LEMMA CutType ==
  ASSUME NEW s \in Text, NEW m \in 1 .. Len(s) + 1, NEW x \in 0 .. Len(s)
  PROVE  SubSeq(s, m, x) \in Text
  <1>1. Len(s) \in Nat /\ \A p \in 1 .. Len(s) : s[p] \in STRING
    BY DEF Text
  <1>2. m \in Int /\ x \in Int /\ \A p \in m .. x : s[p] \in STRING
    BY <1>1
  <1>. QED BY <1>2, SubSeqProperties, Zenon DEF Text

\* Trimming a text gives a text.
LEMMA TrimType ==
  ASSUME NEW s \in Text
  PROVE  Trim(s) \in Text
  <1>. DEFINE solid == {j \in 1 .. Len(s) : ~isSpace(s[j])}
  <1>1. Len(s) \in Nat /\ solid \in SUBSET Nat /\ solid \subseteq 1 .. Len(s)
    BY DEF Text
  <1>2. Trim(s) = IF solid = {} THEN <<>> ELSE SubSeq(s, Min(solid), Max(solid))
    BY DEF Trim
  <1>. HIDE DEF solid
  <1>3. CASE solid = {}
    BY <1>2, <1>3 DEF Text
  <1>4. CASE solid # {}
    <2>1. Min(solid) \in solid /\ \A x \in solid : Min(solid) <= x
      BY <1>1, <1>4, MinIsLeast
    <2>2. Max(solid) \in solid
      <3>1. \A x \in solid : x <= Len(s)
        BY <1>1
      <3>. QED BY <1>1, <1>4, <3>1, MaxIsGreatest
    <2>. DEFINE m == Min(solid)
                x == Max(solid)
    <2>3. m \in 1 .. Len(s) /\ x \in 1 .. Len(s)
      BY <1>1, <2>1, <2>2
    <2>. HIDE DEF m, x
    <2>4. SubSeq(s, m, x) \in Text
      <3>1. m \in 1 .. Len(s) + 1 /\ x \in 0 .. Len(s)
        BY <1>1, <2>3
      <3>. QED BY <3>1, CutType
    <2>. QED BY <1>2, <1>4, <2>4 DEF m, x
  <1>. QED BY <1>3, <1>4

\* A character that strings.Index or strings.LastIndex finds is in the text.
LEMMA IndexInside ==
  ASSUME NEW q \in Text, NEW c
  PROVE  (Index(q, c) # 0 => Index(q, c) \in 1 .. Len(q)) /\ LastIndex(q, c) \in 0 .. Len(q)
  <1>. DEFINE P == Places(q, c)
  <1>1. Len(q) \in Nat /\ P \in SUBSET Nat /\ P \subseteq 1 .. Len(q)
    BY DEF Places, Text
  <1>2. /\ Index(q, c) = IF P = {} THEN 0 ELSE Min(P)
        /\ LastIndex(q, c) = IF P = {} THEN 0 ELSE Max(P)
    BY DEF Index, LastIndex
  <1>. HIDE DEF P
  <1>3. CASE P = {}
    BY <1>1, <1>2, <1>3
  <1>4. CASE P # {}
    <2>1. \A x \in P : x <= Len(q)
      BY <1>1
    <2>2. Min(P) \in P /\ Max(P) \in P
      BY <1>1, <1>4, <2>1, MinIsLeast, MaxIsGreatest
    <2>3. Min(P) \in 1 .. Len(q) /\ Max(P) \in 1 .. Len(q)
      BY <1>1, <2>2
    <2>4. Max(P) \in 0 .. Len(q)
      BY <1>1, <2>3
    <2>. QED BY <1>2, <1>4, <2>3, <2>4
  <1>. QED BY <1>3, <1>4

\* What is between the outermost braces of a document that has them is a text.
LEMMA BodyType ==
  ASSUME NEW q \in Text, Shapeless(q) = "nil"
  PROVE  Body(q) \in Text
  <1>. DEFINE a == Index(q, "{")
              b == LastIndex(q, "}")
  <1>1. a # 0 /\ ~(b <= a)
    BY DEF Shapeless
  <1>2. Len(q) \in Nat
    BY DEF Text
  <1>3. a \in 1 .. Len(q)
    BY <1>1, IndexInside, Zenon
  <1>4. b \in 0 .. Len(q)
    BY IndexInside, Zenon
  <1>. HIDE DEF a, b
  <1>. DEFINE m == a + 1
              x == b - 1
  <1>5. m \in 1 .. Len(q) + 1 /\ x \in 0 .. Len(q)
    BY <1>1, <1>2, <1>3, <1>4
  <1>6. SubSeq(q, m, x) \in Text
    <2>. HIDE DEF m, x
    <2>. QED BY <1>5, CutType
  <1>7. SubSeq(q, a + 1, b - 1) \in Text
    BY <1>6
  <1>8. Trim(SubSeq(q, a + 1, b - 1)) \in Text
    BY <1>7, TrimType
  <1>. QED BY <1>8 DEF Body, a, b

-----------------------------------------------------------------------------
(***************************************************************************)
(* The engine                                                              *)
(***************************************************************************)
\* What parseField may make of a text.
Parsed == {parseField(t) : t \in Text}

\* TypeOK, with the sequences its numbers are about.
ScanInv ==
  /\ TypeOK
  /\ body \in Text
  /\ fields \in Seq(Parsed)

\* A request that is answered leaves nothing behind.
LEMMA AnswerKeeps ==
  ASSUME NEW r, DOMAIN r \subseteq {"data", "error", "none"}, Answer(r)
  PROVE  ScanInv'
  <1>1. /\ resp' = r /\ pc' = "answered" /\ body' = <<>> /\ i' = 1 /\ fields' = <<>> /\ done' = 0
    BY DEF Answer
  <1>2. <<>> \in Text /\ <<>> \in Seq(Parsed) /\ Len(<<>>) = 0
    BY DEF Text
  <1>. QED BY <1>1, <1>2 DEF ScanInv, TypeOK

\* An error is a response of the one field.
LEMMA ErrorShape ==
  ASSUME NEW e
  PROVE  /\ DOMAIN Error(e) \subseteq {"data", "error", "none"}
         /\ DOMAIN Data(e) \subseteq {"data", "error", "none"}
  BY DEF Error, Data

\* One field more: a pass of parseTopFields that is not refused.
LEMMA FieldStep ==
  ASSUME ScanInv, ScanField
  PROVE  /\ ScanInv'
         /\ pc' = "scan" => i' > i
  <1>. DEFINE scan == scanField(body, i)
              t == SubSeq(body, i, scan.end - 1)
              f == parseField(t)
  <1>0. /\ pc = "scan" /\ body \in Text /\ Len(body) \in Nat /\ i \in 1 .. Len(body)
        /\ fields \in Seq(Parsed) /\ done \in 0 .. Len(fields)
    BY DEF ScanField, ScanInv, TypeOK, Text
  <1>1. IF scan.err # "nil" THEN Answer(Error(scan.err))
        ELSE IF f.panics THEN Answer(None)
        ELSE /\ i' = scan.end
             /\ fields' = IF f.name = <<>> THEN fields ELSE Append(fields, f)
             /\ UNCHANGED <<pc, body, done, data, resp>>
    BY DEF ScanField
  <1>2. CASE scan.err # "nil"
    <2>. HIDE DEF scan
    <2>1. Answer(Error(scan.err))
      BY <1>1, <1>2
    <2>2. ScanInv'
      BY <2>1, ErrorShape, AnswerKeeps
    <2>3. pc' = "answered"
      BY <2>1 DEF Answer
    <2>. QED BY <2>2, <2>3
  <1>3. CASE scan.err = "nil" /\ f.panics
    <2>. HIDE DEF scan, f
    <2>1. Answer(None)
      BY <1>1, <1>3
    <2>2. ScanInv'
      BY <2>1, AnswerKeeps DEF None
    <2>3. pc' = "answered"
      BY <2>1 DEF Answer
    <2>. QED BY <2>2, <2>3
  <1>4. CASE scan.err = "nil" /\ ~f.panics
    <2>1. scan.end \in i + 1 .. Len(body) + 1
      BY <1>0, <1>4, FieldAdvances
    <2>. HIDE DEF scan
    <2>2. t \in Text
      <3>1. i \in 1 .. Len(body) + 1 /\ scan.end - 1 \in 0 .. Len(body)
        BY <1>0, <2>1
      <3>. QED BY <1>0, <3>1, CutType
    <2>3. f \in Parsed
      BY <2>2 DEF Parsed
    <2>. HIDE DEF f, t
    <2>4. fields' \in Seq(Parsed) /\ Len(fields') \in {Len(fields), Len(fields) + 1}
          /\ Len(fields) \in Nat
      <3>1. fields' = fields \/ fields' = Append(fields, f)
        BY <1>1, <1>4
      <3>. HIDE DEF Parsed
      <3>. QED BY <1>0, <2>3, <3>1
    <2>5. i' = scan.end /\ UNCHANGED <<pc, body, done, data, resp>>
      BY <1>1, <1>4
    <2>6. i' \in 1 .. Len(body') + 1 /\ i' > i
      BY <1>0, <2>1, <2>5
    <2>7. done' \in 0 .. Len(fields')
      BY <1>0, <2>4, <2>5
    <2>. QED BY <1>0, <2>4, <2>5, <2>6, <2>7 DEF ScanInv, TypeOK
  <1>. QED BY <1>2, <1>3, <1>4

\* Every step keeps the scanner in its text.
LEMMA ScanStep ==
  ASSUME ScanInv, [Next]_vars
  PROVE  ScanInv'
  <1>0. /\ body \in Text /\ Len(body) \in Nat /\ i \in 1 .. Len(body) + 1
        /\ fields \in Seq(Parsed) /\ Len(fields) \in Nat /\ done \in 0 .. Len(fields)
        /\ DOMAIN resp \subseteq {"data", "error", "none"}
    BY DEF ScanInv, TypeOK, Text
  <1>1. ASSUME NEW schema \in Asked, LoadSchema(schema) PROVE ScanInv'
    <2>1. pc = "load" /\ pc' \in {"exited", "idle"} /\ UNCHANGED <<body, i, fields, done, resp>>
      BY <1>1, Zenon DEF LoadSchema
    <2>. QED BY <1>0, <2>1 DEF ScanInv, TypeOK
  <1>2. CASE BadRequest
    BY <1>2, ErrorShape, AnswerKeeps DEF BadRequest
  <1>3. ASSUME NEW a \in Requests, Execute(a) PROVE ScanInv'
    <2>. DEFINE q == Trim(a.text)
    <2>1. q \in Text
      BY QueryConstants, TrimType DEF Text
    <2>2. IF Refusal(q) # "nil" THEN Answer(Error(Refusal(q)))
          ELSE /\ pc' = "scan" /\ body' = Body(q) /\ UNCHANGED <<i, fields, done, data, resp>>
      BY <1>3 DEF Execute
    <2>. HIDE DEF q
    <2>3. CASE Refusal(q) # "nil"
      BY <2>2, <2>3, ErrorShape, AnswerKeeps
    <2>4. CASE Refusal(q) = "nil"
      <3>1. Shapeless(q) = "nil"
        BY <2>4, Zenon DEF Refusal
      <3>2. Body(q) \in Text
        BY <2>1, <3>1, BodyType
      <3>3. i = 1
        BY <1>3 DEF Execute, ScanInv, TypeOK
      <3>4. Len(body') \in Nat
        BY <2>2, <2>4, <3>2 DEF Text
      <3>. QED BY <1>0, <2>2, <2>4, <3>2, <3>3, <3>4 DEF ScanInv, TypeOK
    <2>. QED BY <2>3, <2>4
  <1>4. CASE SkipSeparator
    <2>1. pc = "scan" /\ i <= Len(body) /\ i' = i + 1 /\ UNCHANGED <<pc, body, fields, done, resp>>
      BY <1>4 DEF SkipSeparator
    <2>. QED BY <1>0, <2>1 DEF ScanInv, TypeOK
  <1>5. CASE ScanField
    BY <1>5, FieldStep
  <1>6. CASE ScanEnds
    <2>1. CASE fields = <<>>
      BY <1>6, <2>1, ErrorShape, AnswerKeeps DEF ScanEnds
    <2>2. CASE fields # <<>> /\ Len(fields) > maxTopFields
      BY <1>6, <2>2, ErrorShape, AnswerKeeps DEF ScanEnds
    <2>3. CASE fields # <<>> /\ ~(Len(fields) > maxTopFields)
      <3>1. pc' = "resolve" /\ UNCHANGED <<body, i, fields, done, resp>>
        BY <1>6, <2>3 DEF ScanEnds
      <3>2. Len(fields) \in 1 .. maxTopFields
        <4>1. maxTopFields \in Int
          BY QueryConstants DEF maxTopFields
        <4>2. Len(fields) # 0
          BY <1>0, <2>3
        <4>. QED BY <1>0, <2>3, <4>1, <4>2
      <3>. QED BY <1>0, <3>1, <3>2 DEF ScanInv, TypeOK
    <2>. QED BY <2>1, <2>2, <2>3
  <1>7. CASE Resolve
    <2>1. done < Len(fields) /\ done' = done + 1 /\ UNCHANGED <<pc, body, i, fields, resp>>
      BY <1>7 DEF Resolve
    <2>. QED BY <1>0, <2>1 DEF ScanInv, TypeOK
  <1>8. CASE ResolveFails
    BY <1>8, ErrorShape, AnswerKeeps DEF ResolveFails
  <1>9. CASE Respond
    BY <1>9, ErrorShape, AnswerKeeps DEF Respond
  <1>10. CASE Return
    <2>1. pc = "answered" /\ pc' = "idle" /\ resp' = None /\ UNCHANGED <<body, i, fields, done>>
      BY <1>10 DEF Return
    <2>. QED BY <1>0, <2>1 DEF ScanInv, TypeOK, None
  <1>11. CASE UNCHANGED vars
    BY <1>0, <1>11 DEF vars, ScanInv, TypeOK
  <1>. QED BY <1>1, <1>2, <1>3, <1>4, <1>5, <1>6, <1>7, <1>8, <1>9, <1>10, <1>11 DEF Next

\* The scanner is in its text for good.
LEMMA ScanInvariant == Spec => []ScanInv
  <1>1. Init => ScanInv
    <2>. SUFFICES ASSUME Init PROVE ScanInv
      OBVIOUS
    <2>1. pc = "load" /\ body = <<>> /\ i = 1 /\ fields = <<>> /\ done = 0 /\ resp = None
      BY DEF Init
    <2>2. <<>> \in Text /\ <<>> \in Seq(Parsed) /\ Len(<<>>) = 0
      BY DEF Text
    <2>. QED BY <2>1, <2>2 DEF ScanInv, TypeOK, None
  <1>. QED BY <1>1, ScanStep, PTL DEF Spec

\* For every text, well formed or not, the position of parseTopFields stays inside the
\* text or just past it, and no document is resolved with more fields than the cap.
THEOREM TypeCorrect == Spec => []TypeOK
  <1>1. ScanInv => TypeOK
    BY DEF ScanInv
  <1>. QED BY <1>1, ScanInvariant, PTL

\* parseTopFields: "Every pass must consume something."  Whatever the text holds, no pass
\* of the loop leaves the position where it was or moves it back, so the loop ends.
THEOREM EveryPassConsumes == Spec => ScanAdvances
  <1>1. ScanInv /\ [Next]_vars => [pc = "scan" /\ pc' = "scan" => i' > i]_vars
    <2>. SUFFICES ASSUME ScanInv, Next, pc = "scan", pc' = "scan" PROVE i' > i
      OBVIOUS
    <2>1. CASE SkipSeparator
      BY <2>1 DEF SkipSeparator, ScanInv, TypeOK, Text
    <2>2. CASE ScanField
      BY <2>2, FieldStep
    <2>3. CASE \E a \in Requests : Execute(a)
      BY <2>3 DEF Execute
    <2>4. CASE ScanEnds
      BY <2>4 DEF ScanEnds, Answer
    <2>5. CASE Resolve \/ ResolveFails \/ Respond \/ Return \/ BadRequest
      BY <2>5, Zenon DEF Resolve, ResolveFails, Respond, Return, BadRequest
    <2>6. CASE \E schema \in Asked : LoadSchema(schema)
      BY <2>6, Zenon DEF LoadSchema
    <2>. QED BY <2>1, <2>2, <2>3, <2>4, <2>5, <2>6 DEF Next
  <1>. QED BY <1>1, ScanInvariant, PTL DEF Spec, ScanAdvances

-----------------------------------------------------------------------------
(***************************************************************************)
(* Counting brackets and quotes                                            *)
(***************************************************************************)
\* The quotes of q from a up to j.
Quotes(q, a, j) == {x \in a .. j : q[x] = Quote}

\* Moving a finite set of positions changes none of its number.
LEMMA ShiftCount ==
  ASSUME NEW S \in SUBSET Int, IsFiniteSet(S), NEW off \in Int
  PROVE  Cardinality({x + off : x \in S}) = Cardinality(S)
  <1>. DEFINE T == {x + off : x \in S}
              f == [x \in S |-> x + off]
  <1>1. f \in Bijection(S, T)
    <2>1. f \in [S -> T]
      OBVIOUS
    <2>2. \A x, y \in S : f[x] = f[y] => x = y
      OBVIOUS
    <2>3. \A t \in T : \E x \in S : f[x] = t
      OBVIOUS
    <2>. QED BY <2>1, <2>2, <2>3 DEF Bijection, Injection, Surjection, IsInjective
  <1>2. ExistsBijection(S, T)
    BY <1>1 DEF ExistsBijection
  <1>3. Cardinality(T) = Cardinality(S)
    <2>. HIDE DEF T, f
    <2>. QED BY <1>2, FS_Bijection, Zenon
  <1>. QED BY <1>3

\* Two finite sets of positions with none in common.
LEMMA CountApart ==
  ASSUME NEW S, NEW T, IsFiniteSet(S), IsFiniteSet(T), S \cap T = {}
  PROVE  /\ Cardinality(S \cup T) = Cardinality(S) + Cardinality(T)
         /\ Cardinality(S) \in Nat /\ Cardinality(T) \in Nat
  <1>1. Cardinality(S \cup T) = Cardinality(S) + Cardinality(T) - Cardinality(S \cap T)
    BY FS_Union, Zenon
  <1>2. Cardinality(S \cap T) = 0
    BY FS_EmptySet, Zenon
  <1>3. Cardinality(S) \in Nat /\ Cardinality(T) \in Nat
    BY FS_CardinalityType, Zenon
  <1>. QED BY <1>1, <1>2, <1>3

\* Positions within bounds are finitely many.
LEMMA FewPositions ==
  ASSUME NEW a \in Int, NEW b \in Int, NEW S \in SUBSET (a .. b)
  PROVE  IsFiniteSet(S) /\ Cardinality(S) \in Nat
  BY FS_Interval, FS_Subset, FS_CardinalityType

\* The brackets open after m are those open before p and those opened from p on.
LEMMA OpenSplit ==
  ASSUME NEW s, NEW live \in SUBSET Int, IsFiniteSet(live),
         NEW O, NEW C, NEW p \in Int, NEW m \in Int, p <= m + 1,
         NEW rest, \A x : x \in rest <=> x \in live /\ x >= p
  PROVE  /\ Open(s, live, m, O, C) = Open(s, live, p - 1, O, C) + Open(s, rest, m, O, C)
         /\ Open(s, live, m, O, C) \in Int
         /\ Open(s, live, p - 1, O, C) \in Int
         /\ Open(s, rest, m, O, C) \in Int
  <1>. DEFINE A(K) == {x \in live : x <= m /\ s[x] \in K}
              B(K) == {x \in live : x <= p - 1 /\ s[x] \in K}
              D(K) == {x \in rest : x <= m /\ s[x] \in K}
  <1>1. ASSUME NEW K
        PROVE  /\ Cardinality(A(K)) = Cardinality(B(K)) + Cardinality(D(K))
               /\ Cardinality(B(K)) \in Nat /\ Cardinality(D(K)) \in Nat
    <2>0. \A x \in live : x \in Int
      OBVIOUS
    <2>1. A(K) = B(K) \cup D(K) /\ B(K) \cap D(K) = {}
      <3>1. \A x \in live : x <= m <=> x <= p - 1 \/ (x >= p /\ x <= m)
        BY <2>0
      <3>2. \A x \in live : ~(x <= p - 1 /\ x >= p)
        BY <2>0
      <3>. QED BY <3>1, <3>2, Zenon
    <2>2. B(K) \in SUBSET live /\ D(K) \in SUBSET live
      OBVIOUS
    <2>. HIDE DEF A, B, D
    <2>3. IsFiniteSet(B(K)) /\ IsFiniteSet(D(K))
      BY <2>2, FS_Subset
    <2>. QED BY <2>1, <2>3, CountApart
  <1>2. /\ Open(s, live, m, O, C) = Cardinality(A(O)) - Cardinality(A(C))
        /\ Open(s, live, p - 1, O, C) = Cardinality(B(O)) - Cardinality(B(C))
        /\ Open(s, rest, m, O, C) = Cardinality(D(O)) - Cardinality(D(C))
    BY DEF Open
  <1>. HIDE DEF A, B, D
  <1>. QED BY <1>1, <1>2

\* So are the quotes.
LEMMA QuotesSplit ==
  ASSUME NEW q, NEW a \in Int, NEW p \in Int, NEW m \in Int, a <= p, p <= m + 1
  PROVE  /\ Cardinality(Quotes(q, a, m)) =
              Cardinality(Quotes(q, a, p - 1)) + Cardinality(Quotes(q, p, m))
         /\ Cardinality(Quotes(q, a, p - 1)) \in Nat
         /\ Cardinality(Quotes(q, p, m)) \in Nat
  <1>. DEFINE B == Quotes(q, a, p - 1)
              D == Quotes(q, p, m)
  <1>1. Quotes(q, a, m) = B \cup D /\ B \cap D = {}
    BY DEF Quotes
  <1>2. B \in SUBSET (a .. p - 1) /\ D \in SUBSET (p .. m)
    BY DEF Quotes
  <1>. HIDE DEF B, D
  <1>3. IsFiniteSet(B) /\ IsFiniteSet(D)
    <2>1. p - 1 \in Int
      OBVIOUS
    <2>. QED BY <1>2, <2>1, FewPositions, Zenon
  <1>4. /\ Cardinality(B \cup D) = Cardinality(B) + Cardinality(D)
        /\ Cardinality(B) \in Nat /\ Cardinality(D) \in Nat
    BY <1>1, <1>3, CountApart
  <1>. QED BY <1>1, <1>4 DEF B, D

\* After an even number of quotes the text goes on as if it began there.
LEMMA LiveSplit ==
  ASSUME NEW q \in Text, NEW a \in Int, NEW p \in Int, a <= p,
         Cardinality(Quotes(q, a, p - 1)) % 2 = 0
  PROVE  {x \in Unquoted(q, a) : x >= p} = Unquoted(q, p)
  <1>1. ASSUME NEW j \in p .. Len(q)
        PROVE  Cardinality(Quotes(q, a, j)) % 2 = 0 <=> Cardinality(Quotes(q, p, j)) % 2 = 0
    <2>0. Len(q) \in Nat /\ j \in Int /\ p <= j + 1
      BY DEF Text
    <2>. DEFINE x == Cardinality(Quotes(q, a, j))
                y == Cardinality(Quotes(q, a, p - 1))
                z == Cardinality(Quotes(q, p, j))
    <2>1. x = y + z /\ y \in Nat /\ z \in Nat
      BY <2>0, QuotesSplit
    <2>2. y % 2 = 0
      OBVIOUS
    <2>. HIDE DEF x, y, z
    <2>3. x % 2 = 0 <=> z % 2 = 0
      BY <2>1, <2>2
    <2>. QED BY <2>3 DEF x, z
  <1>2. Len(q) \in Nat
    BY DEF Text
  <1>. QED BY <1>1, <1>2 DEF Unquoted, Quotes

\* The brackets the scanner counts, under the names the proofs use for them.
Opens  == {"(", "{"}
Closes == {")", "}"}
LBrace == "{"
RBrace == "}"
LBraces == {LBrace}
RBraces == {RBrace}

\* Brackets open after x, of a document whose first brace is at a.
Depth(q, a, x) == Open(q, Unquoted(q, a), x, Opens, Closes)

\* Where the selection set that opens at p is closed.
ShutAt(q, a, p) == Closing(q, {j \in Unquoted(q, a) : j >= p}, RBrace, LBraces, RBraces)

\* What an unfinished document promises of the brackets it has, from its first brace on: it is
\* never out of that brace, its strings are in arguments, and a selection set that it closes
\* leaves the depth it found.
Nests(q, a) ==
  /\ \A j \in Unquoted(q, a) : Depth(q, a, j) > 0
  /\ \A j \in a .. Len(q) : q[j] = Quote => Depth(q, a, j) > 1
  /\ \A p \in Unquoted(q, a) :
       q[p] = LBrace /\ ShutAt(q, a, p) # 0 => Depth(q, a, ShutAt(q, a, p)) = Depth(q, a, p) - 1

\* After x the document is where its fields are: in no string, and in the first brace only.
Level(q, a, x) == Cardinality(Quotes(q, a, x)) % 2 = 0 /\ Depth(q, a, x) = 1

\* What one lexeme does to the depth.
LEMMA DepthStep ==
  ASSUME NEW q \in Text, NEW a \in 1 .. Len(q), NEW x \in a .. Len(q)
  PROVE  /\ x \notin Unquoted(q, a) => Depth(q, a, x) = Depth(q, a, x - 1)
         /\ x \in Unquoted(q, a) /\ q[x] \in Opens /\ q[x] \notin Closes =>
              Depth(q, a, x) = Depth(q, a, x - 1) + 1
         /\ x \in Unquoted(q, a) /\ q[x] \in Closes /\ q[x] \notin Opens =>
              Depth(q, a, x) = Depth(q, a, x - 1) - 1
         /\ Depth(q, a, x - 1) \in Int
  <1>. DEFINE live == Unquoted(q, a)
              rest == {y \in live : y >= x}
              on(K) == {y \in rest : y <= x /\ q[y] \in K}
  <1>0. Len(q) \in Nat /\ live \in SUBSET (1 .. Len(q)) /\ x \in Int /\ x <= x + 1
    BY DEF Text, Unquoted
  <1>1. \A y \in rest : y <= x => y = x
    BY <1>0
  <1>2. ASSUME NEW K PROVE on(K) = IF x \in live /\ q[x] \in K THEN {x} ELSE {}
    <2>1. x >= x /\ x <= x
      BY <1>0
    <2>. HIDE DEF live
    <2>. QED BY <1>1, <2>1
  <1>3. /\ Depth(q, a, x) = Depth(q, a, x - 1) + Open(q, rest, x, Opens, Closes)
        /\ Depth(q, a, x - 1) \in Int
    <2>. HIDE DEF live
    <2>1. /\ Open(q, live, x, Opens, Closes) =
               Open(q, live, x - 1, Opens, Closes) + Open(q, rest, x, Opens, Closes)
          /\ Open(q, live, x - 1, Opens, Closes) \in Int
      <3>1. IsFiniteSet(live)
        <4>1. 1 \in Int /\ Len(q) \in Int
          BY <1>0
        <4>. QED BY <1>0, <4>1, FewPositions, Zenon
      <3>2. live \in SUBSET Int
        BY <1>0
      <3>3. \A y : y \in rest <=> y \in live /\ y >= x
        OBVIOUS
      <3>4. x \in Int /\ x <= x + 1
        BY <1>0
      <3>5. ASSUME NEW L \in SUBSET Int, IsFiniteSet(L), NEW R, \A y : y \in R <=> y \in L /\ y >= x
            PROVE  /\ Open(q, L, x, Opens, Closes) =
                        Open(q, L, x - 1, Opens, Closes) + Open(q, R, x, Opens, Closes)
                   /\ Open(q, L, x - 1, Opens, Closes) \in Int
        BY <3>4, <3>5, OpenSplit
      <3>. HIDE DEF rest
      <3>. QED BY <3>1, <3>2, <3>3, <3>5, Zenon
    <2>. QED BY <2>1 DEF Depth, live
  <1>4. Open(q, rest, x, Opens, Closes) = Cardinality(on(Opens)) - Cardinality(on(Closes))
    BY DEF Open
  <1>5. Cardinality({x}) = 1 /\ Cardinality({}) = 0
    BY FS_Singleton, FS_EmptySet
  <1>6. x \in Unquoted(q, a) <=> x \in live
    OBVIOUS
  <1>. HIDE DEF live, rest, on
  <1>7. CASE x \notin live
    <2>1. on(Opens) = {} /\ on(Closes) = {}
      BY <1>2, <1>7
    <2>. QED BY <1>3, <1>4, <1>5, <1>6, <1>7, <2>1
  <1>8. CASE x \in live /\ q[x] \in Opens /\ q[x] \notin Closes
    <2>1. on(Opens) = {x} /\ on(Closes) = {}
      BY <1>2, <1>8
    <2>. QED BY <1>3, <1>4, <1>5, <1>6, <1>8, <2>1
  <1>9. CASE x \in live /\ q[x] \in Closes /\ q[x] \notin Opens
    <2>1. on(Opens) = {} /\ on(Closes) = {x}
      BY <1>2, <1>9
    <2>. QED BY <1>3, <1>4, <1>5, <1>6, <1>9, <2>1
  <1>. QED BY <1>3, <1>6, <1>7, <1>8, <1>9

\* Lexemes that are neither brackets nor quotes change nothing.
LEMMA Still ==
  ASSUME NEW q \in Text, NEW a \in 1 .. Len(q), NEW p \in Int, NEW r \in Int,
         a <= p, p <= r + 1, r <= Len(q), Level(q, a, p - 1),
         \A x \in p .. r : q[x] \notin Opens /\ q[x] \notin Closes /\ q[x] # Quote
  PROVE  Level(q, a, r)
  <1>. DEFINE live == Unquoted(q, a)
  <1>0. Len(q) \in Nat /\ \A x \in live : x \in Int
    BY DEF Text, Unquoted
  <1>1. Quotes(q, a, r) = Quotes(q, a, p - 1)
    <2>1. \A x \in a .. r : q[x] = Quote => x \in a .. p - 1
      <3>1. \A x \in a .. r : x \in a .. p - 1 \/ x \in p .. r
        BY <1>0
      <3>. QED BY <3>1
    <2>2. \A x \in a .. p - 1 : x \in a .. r
      BY <1>0
    <2>. QED BY <2>1, <2>2 DEF Quotes
  <1>2. ASSUME NEW K, K \in {Opens, Closes}
        PROVE  {x \in live : x <= r /\ q[x] \in K} = {x \in live : x <= p - 1 /\ q[x] \in K}
    <2>1. \A x \in live : x <= r => x <= p - 1 \/ x \in p .. r
      BY <1>0
    <2>2. \A x \in live : x <= p - 1 => x <= r
      BY <1>0
    <2>3. \A x \in p .. r : q[x] \notin K
      BY <1>2
    <2>. HIDE DEF live
    <2>. QED BY <2>1, <2>2, <2>3
  <1>3. Depth(q, a, r) = Depth(q, a, p - 1)
    BY <1>2, Zenon DEF Depth, Open
  <1>. QED BY <1>1, <1>3 DEF Level

\* Of a document that nests, a run without an opening bracket closes none either: there
\* is none but the first brace to close.
LEMMA PlainRun ==
  ASSUME NEW q \in Text, NEW a \in 1 .. Len(q), Nests(q, a), NEW p \in Int, NEW r \in Int,
         a < p, p <= r + 1, r <= Len(q), Level(q, a, p - 1),
         \A x \in p .. r : q[x] \notin Opens
  PROVE  Level(q, a, r) /\ \A x \in p .. r : q[x] \notin Closes
  <1>. DEFINE X == {x \in p .. r : q[x] \in Closes \/ q[x] = Quote}
  <1>0. Len(q) \in Nat /\ X \in SUBSET Nat /\ X \subseteq p .. r
    BY DEF Text
  <1>1. X = {}
    <2>. SUFFICES ASSUME X # {} PROVE FALSE
      OBVIOUS
    <2>. DEFINE m == Min(X)
    <2>1. m \in X /\ \A x \in X : m <= x
      <3>. HIDE DEF X
      <3>. QED BY <1>0, MinIsLeast
    <2>. HIDE DEF m
    <2>2. m \in p .. r /\ (q[m] \in Closes \/ q[m] = Quote) /\ q[m] \notin Opens
      BY <2>1
    <2>3. m \in a .. Len(q) /\ m - 1 \in Int /\ m - 1 <= Len(q) /\ p <= (m - 1) + 1
      BY <1>0, <2>2
    <2>4. \A x \in p .. m - 1 : q[x] \notin Opens /\ q[x] \notin Closes /\ q[x] # Quote
      <3>1. \A x \in p .. m - 1 : x \in p .. r /\ ~(m <= x)
        BY <1>0, <2>2
      <3>. QED BY <2>1, <3>1
    <2>5. Level(q, a, m - 1)
      <3>1. a <= p
        BY <1>0
      <3>. QED BY <2>3, <2>4, <3>1, Still
    <2>6. CASE q[m] = Quote
      <3>1. m \notin Unquoted(q, a)
        BY <2>6 DEF Unquoted
      <3>2. Depth(q, a, m) = 1
        BY <2>3, <2>5, <3>1, DepthStep DEF Level
      <3>3. Depth(q, a, m) > 1
        BY <2>3, <2>6 DEF Nests
      <3>. QED BY <3>2, <3>3
    <2>7. CASE q[m] # Quote
      <3>1. Quotes(q, a, m) = Quotes(q, a, m - 1)
        <4>1. \A x \in a .. m : x = m \/ x \in a .. m - 1
          BY <2>3
        <4>2. \A x \in a .. m - 1 : x \in a .. m
          BY <2>3
        <4>. QED BY <2>7, <4>1, <4>2 DEF Quotes
      <3>2. m \in Unquoted(q, a)
        BY <2>3, <2>5, <2>7, <3>1 DEF Level, Quotes, Unquoted
      <3>3. Depth(q, a, m) = 0
        BY <2>2, <2>3, <2>5, <2>7, <3>2, DepthStep DEF Level
      <3>4. Depth(q, a, m) > 0
        BY <3>2 DEF Nests
      <3>. QED BY <3>3, <3>4
    <2>. QED BY <2>6, <2>7
  <1>2. \A x \in p .. r : q[x] \notin Opens /\ q[x] \notin Closes /\ q[x] # Quote
    BY <1>1
  <1>3. a <= p
    BY <1>0
  <1>. QED BY <1>2, <1>3, Still

-----------------------------------------------------------------------------
(***************************************************************************)
(* A part of a text                                                        *)
(***************************************************************************)
\* s is the part of q after off.
Within(s, q, off) ==
  off \in Nat /\ off + Len(s) <= Len(q) /\ \A k \in 1 .. Len(s) : s[k] = q[off + k]

\* The quotes of a part are the quotes there.
LEMMA ShiftQuotes ==
  ASSUME NEW s \in Text, NEW q \in Text, NEW off, Within(s, q, off),
         NEW p \in Int, NEW j \in Int, 1 <= p, j <= Len(s)
  PROVE  Cardinality(Quotes(s, p, j)) = Cardinality(Quotes(q, off + p, off + j))
  <1>. DEFINE S == Quotes(s, p, j)
  <1>0. off \in Nat /\ \A k \in 1 .. Len(s) : s[k] = q[off + k]
    BY DEF Within
  <1>1. Len(s) \in Nat /\ p .. j \subseteq 1 .. Len(s)
    BY DEF Text
  <1>2. S \in SUBSET Int /\ IsFiniteSet(S)
    <2>1. S \in SUBSET (p .. j)
      BY DEF Quotes
    <2>2. p .. j \subseteq Int
      OBVIOUS
    <2>3. \A T \in SUBSET (p .. j) : IsFiniteSet(T)
      BY FewPositions, Zenon
    <2>. HIDE DEF S
    <2>. QED BY <2>1, <2>2, <2>3
  <1>3. Quotes(q, off + p, off + j) = {x + off : x \in S}
    <2>1. ASSUME NEW y \in Quotes(q, off + p, off + j) PROVE y \in {x + off : x \in S}
      <3>1. y \in Int /\ y - off \in p .. j /\ q[y] = Quote
        BY <1>0, <2>1 DEF Quotes
      <3>2. s[y - off] = q[off + (y - off)] /\ off + (y - off) = y /\ (y - off) + off = y
        BY <1>0, <1>1, <3>1
      <3>3. y - off \in S
        BY <3>1, <3>2 DEF Quotes
      <3>. HIDE DEF S
      <3>. QED BY <3>2, <3>3
    <2>2. ASSUME NEW x \in S PROVE x + off \in Quotes(q, off + p, off + j)
      <3>1. x \in p .. j /\ s[x] = Quote
        BY <2>2 DEF Quotes
      <3>2. q[x + off] = Quote
        <4>1. x + off = off + x /\ x \in 1 .. Len(s)
          BY <1>0, <1>1, <3>1
        <4>. QED BY <1>0, <3>1, <4>1
      <3>3. x + off \in (off + p) .. (off + j)
        BY <1>0, <3>1
      <3>. QED BY <3>2, <3>3 DEF Quotes
    <2>. HIDE DEF S
    <2>. QED BY <2>1, <2>2
  <1>. HIDE DEF S
  <1>4. Cardinality({x + off : x \in S}) = Cardinality(S)
    <2>1. off \in Int
      BY <1>0
    <2>. QED BY <1>2, <2>1, ShiftCount, Zenon
  <1>. QED BY <1>3, <1>4, Zenon DEF S

\* So is what is outside strings,
LEMMA ShiftUnquoted ==
  ASSUME NEW s \in Text, NEW q \in Text, NEW off, Within(s, q, off), NEW p \in 1 .. Len(s) + 1
  PROVE  \A k \in p .. Len(s) : k \in Unquoted(s, p) <=> off + k \in Unquoted(q, off + p)
  <1>0. off \in Nat /\ off + Len(s) <= Len(q) /\ \A k \in 1 .. Len(s) : s[k] = q[off + k]
    BY DEF Within
  <1>1. Len(s) \in Nat /\ Len(q) \in Nat
    BY DEF Text
  <1>2. ASSUME NEW k \in p .. Len(s)
        PROVE  k \in Unquoted(s, p) <=> off + k \in Unquoted(q, off + p)
    <2>1. k \in 1 .. Len(s) /\ off + k \in (off + p) .. Len(q)
      BY <1>0, <1>1
    <2>2. s[k] = q[off + k]
      BY <1>0, <2>1
    <2>3. Cardinality(Quotes(s, p, k)) = Cardinality(Quotes(q, off + p, off + k))
      <3>1. p \in Int /\ k \in Int /\ 1 <= p /\ k <= Len(s)
        BY <1>1
      <3>. QED BY <3>1, ShiftQuotes
    <2>. QED BY <2>1, <2>2, <2>3 DEF Unquoted, Quotes
  <1>. QED BY <1>2

\* and so are the brackets open in it.
LEMMA ShiftOpen ==
  ASSUME NEW s \in Text, NEW q \in Text, NEW off, Within(s, q, off), NEW p \in 1 .. Len(s) + 1,
         NEW m \in p .. Len(s), NEW O, NEW C
  PROVE  Open(s, Unquoted(s, p), m, O, C) = Open(q, Unquoted(q, off + p), off + m, O, C)
  <1>. DEFINE A(K) == {x \in Unquoted(s, p) : x <= m /\ s[x] \in K}
              B(K) == {x \in Unquoted(q, off + p) : x <= off + m /\ q[x] \in K}
  <1>0. off \in Nat /\ off + Len(s) <= Len(q) /\ \A k \in 1 .. Len(s) : s[k] = q[off + k]
    BY DEF Within
  <1>1. Len(s) \in Nat /\ Len(q) \in Nat
    BY DEF Text
  <1>2. Unquoted(s, p) \subseteq p .. Len(s) /\ Unquoted(q, off + p) \subseteq (off + p) .. Len(q)
    BY DEF Unquoted
  <1>3. \A k \in p .. Len(s) : k \in Unquoted(s, p) <=> off + k \in Unquoted(q, off + p)
    BY ShiftUnquoted
  <1>4. ASSUME NEW K PROVE Cardinality(A(K)) = Cardinality(B(K))
    <2>1. A(K) \in SUBSET Int /\ IsFiniteSet(A(K))
      <3>1. A(K) \in SUBSET (p .. Len(s))
        BY <1>2
      <3>2. p \in Int /\ Len(s) \in Int /\ p .. Len(s) \subseteq Int
        BY <1>1
      <3>. HIDE DEF A
      <3>. QED BY <3>1, <3>2, FewPositions
    <2>2. B(K) = {x + off : x \in A(K)}
      <3>1. ASSUME NEW y \in B(K) PROVE y \in {x + off : x \in A(K)}
        <4>1. y \in Unquoted(q, off + p) /\ y <= off + m /\ q[y] \in K /\ y \in (off + p) .. Len(q)
          BY <1>2
        <4>. DEFINE k == y - off
        <4>2. k \in p .. Len(s) /\ k <= m /\ off + k = y /\ k + off = y /\ k \in 1 .. Len(s)
          BY <1>0, <1>1, <4>1
        <4>. HIDE DEF k
        <4>3. k \in Unquoted(s, p) /\ s[k] \in K
          BY <1>0, <1>3, <4>1, <4>2
        <4>4. k \in A(K)
          BY <4>2, <4>3
        <4>. HIDE DEF A
        <4>. QED BY <4>2, <4>4
      <3>2. ASSUME NEW x \in A(K) PROVE x + off \in B(K)
        <4>1. x \in Unquoted(s, p) /\ x <= m /\ s[x] \in K /\ x \in p .. Len(s)
          BY <1>2
        <4>2. x + off = off + x /\ x + off <= off + m /\ x \in 1 .. Len(s)
          BY <1>0, <1>1, <4>1
        <4>3. off + x \in Unquoted(q, off + p) /\ q[off + x] \in K
          BY <1>0, <1>3, <4>1, <4>2
        <4>. QED BY <4>2, <4>3
      <3>. HIDE DEF A, B
      <3>. QED BY <3>1, <3>2
    <2>. HIDE DEF A, B
    <2>3. Cardinality({x + off : x \in A(K)}) = Cardinality(A(K))
      <3>1. off \in Int
        BY <1>0
      <3>. QED BY <2>1, <3>1, ShiftCount, Zenon
    <2>. QED BY <2>2, <2>3, Zenon
  <1>5. /\ Open(s, Unquoted(s, p), m, O, C) = Cardinality(A(O)) - Cardinality(A(C))
        /\ Open(q, Unquoted(q, off + p), off + m, O, C) = Cardinality(B(O)) - Cardinality(B(C))
    BY DEF Open
  <1>. HIDE DEF A, B
  <1>. QED BY <1>4, <1>5

-----------------------------------------------------------------------------
(***************************************************************************)
(* Brackets that are closed                                                *)
(***************************************************************************)
\* m is the first bracket c of live that leaves none open.
Matches(s, live, c, O, C, m) ==
  /\ m \in live /\ s[m] = c /\ Open(s, live, m, O, C) = 0
  /\ \A j \in live : s[j] = c /\ Open(s, live, j, O, C) = 0 => m <= j

\* A closing bracket that is found is that one,
LEMMA ClosesFirst ==
  ASSUME NEW s, NEW live \in SUBSET Nat, NEW c, NEW O, NEW C,
         Closing(s, live, c, O, C) # 0
  PROVE  Matches(s, live, c, O, C, Closing(s, live, c, O, C))
  <1>. DEFINE m == Closing(s, live, c, O, C)
              shut == {j \in live : s[j] = c /\ Open(s, live, j, O, C) = 0}
  <1>1. Closing(s, live, c, O, C) = IF shut = {} THEN 0 ELSE Min(shut)
    BY DEF Closing
  <1>2. shut \in SUBSET Nat
    OBVIOUS
  <1>3. m \in shut /\ \A x \in shut : m <= x
    <2>. HIDE DEF shut
    <2>. QED BY <1>1, <1>2, MinIsLeast
  <1>. HIDE DEF m
  <1>4. Matches(s, live, c, O, C, m)
    BY <1>3 DEF Matches
  <1>. QED BY <1>4 DEF m

\* and that one is found.
LEMMA FirstCloses ==
  ASSUME NEW s, NEW live \in SUBSET Nat, NEW c, NEW O, NEW C, NEW m, Matches(s, live, c, O, C, m)
  PROVE  Closing(s, live, c, O, C) = m
  <1>. DEFINE shut == {j \in live : s[j] = c /\ Open(s, live, j, O, C) = 0}
  <1>1. Closing(s, live, c, O, C) = IF shut = {} THEN 0 ELSE Min(shut)
    BY DEF Closing
  <1>2. shut \in SUBSET Nat /\ m \in shut /\ \A x \in shut : m <= x
    BY DEF Matches
  <1>. HIDE DEF shut
  <1>3. Min(shut) \in shut /\ Min(shut) <= m /\ m <= Min(shut)
    BY <1>2, MinIsLeast
  <1>4. Min(shut) = m
    <2>1. Min(shut) \in Nat /\ m \in Nat
      BY <1>2, <1>3
    <2>. QED BY <1>3, <2>1
  <1>. QED BY <1>1, <1>2, <1>4

\* From a place at the level on, the document is read as a text of its own is.
LEMMA LevelOn ==
  ASSUME NEW q \in Text, NEW a \in 1 .. Len(q), NEW p \in Int, a < p, Level(q, a, p - 1),
         NEW x \in Unquoted(q, p), NEW O, NEW C
  PROVE  /\ x \in Unquoted(q, a) /\ Cardinality(Quotes(q, a, x)) % 2 = 0
         /\ Unquoted(q, p) = {y \in Unquoted(q, a) : y >= p}
         /\ Open(q, Unquoted(q, a), x, O, C) =
              Open(q, Unquoted(q, a), p - 1, O, C) + Open(q, Unquoted(q, p), x, O, C)
  <1>0. Len(q) \in Nat /\ a \in Int /\ a <= p /\ Cardinality(Quotes(q, a, p - 1)) % 2 = 0
    BY DEF Text, Level
  <1>1. Unquoted(q, p) = {y \in Unquoted(q, a) : y >= p}
    BY <1>0, LiveSplit
  <1>2. x \in Unquoted(q, a) /\ x >= p
    BY <1>1
  <1>3. Cardinality(Quotes(q, a, x)) % 2 = 0
    BY <1>2 DEF Unquoted, Quotes
  <1>4. ASSUME NEW L \in SUBSET Int, IsFiniteSet(L), NEW R, \A y : y \in R <=> y \in L /\ y >= p
        PROVE  Open(q, L, x, O, C) = Open(q, L, p - 1, O, C) + Open(q, R, x, O, C)
    <2>1. x \in Int /\ p <= x + 1
      BY <1>0, <1>2 DEF Unquoted
    <2>. QED BY <1>4, <2>1, OpenSplit
  <1>5. Unquoted(q, a) \in SUBSET Int /\ IsFiniteSet(Unquoted(q, a))
    <2>1. Unquoted(q, a) \in SUBSET (a .. Len(q)) /\ a .. Len(q) \subseteq Int /\ Len(q) \in Int
      BY <1>0 DEF Unquoted
    <2>2. IsFiniteSet(Unquoted(q, a))
      BY <1>0, <2>1, FewPositions, Zenon
    <2>. QED BY <2>1, <2>2
  <1>6. \A y : y \in Unquoted(q, p) <=> y \in Unquoted(q, a) /\ y >= p
    BY <1>1
  <1>. QED BY <1>1, <1>2, <1>3, <1>4, <1>5, <1>6, Zenon

\* Arguments that are closed leave the document at its level,
LEMMA ArgsLevel ==
  ASSUME NEW s \in Text, NEW q \in Text, NEW off, Within(s, q, off),
         NEW a \in 1 .. Len(q), a <= off, NEW p \in 1 .. Len(s),
         NEW P, P = off + p, Level(q, a, P - 1), NEW m, m = findMatchingParen(s, p), m # 0
  PROVE  m \in p .. Len(s) /\ Level(q, a, off + m)
  <1>0. Len(s) \in Nat /\ Len(q) \in Nat /\ off \in Nat /\ p \in 1 .. Len(s) + 1
    BY DEF Text, Within
  <1>1. Unquoted(s, p) \in SUBSET Nat /\ 0 \notin Unquoted(s, p) /\ Unquoted(s, p) \subseteq p .. Len(s)
    BY <1>0 DEF Unquoted
  <1>2. m \in Unquoted(s, p) /\ Open(s, Unquoted(s, p), m, Opens, Closes) = 0
    <2>1. m = Closing(s, Unquoted(s, p), ")", Opens, Closes)
      BY Zenon DEF findMatchingParen, Opens, Closes
    <2>2. Matches(s, Unquoted(s, p), ")", Opens, Closes, m)
      BY <1>1, <2>1, ClosesFirst, Zenon
    <2>. QED BY <2>2, Zenon DEF Matches
  <1>3. m \in p .. Len(s)
    BY <1>1, <1>2
  <1>4. off + m \in Unquoted(q, P) /\ Open(q, Unquoted(q, P), off + m, Opens, Closes) = 0
    <2>1. \A k \in p .. Len(s) : k \in Unquoted(s, p) <=> off + k \in Unquoted(q, off + p)
      BY <1>0, ShiftUnquoted
    <2>2. Open(s, Unquoted(s, p), m, Opens, Closes) =
            Open(q, Unquoted(q, off + p), off + m, Opens, Closes)
      BY <1>0, <1>3, ShiftOpen
    <2>. QED BY <1>2, <1>3, <2>1, <2>2
  <1>5. /\ Cardinality(Quotes(q, a, off + m)) % 2 = 0
        /\ Open(q, Unquoted(q, a), off + m, Opens, Closes) =
             Open(q, Unquoted(q, a), P - 1, Opens, Closes)
             + Open(q, Unquoted(q, P), off + m, Opens, Closes)
    <2>1. P \in Int /\ a < P
      BY <1>0
    <2>. QED BY <1>4, <2>1, LevelOn
  <1>. QED BY <1>3, <1>4, <1>5 DEF Level, Depth

\* and so does a selection set that is closed, since parentheses balance in it.
LEMMA SelectionLevel ==
  ASSUME NEW s \in Text, NEW q \in Text, NEW off, Within(s, q, off),
         NEW a \in 1 .. Len(q), Nests(q, a), a <= off, NEW p \in 1 .. Len(s), s[p] = LBrace,
         NEW P, P = off + p, Level(q, a, P - 1), NEW m, m = findMatchingBrace(s, p), m # 0
  PROVE  m \in p .. Len(s) /\ Level(q, a, off + m)
  <1>. DEFINE U == Unquoted(s, p)
              V == Unquoted(q, P)
  <1>0. /\ Len(s) \in Nat /\ Len(q) \in Nat /\ off \in Nat /\ off + Len(s) <= Len(q)
        /\ p \in 1 .. Len(s) + 1 /\ \A k \in 1 .. Len(s) : s[k] = q[off + k]
    BY DEF Text, Within
  <1>1. U \in SUBSET Nat /\ 0 \notin U /\ U \subseteq p .. Len(s)
    BY <1>0 DEF Unquoted
  <1>2. P \in Int /\ a < P /\ P \in a .. Len(q) /\ q[P] = LBrace /\ Level(q, a, P - 1)
    BY <1>0
  <1>3. Matches(s, U, RBrace, LBraces, RBraces, m)
    <2>1. m = Closing(s, U, RBrace, LBraces, RBraces)
      BY Zenon DEF findMatchingBrace, LBraces, RBraces, LBrace, RBrace
    <2>. QED BY <1>1, <2>1, ClosesFirst, Zenon
  <1>4. m \in p .. Len(s)
    BY <1>1, <1>3 DEF Matches
  <1>5. \A k \in p .. Len(s) :
          /\ k \in U <=> off + k \in V
          /\ s[k] = q[off + k]
          /\ Open(s, U, k, LBraces, RBraces) = Open(q, V, off + k, LBraces, RBraces)
    <2>1. \A k \in p .. Len(s) : k \in U <=> off + k \in V
      BY <1>0, ShiftUnquoted
    <2>2. \A k \in p .. Len(s) : s[k] = q[off + k]
      BY <1>0
    <2>3. ASSUME NEW k \in p .. Len(s), NEW O, NEW C
          PROVE  Open(s, U, k, O, C) = Open(q, V, off + k, O, C)
      BY <1>0, ShiftOpen
    <2>. QED BY <2>1, <2>2, <2>3
  <1>6. Closing(q, V, RBrace, LBraces, RBraces) = off + m
    <2>1. V \in SUBSET Nat /\ 0 \notin V /\ V \subseteq P .. Len(q)
      BY <1>0 DEF Unquoted
    <2>2. off + m \in V /\ q[off + m] = RBrace /\ Open(q, V, off + m, LBraces, RBraces) = 0
      BY <1>3, <1>4, <1>5 DEF Matches
    <2>3. ASSUME NEW y \in V, q[y] = RBrace, Open(q, V, y, LBraces, RBraces) = 0
          PROVE  off + m <= y
      <3>. SUFFICES ASSUME ~(off + m <= y) PROVE FALSE
        OBVIOUS
      <3>. DEFINE k == y - off
      <3>1. y \in P .. Len(q)
        BY <2>1, <2>3
      <3>2. k \in p .. Len(s) /\ off + k = y /\ ~(m <= k)
        BY <1>0, <1>4, <3>1
      <3>. HIDE DEF k
      <3>3. k \in U /\ s[k] = RBrace /\ Open(s, U, k, LBraces, RBraces) = 0
        BY <1>5, <2>3, <3>2
      <3>. QED BY <1>3, <3>2, <3>3 DEF Matches
    <2>4. Matches(q, V, RBrace, LBraces, RBraces, off + m)
      BY <2>2, <2>3 DEF Matches
    <2>. QED BY <2>1, <2>4, FirstCloses, Zenon
  <1>7. off + m \in V
    BY <1>3, <1>4, <1>5 DEF Matches
  <1>8. /\ off + m \in Unquoted(q, a) /\ Cardinality(Quotes(q, a, off + m)) % 2 = 0
        /\ V = {y \in Unquoted(q, a) : y >= P}
    BY <1>2, <1>7, LevelOn
  <1>9. P \in Unquoted(q, a)
    <2>1. q[P] # Quote
      BY <1>2, Zenon DEF LBrace, Quote
    <2>2. Quotes(q, a, P) = Quotes(q, a, P - 1)
      <3>1. \A x \in a .. P : x = P \/ x \in a .. P - 1
        BY <1>0, <1>2
      <3>2. \A x \in a .. P - 1 : x \in a .. P
        BY <1>0, <1>2
      <3>. QED BY <2>1, <3>1, <3>2 DEF Quotes
    <2>. QED BY <1>2, <2>1, <2>2 DEF Level, Unquoted, Quotes
  <1>10. Depth(q, a, P) = 2
    <2>1. q[P] \in Opens /\ q[P] \notin Closes
      BY <1>2, Zenon DEF Opens, Closes, LBrace
    <2>. QED BY <1>2, <1>9, <2>1, DepthStep DEF Level
  <1>11. ShutAt(q, a, P) = off + m
    BY <1>6, <1>8, Zenon DEF ShutAt
  <1>12. Depth(q, a, off + m) = 1
    <2>1. off + m # 0
      BY <1>0, <1>4
    <2>2. Depth(q, a, ShutAt(q, a, P)) = Depth(q, a, P) - 1
      BY <1>2, <1>9, <1>11, <2>1 DEF Nests
    <2>. QED BY <1>10, <1>11, <2>2
  <1>. QED BY <1>4, <1>8, <1>12 DEF Level

-----------------------------------------------------------------------------
(***************************************************************************)
(* Runs without brackets                                                   *)
(***************************************************************************)
\* Position k of a part after off is where fields are.
AtLevel(q, a, off, k) == Level(q, a, (off + k) - 1)

\* A search passes over nothing it looks for.
LEMMA NoneBefore ==
  ASSUME NEW n \in Nat, NEW p \in 1 .. n + 1, NEW H \in SUBSET (p .. n), NEW e,
         e = Min(H \cup {Max({p, n + 1})})
  PROVE  \A k \in p .. e - 1 : k \notin H
  <1>. DEFINE S == H \cup {Max({p, n + 1})}
  <1>1. Max({p, n + 1}) \in {p, n + 1}
    <2>1. {p, n + 1} \in SUBSET Nat /\ \A x \in {p, n + 1} : x <= n + 1
      OBVIOUS
    <2>. QED BY <2>1, MaxIsGreatest
  <1>2. S \in SUBSET Nat /\ S # {}
    <2>. DEFINE z == Max({p, n + 1})
    <2>1. z \in Nat
      BY <1>1
    <2>. HIDE DEF z
    <2>2. H \cup {z} \in SUBSET Nat /\ H \cup {z} # {}
      BY <2>1
    <2>. QED BY <2>2 DEF z
  <1>3. e \in S /\ \A x \in S : e <= x
    <2>1. e = Min(S)
      OBVIOUS
    <2>. HIDE DEF S
    <2>2. Min(S) \in S /\ \A x \in S : Min(S) <= x
      BY <1>2, MinIsLeast
    <2>. QED BY <2>1, <2>2, Zenon
  <1>4. e \in Nat /\ \A x \in H : e <= x
    <2>1. e \in Nat
      <3>. HIDE DEF S
      <3>. QED BY <1>2, <1>3
    <2>2. \A x \in H : x \in S
      OBVIOUS
    <2>. HIDE DEF S
    <2>. QED BY <1>3, <2>1, <2>2
  <1>5. p \in Int /\ \A x \in H : x \in Int
    OBVIOUS
  <1>6. ASSUME NEW k \in p .. e - 1, k \in H PROVE FALSE
    <2>1. k \in Int /\ k <= e - 1 /\ e \in Nat
      BY <1>4, <1>5
    <2>2. e <= k
      BY <1>4, <1>6
    <2>. QED BY <2>1, <2>2
  <1>. QED BY <1>6, Zenon

\* No opening bracket in a name, or in white space.
LEMMA PlainScan ==
  ASSUME NEW s \in Text, NEW p \in 1 .. Len(s) + 1
  PROVE  /\ scanName(s, p) \in p .. Len(s) + 1 /\ skipSpace(s, p) \in p .. Len(s) + 1
         /\ \A k \in p .. scanName(s, p) - 1 : s[k] \notin Opens
         /\ \A k \in p .. skipSpace(s, p) - 1 : s[k] \notin Opens
  <1>0. Len(s) \in Nat
    BY DEF Text
  <1>1. scanName(s, p) \in p .. Len(s) + 1 /\ skipSpace(s, p) \in p .. Len(s) + 1
    BY ScansForward
  <1>2. ASSUME NEW k \in p .. scanName(s, p) - 1 PROVE s[k] \notin Opens
    <2>. DEFINE N == Spaces \cup {"(", "{", ":", ","}
                H == {j \in p .. Len(s) : s[j] \in N}
    <2>1. Opens \subseteq N
      BY Zenon DEF Opens
    <2>2. scanName(s, p) = Min(H \cup {Max({p, Len(s) + 1})})
      BY Zenon DEF scanName, Until
    <2>. HIDE DEF N
    <2>3. H \in SUBSET (p .. Len(s))
      OBVIOUS
    <2>4. k \notin H
      <3>. HIDE DEF H
      <3>. QED BY <1>0, <2>2, <2>3, NoneBefore
    <2>5. k \in p .. Len(s)
      BY <1>0, <1>1
    <2>. QED BY <2>1, <2>4, <2>5
  <1>3. ASSUME NEW k \in p .. skipSpace(s, p) - 1 PROVE s[k] \notin Opens
    <2>. DEFINE H == {j \in p .. Len(s) : ~isSpace(s[j])}
    <2>1. skipSpace(s, p) = Min(H \cup {Max({p, Len(s) + 1})})
      BY Zenon DEF skipSpace
    <2>2. H \in SUBSET (p .. Len(s))
      OBVIOUS
    <2>3. k \notin H
      <3>. HIDE DEF H
      <3>. QED BY <1>0, <2>1, <2>2, NoneBefore
    <2>4. k \in p .. Len(s)
      BY <1>0, <1>1
    <2>5. isSpace(s[k])
      BY <2>3, <2>4
    <2>. QED BY <2>5, Zenon DEF isSpace, Spaces, Opens
  <1>. QED BY <1>1, <1>2, <1>3

\* None in a name with its alias.
LEMMA PlainNames ==
  ASSUME NEW s \in Text, NEW p \in 1 .. Len(s) + 1
  PROVE  /\ scanNames(s, p) \in p .. Len(s) + 1
         /\ \A k \in p .. scanNames(s, p) - 1 : s[k] \notin Opens
  <1>. DEFINE n == Len(s)
              b == scanName(s, p)
              c == skipSpace(s, b)
              d == skipSpace(s, c + 1)
              e == scanName(s, d)
              f == skipSpace(s, e)
  <1>0. n \in Nat
    BY DEF Text
  <1>1. b \in p .. n + 1 /\ \A k \in p .. b - 1 : s[k] \notin Opens
    BY PlainScan
  <1>2. c \in b .. n + 1 /\ \A k \in b .. c - 1 : s[k] \notin Opens
    <2>1. b \in 1 .. n + 1
      BY <1>0, <1>1
    <2>. HIDE DEF b
    <2>. QED BY <2>1, PlainScan
  <1>. HIDE DEF b, c
  <1>3. c \in p .. n + 1 /\ \A k \in p .. c - 1 : s[k] \notin Opens
    BY <1>0, <1>1, <1>2
  <1>4. CASE ~At(s, c, ":")
    <2>1. scanNames(s, p) = c
      BY <1>4 DEF scanNames, b, c
    <2>. QED BY <1>3, <2>1
  <1>5. CASE At(s, c, ":")
    <2>1. c <= n /\ s[c] \notin Opens
      <3>1. c <= Len(s) /\ s[c] = ":"
        BY <1>5, Zenon DEF At
      <3>2. s[c] \notin Opens
        BY <3>1, Zenon DEF Opens
      <3>. QED BY <3>1, <3>2
    <2>2. c + 1 \in 1 .. n + 1
      BY <1>0, <1>3, <2>1
    <2>3. d \in c + 1 .. n + 1 /\ \A k \in c + 1 .. d - 1 : s[k] \notin Opens
      BY <2>2, PlainScan
    <2>4. d \in 1 .. n + 1
      BY <1>0, <2>2, <2>3
    <2>5. e \in d .. n + 1 /\ \A k \in d .. e - 1 : s[k] \notin Opens
      <3>. HIDE DEF d
      <3>. QED BY <2>4, PlainScan
    <2>6. e \in 1 .. n + 1
      BY <1>0, <2>4, <2>5
    <2>7. f \in e .. n + 1 /\ \A k \in e .. f - 1 : s[k] \notin Opens
      <3>. HIDE DEF e
      <3>. QED BY <2>6, PlainScan
    <2>8. scanNames(s, p) = f
      BY <1>5 DEF scanNames, b, c
    <2>. HIDE DEF d, e, f
    <2>9. f \in p .. n + 1
      BY <1>0, <1>3, <2>1, <2>3, <2>5, <2>7
    <2>10. ASSUME NEW k \in p .. f - 1 PROVE s[k] \notin Opens
      <3>1. k \in p .. c - 1 \/ k = c \/ k \in c + 1 .. d - 1 \/ k \in d .. e - 1 \/ k \in e .. f - 1
        BY <1>0, <1>3, <2>1, <2>3, <2>5, <2>7
      <3>. QED BY <1>3, <2>1, <2>3, <2>5, <2>7, <3>1
    <2>. QED BY <2>8, <2>9, <2>10
  <1>. QED BY <1>4, <1>5

\* A run of the part without an opening bracket stays at the level.
LEMMA PlainInside ==
  ASSUME NEW s \in Text, NEW q \in Text, NEW off, Within(s, q, off),
         NEW a \in 1 .. Len(q), Nests(q, a), a <= off,
         NEW p \in 1 .. Len(s) + 1, NEW e \in p .. Len(s) + 1,
         \A k \in p .. e - 1 : s[k] \notin Opens, AtLevel(q, a, off, p)
  PROVE  AtLevel(q, a, off, e)
  <1>. DEFINE P == off + p
              r == (off + e) - 1
  <1>0. /\ Len(s) \in Nat /\ Len(q) \in Nat /\ off \in Nat /\ off + Len(s) <= Len(q)
        /\ \A k \in 1 .. Len(s) : s[k] = q[off + k]
    BY DEF Text, Within
  <1>1. P \in Int /\ r \in Int /\ a < P /\ P <= r + 1 /\ r <= Len(q)
    BY <1>0
  <1>2. ASSUME NEW x \in P .. r PROVE q[x] \notin Opens
    <2>1. x - off \in p .. e - 1 /\ x - off \in 1 .. Len(s) /\ off + (x - off) = x
      BY <1>0, <1>1
    <2>. DEFINE k == x - off
    <2>2. s[k] = q[off + k] /\ s[k] \notin Opens
      BY <1>0, <2>1
    <2>. QED BY <2>1, <2>2
  <1>3. Level(q, a, P - 1)
    BY DEF AtLevel
  <1>4. \A P1, r1 \in Int :
          (a < P1 /\ P1 <= r1 + 1 /\ r1 <= Len(q) /\ Level(q, a, P1 - 1)
             /\ \A x \in P1 .. r1 : q[x] \notin Opens) => Level(q, a, r1)
    BY PlainRun
  <1>5. Level(q, a, r)
    <2>. HIDE DEF P, r
    <2>. QED BY <1>1, <1>2, <1>3, <1>4
  <1>. QED BY <1>5 DEF AtLevel

-----------------------------------------------------------------------------
(***************************************************************************)
(* A field, and the text between the document's braces                     *)
(***************************************************************************)
\* A field that is accepted leaves the document at its level.
LEMMA FieldLevel ==
  ASSUME NEW s \in Text, NEW q \in Text, NEW off, Within(s, q, off),
         NEW a \in 1 .. Len(q), Nests(q, a), a <= off,
         NEW start \in 1 .. Len(s), AtLevel(q, a, off, start), scanField(s, start).err = "nil"
  PROVE  AtLevel(q, a, off, scanField(s, start).end)
  <1>. DEFINE n == Len(s)
              b == scanNames(s, start)
              closed == findMatchingParen(s, b)
              args == At(s, b, "(")
              j == IF args THEN skipSpace(s, closed + 1) ELSE b
              shut == findMatchingBrace(s, j)
              sel == At(s, j, "{")
              k == IF sel THEN shut + 1 ELSE j
  <1>0. n \in Nat /\ off \in Nat /\ start \in 1 .. n + 1
    BY DEF Text, Within
  <1>1. b \in start .. n + 1 /\ \A x \in start .. b - 1 : s[x] \notin Opens
    BY <1>0, PlainNames
  <1>2. scanField(s, start) =
          IF args /\ closed <= b THEN Bad("unclosed arguments")
          ELSE IF sel /\ shut <= j THEN Bad("unclosed selection set")
          ELSE IF k = start THEN Bad("cannot parse field") ELSE Ends(k)
    BY DEF scanField
  <1>. HIDE DEF b, n, args, sel
  <1>3. ~(args /\ closed <= b) /\ ~(sel /\ shut <= j) /\ scanField(s, start).end = k
    <2>. HIDE DEF closed, j, shut, k
    <2>1. /\ Bad("unclosed arguments").err # "nil"
          /\ Bad("unclosed selection set").err # "nil"
          /\ Bad("cannot parse field").err # "nil"
      BY Zenon DEF Bad
    <2>2. Ends(k).end = k
      BY DEF Ends
    <2>. QED BY <1>2, <2>1, <2>2, Zenon
  <1>4. AtLevel(q, a, off, b)
    BY <1>0, <1>1, PlainInside DEF n
  <1>5. j \in 1 .. n + 1 /\ AtLevel(q, a, off, j)
    <2>1. CASE ~args
      BY <1>0, <1>1, <1>4, <2>1
    <2>2. CASE args
      <3>1. b \in 1 .. n
        BY <1>0, <1>1, <2>2 DEF At, args, n
      <3>2. closed # 0
        <4>. HIDE DEF closed
        <4>. QED BY <1>3, <2>2, <3>1
      <3>3. closed \in b .. n /\ Level(q, a, off + closed)
        <4>1. \A P : P = off + b /\ Level(q, a, P - 1) => closed \in b .. n /\ Level(q, a, off + closed)
          BY <3>1, <3>2, ArgsLevel DEF n
        <4>. QED BY <1>4, <4>1 DEF AtLevel
      <3>. DEFINE z == closed + 1
      <3>. HIDE DEF closed
      <3>4. z \in 1 .. n + 1 /\ (off + z) - 1 = off + closed
        BY <1>0, <3>1, <3>3
      <3>5. AtLevel(q, a, off, z)
        BY <3>3, <3>4 DEF AtLevel
      <3>. HIDE DEF z
      <3>6. skipSpace(s, z) \in z .. n + 1 /\ \A x \in z .. skipSpace(s, z) - 1 : s[x] \notin Opens
        BY <3>4, PlainScan DEF n
      <3>7. AtLevel(q, a, off, skipSpace(s, z))
        BY <3>4, <3>5, <3>6, PlainInside DEF n
      <3>8. skipSpace(s, z) \in 1 .. n + 1
        BY <1>0, <3>4, <3>6
      <3>9. j = skipSpace(s, z)
        BY <2>2 DEF z
      <3>. HIDE DEF j
      <3>. QED BY <3>7, <3>8, <3>9
    <2>. QED BY <2>1, <2>2
  <1>. HIDE DEF j
  <1>6. AtLevel(q, a, off, k)
    <2>1. CASE ~sel
      BY <1>5, <2>1
    <2>2. CASE sel
      <3>1. j \in 1 .. n /\ s[j] = LBrace
        <4>1. j <= Len(s) /\ s[j] = LBrace
          BY <2>2, Zenon DEF At, sel, LBrace
        <4>. QED BY <1>0, <1>5, <4>1 DEF n
      <3>2. shut # 0
        <4>. HIDE DEF shut
        <4>. QED BY <1>0, <1>3, <2>2, <3>1
      <3>3. shut \in j .. n /\ Level(q, a, off + shut)
        <4>1. \A P : P = off + j /\ Level(q, a, P - 1) => shut \in j .. n /\ Level(q, a, off + shut)
          BY <3>1, <3>2, SelectionLevel DEF n
        <4>. QED BY <1>5, <4>1 DEF AtLevel
      <3>. HIDE DEF shut
      <3>4. k = shut + 1 /\ (off + k) - 1 = off + shut
        BY <1>0, <2>2, <3>1, <3>3
      <3>. QED BY <3>3, <3>4 DEF AtLevel
    <2>. QED BY <2>1, <2>2
  <1>. HIDE DEF k
  <1>. QED BY <1>3, <1>6

\* What Trim leaves is what is between two runs of white space.
LEMMA TrimWithin ==
  ASSUME NEW t \in Text
  PROVE  \E o \in Nat :
           /\ Within(Trim(t), t, o)
           /\ \A x \in 1 .. o : isSpace(t[x])
           /\ \A x \in o + Len(Trim(t)) + 1 .. Len(t) : isSpace(t[x])
  <1>. DEFINE solid == {j \in 1 .. Len(t) : ~isSpace(t[j])}
  <1>1. Len(t) \in Nat /\ solid \in SUBSET Nat /\ solid \subseteq 1 .. Len(t)
    BY DEF Text
  <1>2. Trim(t) = IF solid = {} THEN <<>> ELSE SubSeq(t, Min(solid), Max(solid))
    BY DEF Trim
  <1>3. \A x \in 1 .. Len(t) : x \notin solid => isSpace(t[x])
    OBVIOUS
  <1>. HIDE DEF solid
  <1>4. CASE solid = {}
    <2>1. Trim(t) = <<>> /\ Len(Trim(t)) = 0
      BY <1>2, <1>4
    <2>2. Within(Trim(t), t, 0)
      BY <1>1, <2>1 DEF Within
    <2>3. \A x \in 1 .. 0 : isSpace(t[x])
      OBVIOUS
    <2>4. \A x \in 0 + Len(Trim(t)) + 1 .. Len(t) : isSpace(t[x])
      BY <1>1, <1>3, <1>4, <2>1
    <2>. QED BY <2>2, <2>3, <2>4
  <1>5. CASE solid # {}
    <2>1. Min(solid) \in solid /\ \A x \in solid : Min(solid) <= x
      BY <1>1, <1>5, MinIsLeast
    <2>2. Max(solid) \in solid /\ \A x \in solid : x <= Max(solid)
      <3>1. \A x \in solid : x <= Len(t)
        BY <1>1
      <3>. QED BY <1>1, <1>5, <3>1, MaxIsGreatest
    <2>. DEFINE m == Min(solid)
                y == Max(solid)
                o == m - 1
                r == SubSeq(t, m, y)
    <2>3. Trim(t) = r
      BY <1>2, <1>5
    <2>4. /\ m \in 1 .. Len(t) /\ y \in 1 .. Len(t) /\ m <= y
          /\ \A x \in 1 .. Len(t) : x < m \/ x > y => isSpace(t[x])
      <3>1. m \in solid /\ y \in solid /\ m <= y /\ \A x \in solid : m <= x /\ x <= y
        BY <2>1, <2>2
      <3>. HIDE DEF m, y
      <3>2. m \in 1 .. Len(t) /\ y \in 1 .. Len(t) /\ m <= y
        BY <1>1, <3>1
      <3>3. \A x \in 1 .. Len(t) : x < m \/ x > y => x \notin solid
        BY <1>1, <3>1, <3>2
      <3>. QED BY <1>3, <3>2, <3>3
    <2>. HIDE DEF m, y
    <2>5. Len(r) = y - m + 1 /\ \A k \in 1 .. Len(r) : r[k] = t[o + k]
      <3>1. \A x \in m .. y : t[x] \in STRING
        BY <1>1, <2>4 DEF Text
      <3>2. m \in Int /\ y \in Int
        BY <1>1, <2>4
      <3>3. Len(r) = IF m <= y THEN y - m + 1 ELSE 0
        BY <3>1, <3>2, SubSeqProperties
      <3>4. \A k \in 1 .. (y - m) + 1 : r[k] = t[(m + k) - 1]
        BY <2>4, <3>1, <3>2, SubSeqProperties
      <3>5. \A k \in 1 .. (y - m) + 1 : (m + k) - 1 = o + k
        BY <3>2
      <3>. QED BY <2>4, <3>2, <3>3, <3>4, <3>5
    <2>. HIDE DEF r
    <2>6. o \in Nat /\ o + Len(r) = y
      BY <1>1, <2>4, <2>5
    <2>7. Within(r, t, o)
      BY <1>1, <2>4, <2>5, <2>6 DEF Within
    <2>8. \A x \in 1 .. o : isSpace(t[x])
      BY <1>1, <2>4
    <2>9. \A x \in o + Len(r) + 1 .. Len(t) : isSpace(t[x])
      BY <1>1, <2>4, <2>6
    <2>. HIDE DEF o
    <2>. QED BY <2>3, <2>6, <2>7, <2>8, <2>9
  <1>. QED BY <1>4, <1>5

-----------------------------------------------------------------------------
(***************************************************************************)
(* Truncated documents                                                     *)
(***************************************************************************)
\* The part of q after off ends, but for white space, at a closing brace.
EndsAt(s, q, off) ==
  \E z \in off + Len(s) + 1 .. Len(q) :
    q[z] = RBrace /\ \A x \in off + Len(s) + 1 .. z - 1 : isSpace(q[x])

\* Where the braces are that parseTopFields takes for the document's.
LEMMA BracesFound ==
  ASSUME NEW q \in Text, Shapeless(q) = "nil"
  PROVE  /\ Index(q, LBrace) \in 1 .. Len(q) /\ q[Index(q, LBrace)] = LBrace
         /\ LastIndex(q, RBrace) \in 1 .. Len(q) /\ q[LastIndex(q, RBrace)] = RBrace
         /\ Index(q, LBrace) < LastIndex(q, RBrace)
  <1>. DEFINE a == Index(q, LBrace)
              z == LastIndex(q, RBrace)
  <1>0. Len(q) \in Nat
    BY DEF Text
  <1>1. a # 0 /\ ~(z <= a)
    BY Zenon DEF Shapeless, LBrace, RBrace
  <1>2. ASSUME NEW c, Index(q, c) # 0
        PROVE  Index(q, c) \in 1 .. Len(q) /\ q[Index(q, c)] = c
    <2>1. Places(q, c) # {} /\ Index(q, c) = Min(Places(q, c))
      BY <1>2 DEF Index
    <2>2. Places(q, c) \in SUBSET Nat
      BY <1>0 DEF Places
    <2>3. Index(q, c) \in Places(q, c)
      BY <2>1, <2>2, MinIsLeast
    <2>. QED BY <2>3 DEF Places
  <1>3. a \in 1 .. Len(q) /\ q[a] = LBrace
    BY <1>1, <1>2
  <1>4. z \in 0 .. Len(q)
    BY IndexInside
  <1>. HIDE DEF a
  <1>5. z # 0 /\ z \in 1 .. Len(q) /\ a < z
    BY <1>0, <1>1, <1>3, <1>4
  <1>6. q[z] = RBrace
    <2>1. Places(q, RBrace) # {} /\ z = Max(Places(q, RBrace))
      BY <1>5 DEF LastIndex
    <2>2. Places(q, RBrace) \in SUBSET Nat /\ \A x \in Places(q, RBrace) : x <= Len(q)
      BY <1>0 DEF Places
    <2>3. z \in Places(q, RBrace)
      BY <1>0, <2>1, <2>2, MaxIsGreatest
    <2>. QED BY <2>3 DEF Places
  <1>. QED BY <1>3, <1>5, <1>6 DEF a

\* The text the scanner gets is the part of the document between them.
LEMMA BodyWithin ==
  ASSUME NEW q \in Text, Shapeless(q) = "nil"
  PROVE  \E off \in Nat :
           /\ Within(Body(q), q, off) /\ Index(q, LBrace) <= off
           /\ \A x \in Index(q, LBrace) + 1 .. off : isSpace(q[x])
           /\ EndsAt(Body(q), q, off)
  <1>. DEFINE a == Index(q, LBrace)
              z == LastIndex(q, RBrace)
              t == SubSeq(q, a + 1, z - 1)
  <1>0. /\ Len(q) \in Nat /\ a \in 1 .. Len(q) /\ z \in 1 .. Len(q) /\ a < z /\ q[z] = RBrace
    BY BracesFound DEF Text
  <1>1. Body(q) = Trim(t)
    BY Zenon DEF Body, LBrace, RBrace
  <1>. HIDE DEF a, z
  <1>2. t \in Text /\ Len(t) = z - a - 1 /\ \A k \in 1 .. Len(t) : t[k] = q[a + k]
    <2>1. \A x \in a + 1 .. z - 1 : q[x] \in STRING
      BY <1>0 DEF Text
    <2>2. a + 1 \in Int /\ z - 1 \in Int
      BY <1>0
    <2>. DEFINE m == a + 1
                y == z - 1
    <2>3. m \in Int /\ y \in Int /\ \A x \in m .. y : q[x] \in STRING
      BY <2>1, <2>2
    <2>4. t = SubSeq(q, m, y)
      OBVIOUS
    <2>5. (y - m) + 1 = z - a - 1 /\ \A k \in Int : (m + k) - 1 = a + k
      BY <1>0
    <2>6. m <= y \/ z - a - 1 = 0
      BY <1>0
    <2>. HIDE DEF m, y, t
    <2>7. t \in Text
      BY <2>3, <2>4, SubSeqProperties, Zenon DEF Text
    <2>8. Len(t) = IF m <= y THEN y - m + 1 ELSE 0
      BY <2>3, <2>4, SubSeqProperties
    <2>9. \A k \in 1 .. (y - m) + 1 : t[k] = q[(m + k) - 1]
      BY <2>3, <2>4, SubSeqProperties
    <2>10. Len(t) = z - a - 1
      BY <2>3, <2>5, <2>6, <2>8
    <2>. QED BY <2>5, <2>7, <2>9, <2>10
  <1>. HIDE DEF t
  <1>3. PICK o \in Nat :
          /\ Within(Trim(t), t, o)
          /\ \A x \in 1 .. o : isSpace(t[x])
          /\ \A x \in o + Len(Trim(t)) + 1 .. Len(t) : isSpace(t[x])
    BY <1>2, TrimWithin
  <1>. DEFINE s == Trim(t)
              off == a + o
  <1>4. s \in Text /\ Len(s) \in Nat /\ o + Len(s) <= Len(t) /\ \A k \in 1 .. Len(s) : s[k] = t[o + k]
    BY <1>2, <1>3, TrimType DEF Within, Text
  <1>. HIDE DEF s
  <1>5. off \in Nat /\ a <= off /\ off + Len(s) <= z - 1
    BY <1>0, <1>2, <1>4
  <1>6. Within(s, q, off)
    <2>1. ASSUME NEW k \in 1 .. Len(s) PROVE s[k] = q[off + k]
      <3>. DEFINE x == o + k
      <3>1. x \in 1 .. Len(t) /\ a + x = off + k
        BY <1>0, <1>2, <1>4
      <3>2. s[k] = t[x]
        BY <1>4
      <3>. HIDE DEF x
      <3>3. t[x] = q[a + x]
        BY <1>2, <3>1
      <3>. QED BY <3>1, <3>2, <3>3
    <2>2. off + Len(s) <= Len(q)
      BY <1>0, <1>4, <1>5
    <2>. QED BY <1>5, <2>1, <2>2 DEF Within
  <1>7. ASSUME NEW x \in a + 1 .. off PROVE isSpace(q[x])
    <2>. DEFINE k == x - a
    <2>1. k \in 1 .. o /\ a + k = x /\ k \in 1 .. Len(t)
      BY <1>0, <1>2, <1>4
    <2>. HIDE DEF k
    <2>. QED BY <1>2, <1>3, <2>1
  <1>8. ASSUME NEW x \in off + Len(s) + 1 .. z - 1 PROVE isSpace(q[x])
    <2>. DEFINE k == x - a
    <2>1. k \in o + Len(s) + 1 .. Len(t) /\ a + k = x /\ k \in 1 .. Len(t)
      BY <1>0, <1>2, <1>4
    <2>. HIDE DEF k
    <2>. QED BY <1>2, <1>3, <2>1 DEF s
  <1>9. EndsAt(s, q, off)
    <2>1. z \in off + Len(s) + 1 .. Len(q)
      BY <1>0, <1>4, <1>5
    <2>. HIDE DEF off
    <2>. QED BY <1>0, <1>8, <2>1 DEF EndsAt
  <1>10. Body(q) = s
    BY <1>1 DEF s
  <1>. HIDE DEF off
  <1>. QED BY <1>5, <1>6, <1>7, <1>9, <1>10 DEF a

\* White space holds no opening bracket, and neither does a comma.
LEMMA SpacePlain ==
  ASSUME NEW c, isSpace(c) \/ c = ","
  PROVE  c \notin Opens
  BY Zenon DEF isSpace, Spaces, Opens

\* The first field of a document that nests is at the level,
LEMMA StartsLevel ==
  ASSUME NEW q \in Text, NEW a \in 1 .. Len(q), q[a] = LBrace, Nests(q, a), NEW off \in Nat,
         a <= off, off <= Len(q), \A x \in a + 1 .. off : isSpace(q[x])
  PROVE  AtLevel(q, a, off, 1)
  <1>0. Len(q) \in Nat /\ a \in a .. Len(q) /\ a \in Int
    BY DEF Text
  <1>1. q[a] # Quote /\ q[a] \in Opens /\ q[a] \notin Closes
    BY Zenon DEF LBrace, Quote, Opens, Closes
  <1>2. Quotes(q, a, a) = {}
    BY <1>0, <1>1 DEF Quotes
  <1>3. Cardinality(Quotes(q, a, a)) % 2 = 0
    <2>1. Cardinality(Quotes(q, a, a)) = 0
      BY <1>2, FS_EmptySet
    <2>. QED BY <2>1
  <1>4. a \in Unquoted(q, a)
    BY <1>0, <1>1, <1>3 DEF Unquoted, Quotes
  <1>5. Depth(q, a, a - 1) = 0
    <2>1. \A x \in Unquoted(q, a) : ~(x <= a - 1)
      BY <1>0 DEF Unquoted
    <2>2. \A K : {x \in Unquoted(q, a) : x <= a - 1 /\ q[x] \in K} = {}
      BY <2>1
    <2>3. Depth(q, a, a - 1) = Cardinality({}) - Cardinality({})
      BY <2>2, Zenon DEF Depth, Open
    <2>4. Cardinality({}) = 0
      BY FS_EmptySet
    <2>. QED BY <2>3, <2>4
  <1>6. Depth(q, a, a) = 1
    BY <1>0, <1>1, <1>4, <1>5, DepthStep
  <1>7. Level(q, a, a)
    BY <1>3, <1>6 DEF Level
  <1>. DEFINE p == a + 1
  <1>8. /\ p \in Int /\ off \in Int /\ a < p /\ p <= off + 1 /\ p - 1 = a
        /\ \A x \in p .. off : q[x] \notin Opens
    <2>1. \A x \in p .. off : q[x] \notin Opens
      BY SpacePlain
    <2>. QED BY <1>0, <2>1
  <1>. HIDE DEF p
  <1>9. Level(q, a, p - 1)
    BY <1>7, <1>8
  <1>10. Level(q, a, off)
    BY <1>8, <1>9, PlainRun
  <1>11. (off + 1) - 1 = off
    OBVIOUS
  <1>. QED BY <1>10, <1>11 DEF AtLevel

\* and its end is never reached: the brace there would have to close the first one.
LEMMA NeverEnds ==
  ASSUME NEW s \in Text, NEW q \in Text, NEW off, Within(s, q, off),
         NEW a \in 1 .. Len(q), Nests(q, a), a <= off, EndsAt(s, q, off),
         AtLevel(q, a, off, Len(s) + 1)
  PROVE  FALSE
  <1>0. Len(s) \in Nat /\ Len(q) \in Nat /\ off \in Nat
    BY DEF Text, Within
  <1>1. PICK z \in off + Len(s) + 1 .. Len(q) :
          q[z] = RBrace /\ \A x \in off + Len(s) + 1 .. z - 1 : isSpace(q[x])
    BY DEF EndsAt
  <1>. DEFINE p == off + Len(s) + 1
  <1>2. p \in Int /\ z \in Int /\ a < p /\ p <= z + 1 /\ z <= Len(q) /\ z \in p .. z
    BY <1>0
  <1>3. Level(q, a, p - 1)
    <2>1. (off + (Len(s) + 1)) - 1 = p - 1
      BY <1>0
    <2>. QED BY <2>1 DEF AtLevel
  <1>4. \A x \in p .. z : q[x] \notin Opens
    <2>1. RBrace \notin Opens
      BY Zenon DEF RBrace, Opens
    <2>2. \A x \in p .. z - 1 : q[x] \notin Opens
      BY <1>1, SpacePlain
    <2>. HIDE DEF p
    <2>3. \A x \in p .. z : x = z \/ x \in p .. z - 1
      BY <1>2
    <2>. QED BY <1>1, <2>1, <2>2, <2>3
  <1>. HIDE DEF p
  <1>5. q[z] \notin Closes
    BY <1>2, <1>3, <1>4, PlainRun
  <1>. QED BY <1>1, <1>5, Zenon DEF RBrace, Closes

\* The scanner is at the level of a document whose first brace is never closed.
AtField(q) ==
  LET a == Index(q, LBrace) IN
    /\ a \in 1 .. Len(q) /\ Nests(q, a)
    /\ \E off : /\ Within(body, q, off) /\ a <= off /\ EndsAt(body, q, off)
               /\ AtLevel(q, a, off, i)

\* A truncated document is being scanned, or was refused.
CutInv ==
  /\ pc # "answered" => resp = None
  /\ pc \in {"scan", "resolve"} => asked \in Requests
  /\ pc \in {"scan", "resolve"} /\ Unfinished(asked.text) => pc = "scan" /\ AtField(Trim(asked.text))
  /\ pc = "answered" /\ asked # None /\ resp # None /\ Unfinished(asked.text) => DOMAIN resp = {"error"}

\* What Unfinished says of a document with a brace.
LEMMA UnfinishedNests ==
  ASSUME NEW text, Unfinished(text), Index(Trim(text), LBrace) # 0
  PROVE  Nests(Trim(text), Index(Trim(text), LBrace))
  BY Zenon DEF Unfinished, Nests, Depth, ShutAt, Opens, Closes, LBraces, RBraces, LBrace, RBrace

\* An error answers any document.
LEMMA RefusalKeeps ==
  ASSUME NEW e, Answer(Error(e))
  PROVE  CutInv'
  <1>1. DOMAIN Error(e) = {"error"}
    BY DEF Error
  <1>2. pc' = "answered" /\ resp' = Error(e)
    BY DEF Answer
  <1>. QED BY <1>1, <1>2 DEF CutInv

\* So does none.
LEMMA SilenceKeeps ==
  ASSUME Answer(None)
  PROVE  CutInv'
  <1>1. pc' = "answered" /\ resp' = None
    BY DEF Answer
  <1>. QED BY <1>1 DEF CutInv

\* Every step of the scanner keeps a truncated document from being resolved.
LEMMA CutStep ==
  ASSUME ScanInv, CutInv, [Next]_vars
  PROVE  CutInv'
  <1>0. body \in Text /\ Len(body) \in Nat /\ i \in 1 .. Len(body) + 1
    BY DEF ScanInv, TypeOK, Text
  <1>t. pc \in {"scan", "resolve"} => Trim(asked.text) \in Text
    BY QueryConstants, TrimType DEF CutInv, Text
  <1>1. ASSUME NEW schema \in Asked, LoadSchema(schema) PROVE CutInv'
    <2>1. pc = "load" /\ pc' \in {"exited", "idle"} /\ UNCHANGED resp
      BY <1>1, Zenon DEF LoadSchema
    <2>. QED BY <2>1 DEF CutInv
  <1>2. CASE BadRequest
    BY <1>2, RefusalKeeps DEF BadRequest
  <1>3. ASSUME NEW r \in Requests, Execute(r) PROVE CutInv'
    <2>. DEFINE q == Trim(r.text)
    <2>1. q \in Text
      BY QueryConstants, TrimType DEF Text
    <2>2. /\ pc = "idle" /\ asked' = r
          /\ IF Refusal(q) # "nil" THEN Answer(Error(Refusal(q)))
             ELSE /\ pc' = "scan" /\ body' = Body(q) /\ UNCHANGED <<i, fields, done, data, resp>>
      BY <1>3 DEF Execute
    <2>3. CASE Refusal(q) # "nil"
      <3>. HIDE DEF q
      <3>. QED BY <2>2, <2>3, RefusalKeeps
    <2>4. CASE Refusal(q) = "nil"
      <3>1. Shapeless(q) = "nil"
        <4>. HIDE DEF q
        <4>. QED BY <2>4, Zenon DEF Refusal
      <3>2. i' = 1 /\ body' = Body(q) /\ pc' = "scan" /\ resp' = None
        BY <2>2, <2>4 DEF ScanInv, TypeOK, CutInv
      <3>3. ASSUME Unfinished(r.text) PROVE AtField(q)'
        <4>. DEFINE a == Index(q, LBrace)
        <4>1. a \in 1 .. Len(q) /\ q[a] = LBrace
          BY <2>1, <3>1, BracesFound
        <4>2. a # 0
          <5>. HIDE DEF a
          <5>. QED BY <4>1
        <4>3. Nests(q, a)
          BY <3>3, <4>2, UnfinishedNests
        <4>. HIDE DEF q
        <4>4. PICK off \in Nat :
                /\ Within(Body(q), q, off) /\ a <= off
                /\ \A x \in a + 1 .. off : isSpace(q[x])
                /\ EndsAt(Body(q), q, off)
          BY <2>1, <3>1, BodyWithin
        <4>5. off <= Len(q)
          <5>1. Body(q) \in Text
            BY <2>1, <3>1, BodyType
          <5>. QED BY <2>1, <4>4, <5>1 DEF Within, Text
        <4>6. AtLevel(q, a, off, 1)
          <5>. HIDE DEF a
          <5>. QED BY <2>1, <4>1, <4>3, <4>4, <4>5, StartsLevel
        <4>7. (body' = Body(q) /\ i' = 1) => AtField(q)'
          <5>1. \E o : Within(Body(q), q, o) /\ a <= o /\ EndsAt(Body(q), q, o) /\ AtLevel(q, a, o, 1)
            BY <4>4, <4>6
          <5>. QED BY <4>1, <4>3, <5>1, Zenon DEF AtField
        <4>. QED BY <3>2, <4>7
      <3>. QED BY <2>2, <3>2, <3>3, Zenon DEF CutInv
    <2>. QED BY <2>3, <2>4
  <1>4. CASE SkipSeparator
    <2>1. /\ pc = "scan" /\ i <= Len(body) /\ (isSpace(body[i]) \/ body[i] = ",") /\ i' = i + 1
          /\ UNCHANGED <<pc, asked, body, resp>>
      BY <1>4, Zenon DEF SkipSeparator, Separator
    <2>2. ASSUME NEW q \in Text, AtField(q) PROVE AtField(q)'
      <3>. DEFINE a == Index(q, LBrace)
      <3>1. a \in 1 .. Len(q) /\ Nests(q, a)
        BY <2>2 DEF AtField
      <3>2. PICK off : Within(body, q, off) /\ a <= off /\ EndsAt(body, q, off) /\ AtLevel(q, a, off, i)
        BY <2>2 DEF AtField
      <3>3. body[i] \notin Opens
        BY <2>1, SpacePlain
      <3>4. i + 1 \in i .. Len(body) + 1 /\ \A k \in i .. (i + 1) - 1 : body[k] \notin Opens
        <4>1. \A k \in i .. (i + 1) - 1 : k = i
          BY <1>0
        <4>2. i + 1 \in i .. Len(body) + 1
          <5>1. i <= Len(body)
            BY <2>1, Zenon
          <5>. QED BY <1>0, <5>1
        <4>. QED BY <3>3, <4>1, <4>2
      <3>. HIDE DEF a
      <3>5. AtLevel(q, a, off, i + 1)
        BY <1>0, <3>1, <3>2, <3>4, PlainInside
      <3>. QED BY <2>1, <3>1, <3>2, <3>5 DEF AtField, a
    <2>. QED BY <1>t, <2>1, <2>2 DEF CutInv
  <1>5. CASE ScanField
    <2>. DEFINE scan == scanField(body, i)
    <2>1. /\ pc = "scan" /\ i <= Len(body) /\ UNCHANGED asked
          /\ IF scan.err # "nil" THEN Answer(Error(scan.err))
             ELSE Answer(None) \/ (i' = scan.end /\ UNCHANGED <<pc, body, resp>>)
      BY <1>5, Zenon DEF ScanField
    <2>2. CASE scan.err # "nil"
      <3>. HIDE DEF scan
      <3>. QED BY <2>1, <2>2, RefusalKeeps
    <2>3. CASE scan.err = "nil" /\ Answer(None)
      BY <2>3, SilenceKeeps
    <2>4. CASE scan.err = "nil" /\ ~Answer(None)
      <3>1. ASSUME NEW q \in Text, AtField(q) PROVE AtField(q)'
        <4>. DEFINE a == Index(q, LBrace)
        <4>1. a \in 1 .. Len(q) /\ Nests(q, a)
          BY <3>1 DEF AtField
        <4>2. PICK off : Within(body, q, off) /\ a <= off /\ EndsAt(body, q, off) /\ AtLevel(q, a, off, i)
          BY <3>1 DEF AtField
        <4>3. i \in 1 .. Len(body)
          BY <1>0, <2>1
        <4>. HIDE DEF a
        <4>4. AtLevel(q, a, off, scan.end)
          BY <1>0, <2>4, <4>1, <4>2, <4>3, FieldLevel
        <4>. HIDE DEF scan
        <4>. QED BY <2>1, <2>4, <4>1, <4>2, <4>4 DEF AtField, a
      <3>. HIDE DEF scan
      <3>. QED BY <1>t, <2>1, <2>4, <3>1 DEF CutInv
    <2>. QED BY <2>2, <2>3, <2>4
  <1>6. CASE ScanEnds
    <2>1. CASE fields = <<>>
      BY <1>6, <2>1, RefusalKeeps DEF ScanEnds
    <2>2. CASE fields # <<>> /\ Len(fields) > maxTopFields
      BY <1>6, <2>2, RefusalKeeps DEF ScanEnds
    <2>3. CASE fields # <<>> /\ ~(Len(fields) > maxTopFields)
      <3>1. pc = "scan" /\ i > Len(body) /\ pc' = "resolve" /\ UNCHANGED <<asked, resp>>
        BY <1>6, <2>3 DEF ScanEnds
      <3>2. i = Len(body) + 1
        BY <1>0, <3>1
      <3>3. ASSUME NEW q \in Text, AtField(q) PROVE FALSE
        <4>. DEFINE a == Index(q, LBrace)
        <4>1. a \in 1 .. Len(q) /\ Nests(q, a)
          BY <3>3 DEF AtField
        <4>2. PICK off : Within(body, q, off) /\ a <= off /\ EndsAt(body, q, off) /\ AtLevel(q, a, off, i)
          BY <3>3 DEF AtField
        <4>. HIDE DEF a
        <4>. QED BY <1>0, <3>2, <4>1, <4>2, NeverEnds
      <3>. QED BY <1>t, <3>1, <3>3 DEF CutInv
    <2>. QED BY <2>1, <2>2, <2>3
  <1>7. CASE Resolve
    <2>1. pc = "resolve" /\ UNCHANGED <<pc, asked, resp>>
      BY <1>7 DEF Resolve
    <2>. QED BY <2>1 DEF CutInv
  <1>8. CASE ResolveFails
    BY <1>8, RefusalKeeps DEF ResolveFails
  <1>9. CASE Respond
    <2>1. pc = "resolve" /\ UNCHANGED asked /\ pc' = "answered"
      BY <1>9 DEF Respond, Answer
    <2>. QED BY <2>1 DEF CutInv
  <1>10. CASE Return
    <2>1. pc' = "idle" /\ resp' = None
      BY <1>10 DEF Return
    <2>. QED BY <2>1 DEF CutInv
  <1>11. CASE UNCHANGED vars
    BY <1>11 DEF vars, CutInv, AtField
  <1>. QED BY <1>1, <1>2, <1>3, <1>4, <1>5, <1>6, <1>7, <1>8, <1>9, <1>10, <1>11 DEF Next

\* A truncated document is never answered with the fields it still has, whatever they are
\* and wherever it stops: parseTopFields or the parser refuses it.
THEOREM TruncationRefused == Spec => []TruncatedRefused
  <1>1. Init => CutInv
    BY DEF Init, CutInv
  <1>2. CutInv => TruncatedRefused
    BY DEF CutInv, TruncatedRefused
  <1>. QED BY <1>1, <1>2, CutStep, ScanInvariant, PTL DEF Spec

=============================================================================
