------------------------ MODULE RequestParserProofs ------------------------
(***************************************************************************)
(* Proofs about RequestParser, for any well-formed messages and any limit: *)
(* the types, and that requests whose pieces do not end between CR and LF  *)
(* are parsed as they were sent and to their end.                          *)
(*                                                                         *)
(* What the loop of addRequestChunk() computes is proved by induction over *)
(* its turns, as in CgiOutputProofs.                                       *)
(***************************************************************************)
EXTENDS RequestParser, SequenceTheorems, WellFoundedInduction, TLAPS

-----------------------------------------------------------------------------
(* Induction and iteration                                                 *)

LEMMA Least ==
  ASSUME NEW B, B \subseteq Nat, B # {}
  PROVE  \E x \in B : \A y \in B : x <= y
<1> DEFINE R == {ss \in Nat \X Nat : ss[1] < ss[2]}
<1>1. IsWellFoundedOn(R, Nat)
  BY NatLessThanWellFounded DEF OpToRel
<1>2. PICK x \in B : \A y \in B : ~(<<y, x>> \in R)
  <2> HIDE DEF R
  <2> QED BY <1>1, WFMin
<1>3. ASSUME NEW y \in B PROVE x <= y
  <2>1. x \in Nat /\ y \in Nat /\ ~(y < x)
    BY <1>2
  <2> QED BY <2>1
<1> QED
  BY <1>3

LEMMA Induction ==
  ASSUME NEW T, 0 \in T, \A n \in Nat : n \in T => n + 1 \in T
  PROVE  Nat \subseteq T
<1> SUFFICES ASSUME Nat \ T # {} PROVE FALSE
  OBVIOUS
<1>1. PICK x \in Nat \ T : \A y \in Nat \ T : x <= y
  BY Least
<1>2. x # 0 /\ x - 1 \in Nat /\ (x - 1) + 1 = x
  BY <1>1
<1> QED
  BY <1>1, <1>2

\* The function that repeats a step exists: each of its initial segments does,
\* and any two of them agree.
LEMMA Iteration ==
  ASSUME NEW S, NEW first \in S, NEW step \in [S -> S]
  PROVE  \E f \in [Nat -> S] : f[0] = first /\ \A n \in Nat : f[n + 1] = step[f[n]]
<1> DEFINE Segment(h, n) ==
             /\ h \in [0 .. n -> S] /\ h[0] = first
             /\ \A i \in 0 .. n : i > 0 => h[i] = step[h[i - 1]]
           T == {n \in Nat : \E h : Segment(h, n)}
           At(n) == CHOOSE h : Segment(h, n)
           f == [n \in Nat |-> At(n)[n]]
<1>1. 0 \in T
  <2>1. Segment([i \in 0 .. 0 |-> first], 0)
    OBVIOUS
  <2> QED BY <2>1
<1>2. ASSUME NEW n \in Nat, n \in T PROVE n + 1 \in T
  <2>1. PICK h : Segment(h, n)
    BY <1>2
  <2>2. Segment([i \in 0 .. n + 1 |-> IF i = n + 1 THEN step[h[n]] ELSE h[i]], n + 1)
    BY <2>1
  <2> QED BY SMTT(30), <2>2
<1>3. Nat \subseteq T
  <2> HIDE DEF T
  <2> QED BY <1>1, <1>2, Induction
<1>4. \A n \in Nat : Segment(At(n), n)
  BY <1>3
<1> HIDE DEF At
<1>5. ASSUME NEW n \in Nat PROVE At(n + 1)[n] = At(n)[n]
  <2> DEFINE U == {i \in Nat : i <= n => At(n + 1)[i] = At(n)[i]}
  <2>1. 0 \in U
    BY <1>4
  <2>2. ASSUME NEW i \in Nat, i \in U, i + 1 <= n PROVE At(n + 1)[i + 1] = At(n)[i + 1]
    BY <1>4, <2>2
  <2>3. \A i \in Nat : i \in U => i + 1 \in U
    BY <2>2
  <2>4. Nat \subseteq U
    <3> HIDE DEF U
    <3> QED BY <2>1, <2>3, Induction
  <2> QED BY <2>4
<1>6. f \in [Nat -> S]
  BY <1>4
<1>7. f[0] = first
  BY <1>4
<1>8. ASSUME NEW n \in Nat PROVE f[n + 1] = step[f[n]]
  <2>1. n + 1 \in Nat /\ n + 1 > 0 /\ (n + 1) - 1 = n /\ n + 1 \in 0 .. n + 1
    OBVIOUS
  <2>2. At(n + 1)[n + 1] = step[At(n + 1)[n]]
    BY <2>1, <1>4
  <2> QED BY <2>1, <2>2, <1>5
<1> HIDE DEF f
<1> QED
  BY <1>6, <1>7, <1>8

-----------------------------------------------------------------------------
(* The end of a line                                                       *)

EndsAt(s, i) == i \in 1 .. Len(s) - 1 /\ s[i] = "CR" /\ s[i + 1] = "LF"

LEMMA LineEndIs ==
  ASSUME NEW s, Len(s) \in Nat, NEW e \in Int, EndsAt(s, e),
         \A i \in 1 .. e - 1 : ~EndsAt(s, i)
  PROVE  LineEnd(s) = e
<1> DEFINE ends == {i \in 1 .. Len(s) - 1 : s[i] = "CR" /\ s[i + 1] = "LF"}
<1>1. e \in ends /\ \A i \in ends : e <= i
  BY DEF EndsAt
<1> HIDE DEF ends
<1>2. ends # {} /\ \E i \in ends : \A j \in ends : i <= j
  BY <1>1
<1>3. ends \subseteq Int
  BY DEF ends
<1>4. (CHOOSE i \in ends : \A j \in ends : i <= j) = e
  <2> DEFINE c == CHOOSE i \in ends : \A j \in ends : i <= j
  <2>1. c \in ends /\ \A j \in ends : c <= j
    BY <1>2
  <2> HIDE DEF c
  <2>2. c = e
    BY <2>1, <1>1, <1>3
  <2> QED BY <2>2 DEF c
<1> QED
  BY <1>2, <1>4 DEF LineEnd, ends

LEMMA NoLineEnd ==
  ASSUME NEW s, \A i \in 1 .. Len(s) - 1 : ~EndsAt(s, i)
  PROVE  LineEnd(s) = 0
BY DEF LineEnd, EndsAt

LEMMA LineEndType ==
  ASSUME NEW s, Len(s) \in Nat
  PROVE  LineEnd(s) = 0 \/ EndsAt(s, LineEnd(s))
<1> DEFINE ends == {i \in 1 .. Len(s) - 1 : EndsAt(s, i)}
<1>1. CASE ends = {}
  BY <1>1, NoLineEnd
<1>2. CASE ends # {}
  <2>1. PICK e \in ends : \A i \in ends : e <= i
    <3>1. ends \subseteq Nat
      OBVIOUS
    <3> HIDE DEF ends
    <3> QED BY <3>1, <1>2, Least
  <2>2. LineEnd(s) = e
    BY <2>1, LineEndIs
  <2> QED BY <2>1, <2>2
<1> QED
  BY <1>1, <1>2

-----------------------------------------------------------------------------
(* Pieces of a stream                                                      *)

LEMMA Piece ==
  ASSUME NEW S, NEW s \in Seq(S), NEW end \in 0 .. Len(s), NEW k \in 0 .. end
  PROVE  LET c == SubSeq(s, k + 1, end)
         IN /\ c \in Seq(S) /\ Len(c) = end - k
            /\ \A i \in 1 .. end - k : c[i] = s[k + i]
            /\ \A n \in 0 .. end - k :
                 /\ SubSeq(c, n + 1, Len(c)) = SubSeq(s, k + n + 1, end)
                 /\ SubSeq(s, k + n + 1, end) \in Seq(S)
                 /\ Len(SubSeq(s, k + n + 1, end)) = end - k - n
            /\ \A n \in 0 .. end - k :
                 SubSeq(c, 1, n) \in Seq(S) /\ Len(SubSeq(c, 1, n)) = n
<1> DEFINE c == SubSeq(s, k + 1, end)
<1>1. Len(s) \in Nat /\ \A i \in 1 .. Len(s) : s[i] \in S
  OBVIOUS
<1>2. ASSUME NEW j \in 0 .. end
      PROVE  /\ SubSeq(s, j + 1, end) \in Seq(S) /\ Len(SubSeq(s, j + 1, end)) = end - j
             /\ \A i \in 1 .. end - j : SubSeq(s, j + 1, end)[i] = s[j + i]
  <2>1. \A i \in j + 1 .. end : s[i] \in S
    BY <1>1
  <2>2. /\ SubSeq(s, j + 1, end) \in Seq(S)
        /\ Len(SubSeq(s, j + 1, end)) = IF j + 1 <= end THEN end - (j + 1) + 1 ELSE 0
        /\ \A i \in 1 .. end - (j + 1) + 1 : SubSeq(s, j + 1, end)[i] = s[(j + 1) + i - 1]
    BY <2>1, SubSeqProperties
  <2> QED BY <2>2
<1>3. c \in Seq(S) /\ Len(c) = end - k /\ \A i \in 1 .. end - k : c[i] = s[k + i]
  BY <1>2
<1> HIDE DEF c
<1>4. ASSUME NEW n \in 0 .. end - k
      PROVE  /\ SubSeq(c, n + 1, Len(c)) = SubSeq(s, k + n + 1, end)
             /\ SubSeq(s, k + n + 1, end) \in Seq(S)
             /\ Len(SubSeq(s, k + n + 1, end)) = end - k - n
  <2> DEFINE a == SubSeq(c, n + 1, Len(c))
             b == SubSeq(s, k + n + 1, end)
  <2>1. \A i \in n + 1 .. Len(c) : c[i] \in S
    BY <1>3
  <2>2. /\ a \in Seq(S) /\ Len(a) = end - k - n
        /\ \A i \in 1 .. end - k - n : a[i] = c[n + i]
    <3>1. /\ a \in Seq(S)
          /\ Len(a) = IF n + 1 <= Len(c) THEN Len(c) - (n + 1) + 1 ELSE 0
          /\ \A i \in 1 .. Len(c) - (n + 1) + 1 : a[i] = c[(n + 1) + i - 1]
      BY <2>1, <1>3, SubSeqProperties
    <3> HIDE DEF a
    <3> QED BY <3>1, <1>3
  <2>3. /\ b \in Seq(S) /\ Len(b) = end - k - n
        /\ \A i \in 1 .. end - k - n : b[i] = s[k + n + i]
    <3>1. k + n \in 0 .. end
      OBVIOUS
    <3> QED BY <3>1, <1>2
  <2> HIDE DEF a, b
  <2>4. \A i \in 1 .. end - k - n : a[i] = b[i]
    <3> SUFFICES ASSUME NEW i \in 1 .. end - k - n PROVE c[n + i] = s[k + n + i]
      BY <2>2, <2>3
    <3>1. n + i \in 1 .. end - k /\ k + (n + i) = k + n + i
      OBVIOUS
    <3> QED BY <3>1, <1>3
  <2>5. a = b
    BY <2>2, <2>3, <2>4, SeqEqual
  <2> QED BY <2>3, <2>5 DEF a, b
<1>5. ASSUME NEW n \in 0 .. end - k
      PROVE  SubSeq(c, 1, n) \in Seq(S) /\ Len(SubSeq(c, 1, n)) = n
  <2>1. \A i \in 1 .. n : c[i] \in S
    BY <1>3
  <2>2. SubSeq(c, 1, n) \in Seq(S) /\ Len(SubSeq(c, 1, n)) = IF 1 <= n THEN n - 1 + 1 ELSE 0
    BY <2>1, SubSeqProperties
  <2> QED BY <2>2
<1> QED
  BY <1>3, <1>4, <1>5 DEF c

\* Sums and differences, apart from the sequences whose lengths they are.
LEMMA Places ==
  ASSUME NEW k \in Nat, NEW end \in Nat, k <= end
  PROVE  /\ \A h, n \in Nat : h <= k /\ end <= h + n =>
              /\ end - h \in 0 .. n /\ k - h \in 0 .. end - h
              /\ \A i \in 1 .. end - k :
                   /\ (k - h) + i \in 1 .. n /\ h + ((k - h) + i) = k + i
                   /\ i \in 1 .. (end - h) - (k - h)
         /\ \A a, b, n \in Nat : a < b /\ b + n <= end - k => a + (n + 1) <= end - k
         /\ \A a \in Nat : ~(a + (end - k + 2) <= end - k)
OBVIOUS

-----------------------------------------------------------------------------
(* Types                                                                   *)

\* The Request object while addRequestChunk() runs.
Running == States \ {"EMPTY"}
Parsers ==
  [state : Running, unparsed : Seq(Tokens), method : Methods, error : Errors,
   length : 0 .. MaxBody, typed : BOOLEAN, chunkedHeader : BOOLEAN,
   isChunked : BOOLEAN, keepAlive : BOOLEAN, body : Seq(Tokens),
   chunk : Seq(Tokens), waiting : BOOLEAN]

LEMMA SetErrorType ==
  ASSUME NEW p \in Parsers, NEW code \in Errors
  PROVE  SetError(p, code) \in Parsers
BY DEF SetError, Parsers

LEMMA PrefixType ==
  ASSUME NEW s \in Seq(Tokens), NEW n \in Int
  PROVE  Prefix(s, n) \in Seq(Tokens) /\ (n >= Len(s) => Prefix(s, n) = s)
<1> DEFINE k == IF n < Len(s) THEN n ELSE Len(s)
<1>1. k \in Int /\ k <= Len(s) /\ Len(s) \in Nat
  OBVIOUS
<1>2. \A i \in 1 .. k : s[i] \in Tokens
  <2>1. \A i \in 1 .. Len(s) : s[i] \in Tokens
    BY ElementOfSeq
  <2> HIDE DEF k
  <2> QED BY <1>1, <2>1
<1>3. SubSeq(s, 1, k) \in Seq(Tokens)
  <2> HIDE DEF k
  <2> QED BY <1>1, <1>2, SubSeqProperties
<1>4. n >= Len(s) => Prefix(s, n) = s
  BY <1>1, SubSeqFull DEF Prefix
<1> QED
  BY <1>3, <1>4 DEF Prefix

LEMMA SetRequestLineType ==
  ASSUME NEW p \in Parsers, NEW line
  PROVE  SetRequestLine(p, line) \in Parsers
<1>1. \A code \in Errors : SetError(p, code) \in Parsers
  BY SetErrorType
<1>2. /\ [p EXCEPT !.method = "GET"] \in Parsers
      /\ [p EXCEPT !.method = "POST"] \in Parsers
  BY DEF Parsers, Methods
<1>3. SetError([p EXCEPT !.method = "GET"], "505") \in Parsers
  BY <1>2, SetErrorType DEF Errors
<1> QED
  BY <1>1, <1>2, <1>3 DEF SetRequestLine, RequestLines, Errors

LEMMA LengthsType ==
  /\ DOMAIN Lengths = {"len1", "len2", "len4", "len9"}
  /\ \A h \in DOMAIN Lengths : Lengths[h] \in Nat \ {0}
BY DEF Lengths

LEMMA SetContentLengthType ==
  ASSUME NEW p \in Parsers, NEW n \in Nat
  PROVE  SetContentLength(p, n) \in Parsers
<1>1. [p EXCEPT !.length = MaxBody] \in Parsers
  BY MaxBodyAssumption DEF Parsers
<1>2. SetError([p EXCEPT !.length = MaxBody], "413") \in Parsers
  BY <1>1, SetErrorType DEF Errors
<1>3. n <= MaxBody => [p EXCEPT !.length = n] \in Parsers
  BY MaxBodyAssumption DEF Parsers
<1> QED
  BY <1>2, <1>3, MaxBodyAssumption DEF SetContentLength

LEMMA AddAsHeaderVarType ==
  ASSUME NEW p \in Parsers, NEW line
  PROVE  AddAsHeaderVar(p, line) \in Parsers
<1>1. \A h \in DOMAIN Lengths : SetContentLength(p, Lengths[h]) \in Parsers
  BY LengthsType, SetContentLengthType
<1>2. IsOneWord(line) \in BOOLEAN
  BY DEF IsOneWord
<1>3. /\ [p EXCEPT !.typed = TRUE] \in Parsers
      /\ [p EXCEPT !.keepAlive = IsOneWord(line)] \in Parsers
      /\ [p EXCEPT !.chunkedHeader = IsOneWord(line)] \in Parsers
  BY <1>2 DEF Parsers
<1> QED
  BY <1>1, <1>3 DEF AddAsHeaderVar

LEMMA SetIfAssemblingBodyType ==
  ASSUME NEW p \in Parsers
  PROVE  SetIfAssemblingBody(p) \in Parsers
<1>1. SetError(p, "415") \in Parsers
  BY SetErrorType DEF Errors
<1>2. \A q \in Parsers :
        /\ [q EXCEPT !.state = "DONE"] \in Parsers
        /\ [q EXCEPT !.state = "BODY", !.isChunked = TRUE] \in Parsers
        /\ [q EXCEPT !.state = "BODY", !.isChunked = FALSE] \in Parsers
  BY DEF Parsers, Running, States
<1> QED
  BY <1>1, <1>2 DEF SetIfAssemblingBody

LEMMA KeepForLaterType ==
  ASSUME NEW p \in Parsers
  PROVE  KeepForLater(p) \in Parsers
<1>1. p.unparsed \o p.chunk \in Seq(Tokens) /\ <<>> \in Seq(Tokens)
  BY DEF Parsers
<1> QED
  BY <1>1 DEF KeepForLater, Parsers

LEMMA AfterLineType ==
  ASSUME NEW p \in Parsers, LineEnd(p.chunk) # 0
  PROVE  AfterLine(p) \in Parsers
<1> DEFINE c == p.chunk
           e == LineEnd(c)
<1>1. c \in Seq(Tokens) /\ Len(c) \in Nat
  BY DEF Parsers
<1>2. e \in 1 .. Len(c) - 1
  BY <1>1, LineEndType DEF EndsAt
<1>3. SubSeq(c, e + 2, Len(c)) \in Seq(Tokens) /\ <<>> \in Seq(Tokens)
  BY <1>1, <1>2
<1> HIDE DEF e
<1> QED
  BY <1>3 DEF AfterLine, Parsers, e

LEMMA ParseLineType ==
  ASSUME NEW p \in Parsers
  PROVE  ParseRequestLine(p) \in Parsers /\ ParseHeaderLine(p) \in Parsers
<1>1. CASE LineEnd(p.chunk) = 0
  BY <1>1, KeepForLaterType DEF ParseRequestLine, ParseHeaderLine
<1>2. CASE LineEnd(p.chunk) # 0
  <2>1. AfterLine(p) \in Parsers
    BY <1>2, AfterLineType
  <2>2. /\ SetRequestLine(AfterLine(p), Line(p)) \in Parsers
        /\ SetIfAssemblingBody(AfterLine(p)) \in Parsers
        /\ AddAsHeaderVar(AfterLine(p), Line(p)) \in Parsers
    BY <2>1, SetRequestLineType, SetIfAssemblingBodyType, AddAsHeaderVarType
  <2>3. \A q \in Parsers : [q EXCEPT !.state = "HEADERS"] \in Parsers
    BY DEF Parsers, Running, States
  <2> QED BY <1>2, <2>2, <2>3 DEF ParseRequestLine, ParseHeaderLine
<1> QED
  BY <1>1, <1>2

LEMMA TooLargeType ==
  ASSUME NEW p \in Parsers
  PROVE  TooLarge(p) \in Parsers
<1>1. SetError(p, "413") \in Parsers
  BY SetErrorType DEF Errors
<1> HIDE DEF SetError
<1> QED
  BY <1>1 DEF TooLarge, Parsers, Running, States

LEMMA AddToBody ==
  ASSUME NEW p \in Parsers, NEW s \in Seq(Tokens)
  PROVE  /\ p.body \o Prefix(s, Remainder(p)) \in Seq(Tokens)
         /\ [p EXCEPT !.body = @ \o Prefix(s, Remainder(p))] \in Parsers
<1>1. Remainder(p) \in Int
  BY MaxBodyAssumption DEF Remainder, Parsers
<1>2. Prefix(s, Remainder(p)) \in Seq(Tokens)
  BY <1>1, PrefixType
<1>3. p.body \o Prefix(s, Remainder(p)) \in Seq(Tokens)
  BY <1>2 DEF Parsers
<1> QED
  BY <1>3 DEF Parsers

LEMMA AssembleUnChunkedBodyType ==
  ASSUME NEW p \in Parsers
  PROVE  AssembleUnChunkedBody(p) \in Parsers
<1> DEFINE b == p.body \o Prefix(p.chunk, Remainder(p))
           q == [p EXCEPT !.body = b, !.chunk = <<>>]
<1>1. b \in Seq(Tokens)
  <2>1. p.chunk \in Seq(Tokens)
    BY DEF Parsers
  <2>2. \A t \in Seq(Tokens) : p.body \o Prefix(t, Remainder(p)) \in Seq(Tokens)
    BY AddToBody
  <2> QED BY <2>1, <2>2
<1>2. <<>> \in Seq(Tokens)
  OBVIOUS
<1>5. q \in Parsers
  <2> HIDE DEF b
  <2> QED BY <1>1, <1>2 DEF Parsers
<1>3. AssembleUnChunkedBody(p) = IF 2 * Len(p.body) > MaxBody THEN TooLarge(p)
                                 ELSE IF Len(q.body) < q.length THEN [q EXCEPT !.waiting = TRUE]
                                 ELSE [q EXCEPT !.state = "DONE"]
  BY DEF AssembleUnChunkedBody
<1> HIDE DEF q
<1>4. [q EXCEPT !.waiting = TRUE] \in Parsers /\ [q EXCEPT !.state = "DONE"] \in Parsers
  BY <1>5 DEF Parsers, Running, States
<1> QED
  BY <1>3, <1>4, TooLargeType

\* The loop over chunks keeps the place of the next chunk, -1 at its end.
ChunkLoops == [p : Parsers, offset : Nat \cup {-1}]

LEMMA ReadChunkType ==
  ASSUME NEW all \in Seq(Tokens), NEW p \in Parsers, NEW offset \in Nat
  PROVE  ReadChunk(all, p, offset) \in ChunkLoops
<1> DEFINE rest == SubSeq(all, offset + 1, Len(all))
           e == LineEnd(rest)
           sizeWord == FirstWord(SubSeq(rest, 1, e - 1))
           size == IF sizeWord \in DOMAIN ChunkSizes THEN ChunkSizes[sizeWord] ELSE 0
           data == SubSeq(rest, e + 2, Len(rest))
           taken == IF size = 1 THEN data ELSE Prefix(data, size - 2)
           next == offset + e + 1 + size + 2
           Add(t) == [p EXCEPT !.body = @ \o Prefix(t, Remainder(p))]
           q == Add(taken)
<1>1. rest \in Seq(Tokens)
  <2>1. \A i \in offset + 1 .. Len(all) : all[i] \in Tokens
    BY ElementOfSeq
  <2> QED BY <2>1, SubSeqProperties
<1> HIDE DEF rest
<1>2. e \in Nat
  <2>1. Len(rest) \in Nat
    BY <1>1
  <2> QED BY <2>1, LineEndType DEF EndsAt
<1> HIDE DEF e
<1>3. size \in Nat
  BY DEF ChunkSizes
<1>4. data \in Seq(Tokens)
  <2>1. \A i \in e + 2 .. Len(rest) : rest[i] \in Tokens
    BY <1>1, <1>2, ElementOfSeq
  <2> QED BY <1>1, <1>2, <2>1, SubSeqProperties
<1> HIDE DEF size, data
<1>5. taken \in Seq(Tokens)
  <2>1. size - 2 \in Int
    BY <1>3
  <2> QED BY <1>4, <2>1, PrefixType
<1>6. next \in Nat
  BY <1>2, <1>3
<1> HIDE DEF taken, next
<1>7. q \in Parsers
  <2>1. \A t \in Seq(Tokens) : Add(t) \in Parsers
    BY AddToBody
  <2> HIDE DEF Add
  <2> QED BY <1>5, <2>1
<1>8. \A r \in Parsers : [r EXCEPT !.waiting = TRUE] \in Parsers /\ [r EXCEPT !.state = "DONE"] \in Parsers
  BY DEF Parsers, Running, States
<1>9. TooLarge(p) \in Parsers
  BY TooLargeType
<1> HIDE DEF q
<1>10. ReadChunk(all, p, offset) =
        CASE e = 0 -> [p |-> [p EXCEPT !.waiting = TRUE], offset |-> -1]
          [] e > 0 /\ size = 0 -> [p |-> [p EXCEPT !.state = "DONE"], offset |-> -1]
          [] size > 0 /\ Len(data) < size -> [p |-> [p EXCEPT !.waiting = TRUE], offset |-> -1]
          [] size > 0 /\ Len(data) >= size /\ Len(p.body) + Len(taken) > MaxBody ->
               [p |-> TooLarge(p), offset |-> -1]
          [] OTHER -> IF next >= Len(all) THEN [p |-> [q EXCEPT !.waiting = TRUE], offset |-> -1]
                      ELSE [p |-> q, offset |-> next]
  BY DEF ReadChunk, rest, e, size, data, taken, next, q, Add
<1>11. \A r \in Parsers, n \in Nat : [p |-> r, offset |-> -1] \in ChunkLoops /\ [p |-> r, offset |-> n] \in ChunkLoops
  BY DEF ChunkLoops
<1> QED
  BY <1>6, <1>7, <1>8, <1>9, <1>10, <1>11

LEMMA Once ==
  ASSUME NEW all \in Seq(Tokens), NEW r \in ChunkLoops
  PROVE  (IF r.offset = -1 THEN r ELSE ReadChunk(all, r.p, r.offset)) \in ChunkLoops
<1>1. CASE r.offset = -1
  BY <1>1
<1>2. CASE r.offset # -1
  <2>1. r.p \in Parsers /\ r.offset \in Nat
    BY <1>2 DEF ChunkLoops
  <2> QED BY <1>2, <2>1, ReadChunkType
<1> QED
  BY <1>1, <1>2

LEMMA Loops ==
  ASSUME NEW first \in ChunkLoops, NEW step \in [ChunkLoops -> ChunkLoops]
  PROVE  \E f \in [Nat -> ChunkLoops] : f[0] = first /\ \A n \in Nat : f[n + 1] = step[f[n]]
BY Iteration

LEMMA ChunkLoopsExist ==
  ASSUME NEW all \in Seq(Tokens), NEW first \in ChunkLoops
  PROVE  \E f \in [Nat -> ChunkLoops] :
           f = [n \in Nat |-> IF n = 0 THEN first
                              ELSE IF f[n - 1].offset = -1 THEN f[n - 1]
                              ELSE ReadChunk(all, f[n - 1].p, f[n - 1].offset)]
<1> DEFINE once == [r \in ChunkLoops |->
                      IF r.offset = -1 THEN r ELSE ReadChunk(all, r.p, r.offset)]
<1>1. once \in [ChunkLoops -> ChunkLoops]
  <2> HIDE DEF ChunkLoops, ReadChunk
  <2> QED BY Once
<1> HIDE DEF once
<1>2. PICK f \in [Nat -> ChunkLoops] : f[0] = first /\ \A n \in Nat : f[n + 1] = once[f[n]]
  BY <1>1, Loops
<1>3. ASSUME NEW n \in Nat
      PROVE f[n] = IF n = 0 THEN first
                   ELSE IF f[n - 1].offset = -1 THEN f[n - 1]
                   ELSE ReadChunk(all, f[n - 1].p, f[n - 1].offset)
  <2>1. n # 0 => n - 1 \in Nat /\ (n - 1) + 1 = n /\ f[n - 1] \in ChunkLoops
    BY <1>2
  <2>2. n # 0 => f[n] = once[f[n - 1]]
    BY <1>2, <2>1
  <2> QED BY <1>2, <2>1, <2>2 DEF once
<1> QED
  BY <1>2, <1>3

LEMMA AssembleChunkedBodyType ==
  ASSUME NEW p \in Parsers
  PROVE  AssembleChunkedBody(p) \in Parsers
<1> DEFINE all == p.unparsed \o p.chunk
           first == [p |-> [p EXCEPT !.unparsed = all, !.chunk = <<>>], offset |-> 0]
           Is(f) == f = [n \in Nat |-> IF n = 0 THEN first
                                       ELSE IF f[n - 1].offset = -1 THEN f[n - 1]
                                       ELSE ReadChunk(all, f[n - 1].p, f[n - 1].offset)]
           turn == CHOOSE f : Is(f)
<1>1. all \in Seq(Tokens) /\ <<>> \in Seq(Tokens) /\ Len(all) + 1 \in Nat
  BY DEF Parsers
<1>2. first \in ChunkLoops
  <2>1. [p EXCEPT !.unparsed = all, !.chunk = <<>>] \in Parsers
    <3> HIDE DEF all
    <3> QED BY <1>1 DEF Parsers
  <2> QED BY <2>1 DEF ChunkLoops
<1>3. AssembleChunkedBody(p) = turn[Len(all) + 1].p
  BY DEF AssembleChunkedBody
<1> HIDE DEF all, first
<1>4. \E f \in [Nat -> ChunkLoops] : Is(f)
  BY <1>1, <1>2, ChunkLoopsExist
<1>5. Is(turn)
  <2> HIDE DEF Is
  <2> QED BY <1>4
<1> HIDE DEF turn
<1> DEFINE T == {n \in Nat : turn[n] \in ChunkLoops}
<1>6. 0 \in T
  BY <1>2, <1>5
<1>7. ASSUME NEW n \in Nat, n \in T PROVE n + 1 \in T
  <2>1. turn[n + 1] = IF turn[n].offset = -1 THEN turn[n]
                      ELSE ReadChunk(all, turn[n].p, turn[n].offset)
    <3>1. n + 1 \in Nat /\ n + 1 # 0 /\ (n + 1) - 1 = n
      OBVIOUS
    <3> QED BY <1>5, <3>1
  <2>2. n + 1 \in Nat /\ turn[n] \in ChunkLoops
    BY <1>7
  <2> QED BY <1>1, <2>1, <2>2, Once
<1>8. Nat \subseteq T
  <2> HIDE DEF T
  <2> QED BY <1>6, <1>7, Induction
<1> QED
  BY <1>1, <1>3, <1>8 DEF ChunkLoops

LEMMA ParseOnceType ==
  ASSUME NEW p \in Parsers
  PROVE  ParseOnce(p) \in Parsers
<1>1. AssembleBody(p) \in Parsers
  BY AssembleUnChunkedBodyType, AssembleChunkedBodyType DEF AssembleBody
<1> QED
  BY <1>1, ParseLineType DEF ParseOnce, Parsers, Running, States
-----------------------------------------------------------------------------
(* What addRequestChunk() has made of the first k tokens of a message      *)

\* Line 0 is the request line, line i the i-th header, and after the last one
\* comes the empty line.
LineOf(m, i) == IF i = 0 THEN m.line ELSE m.headers[i]
HeadLength(m) == 3 * (Len(m.headers) + 1) + 2

\* The headers of the lines before line i.
Seen(m, i) == {m.headers[j] : j \in {j \in 1 .. Len(m.headers) : j < i}}
SeenLength(m, i) == Seen(m, i) \cap DOMAIN Lengths # {}

\* What is known once the lines before line i have been parsed.
Fields(m, p, i) ==
  /\ p.state \in IF i = 0 THEN {"EMPTY", "REQUEST_LINE"} ELSE {"HEADERS"}
  /\ p.method = CASE i = 0 \/ m.line = "PUT" -> "UNSUPPORTED"
                  [] i > 0 /\ m.line = "POST" -> "POST"
                  [] i > 0 /\ m.line \in {"GET", "OLD"} -> "GET"
  /\ p.error = CASE i > 0 /\ m.line = "PUT" -> "405"
                 [] i > 0 /\ m.line = "OLD" -> "505"
                 [] m.line \in {"GET", "POST"} /\ SeenLength(m, i) /\ LengthOf(m) > MaxBody -> "413"
                 [] OTHER -> "none"
  /\ p.length = CASE ~SeenLength(m, i) -> 0
                  [] SeenLength(m, i) /\ LengthOf(m) <= MaxBody -> LengthOf(m)
                  [] SeenLength(m, i) /\ LengthOf(m) > MaxBody -> MaxBody
  /\ p.typed = ("type" \in Seen(m, i)) /\ p.keepAlive = ("keep" \in Seen(m, i))
  /\ ~p.chunkedHeader /\ ~p.isChunked /\ p.body = <<>>

\* Before line i, or in it: its word has been kept and its CR LF is to come.
InHead(m, p, k) ==
  \E i \in 0 .. Len(m.headers) + 1 :
    /\ Fields(m, p, i)
    /\ \/ k = 3 * i /\ p.unparsed = <<>>
       \/ i <= Len(m.headers) /\ k = 3 * i + 1 /\ p.unparsed = <<LineOf(m, i)>>
\* In a body, whose Content-Length is within the limit.
InBody(m, p, k) ==
  /\ p.state = "BODY" /\ ~p.isChunked
  /\ m.line = "POST" /\ p.error = ExpectedError(m) /\ p.error \in {"none", "415"}
  /\ p.length = Len(m.body) /\ Len(m.body) <= MaxBody
  /\ p.keepAlive = Has(m, "keep")
  /\ k >= HeadLength(m) /\ k - HeadLength(m) < Len(m.body)
  /\ p.body = SubSeq(m.body, 1, k - HeadLength(m))
\* At its end, whatever of the message has not been looked at.
Finished(m, p) ==
  /\ p.state = "DONE"
  /\ p.error \in {ExpectedError(m)} \cup (IF IsLong(m) /\ Has(m, "type") THEN {"413"} ELSE {})
  /\ p.keepAlive = Has(m, "keep")
  /\ p.error = "none" => p.body = ExpectedBody(m)
HasParsed(m, p, k) == InHead(m, p, k) \/ InBody(m, p, k) \/ Finished(m, p)

\* The stream holds what follows the tokens that the Request has parsed.
InStep(m, p, s) ==
  \E k \in 0 .. Len(Encode(m)) :
    s = SubSeq(Encode(m), k + 1, Len(Encode(m))) /\ HasParsed(m, p, k)


-----------------------------------------------------------------------------
(* The stream of a message, token by token                                 *)

\* The lines, with their CR LF.
HeadOf(m) ==
  LET lines == <<m.line>> \o m.headers
  IN [i \in 1 .. 3 * Len(lines) |->
        CASE i % 3 = 1 -> lines[(i + 2) \div 3]
          [] i % 3 = 2 -> "CR"
          [] i % 3 = 0 -> "LF"]

LEMMA LineTypes ==
  ASSUME NEW m \in MessageType
  PROVE  /\ m.line \in RequestLines /\ m.headers \in Seq(HeaderLines)
         /\ m.body \in Seq(Tokens) /\ Len(m.headers) \in Nat /\ Len(m.body) \in Nat
         /\ \A i \in 1 .. Len(m.headers) : LineOf(m, i) \in HeaderLines
         /\ \A i \in 0 .. Len(m.headers) : LineOf(m, i) \in Tokens \ {"CR", "LF"}
<1>1. /\ m.line \in RequestLines /\ m.headers \in Seq(HeaderLines) /\ m.body \in Seq(Tokens)
      /\ Len(m.headers) \in Nat /\ Len(m.body) \in Nat
  BY DEF MessageType
<1>2. RequestLines \subseteq Tokens \ {"CR", "LF"} /\ HeaderLines \subseteq Tokens \ {"CR", "LF"}
  BY DEF RequestLines, HeaderLines, Tokens, Lengths
<1>3. ASSUME NEW i \in 1 .. Len(m.headers) PROVE LineOf(m, i) \in HeaderLines
  BY <1>1 DEF LineOf
<1>4. ASSUME NEW i \in 0 .. Len(m.headers) PROVE LineOf(m, i) \in Tokens \ {"CR", "LF"}
  <2>1. CASE i = 0
    BY <1>1, <1>2, <2>1 DEF LineOf
  <2>2. CASE i # 0
    <3>1. i \in 1 .. Len(m.headers)
      BY <1>1, <2>2
    <3> QED BY <3>1, <1>2, <1>3
  <2> QED BY <2>1, <2>2
<1> QED
  BY <1>1, <1>3, <1>4

LEMMA HeadElements ==
  ASSUME NEW m \in MessageType
  PROVE  /\ HeadOf(m) \in Seq(Tokens) /\ Len(HeadOf(m)) = 3 * (Len(m.headers) + 1)
         /\ \A i \in 0 .. Len(m.headers) :
              /\ HeadOf(m)[3 * i + 1] = LineOf(m, i)
              /\ HeadOf(m)[3 * i + 2] = "CR" /\ HeadOf(m)[3 * i + 3] = "LF"
<1> DEFINE lines == <<m.line>> \o m.headers
           N == Len(m.headers)
<1>1. N \in Nat /\ \A i \in 0 .. N : LineOf(m, i) \in Tokens
  BY LineTypes
<1>2. Len(lines) = N + 1 /\ \A i \in 0 .. N : lines[i + 1] = LineOf(m, i)
  <2>1. <<m.line>> \in Seq(Tokens) /\ Len(<<m.line>>) = 1 /\ <<m.line>>[1] = m.line
    <3>1. m.line \in Tokens
      BY <1>1 DEF LineOf
    <3> QED BY <3>1
  <2>2. m.headers \in Seq(Tokens)
    <3>1. HeaderLines \subseteq Tokens
      BY DEF Tokens
    <3> QED BY <3>1, LineTypes
  <2>3. /\ Len(lines) = 1 + N
        /\ \A i \in 1 .. 1 + N : lines[i] = IF i <= 1 THEN <<m.line>>[i] ELSE m.headers[i - 1]
    BY <2>1, <2>2, ConcatProperties
  <2> HIDE DEF lines
  <2>4. ASSUME NEW i \in 0 .. N PROVE lines[i + 1] = LineOf(m, i)
    <3>1. i + 1 \in 1 .. 1 + N /\ (i + 1) - 1 = i /\ (i + 1 <= 1 <=> i = 0)
      BY <1>1
    <3> QED BY <2>1, <2>3, <3>1 DEF LineOf
  <2> QED BY <1>1, <2>3, <2>4
<1>3. HeadOf(m) = [i \in 1 .. 3 * Len(lines) |->
                   CASE i % 3 = 1 -> lines[(i + 2) \div 3]
                     [] i % 3 = 2 -> "CR"
                     [] i % 3 = 0 -> "LF"]
  BY DEF HeadOf
<1> HIDE DEF lines, N
<1>4. /\ \A i \in 1 .. 3 * (N + 1) :
           /\ i % 3 = 1 => HeadOf(m)[i] = lines[(i + 2) \div 3]
           /\ i % 3 = 2 => HeadOf(m)[i] = "CR"
           /\ i % 3 = 0 => HeadOf(m)[i] = "LF"
      /\ DOMAIN HeadOf(m) = 1 .. 3 * (N + 1)
  BY <1>2, <1>3
<1>5. ASSUME NEW i \in 0 .. N
      PROVE  /\ HeadOf(m)[3 * i + 1] = LineOf(m, i)
             /\ HeadOf(m)[3 * i + 2] = "CR" /\ HeadOf(m)[3 * i + 3] = "LF"
  <2>1. /\ 3 * i + 1 \in 1 .. 3 * (N + 1) /\ 3 * i + 2 \in 1 .. 3 * (N + 1)
        /\ 3 * i + 3 \in 1 .. 3 * (N + 1)
    BY <1>1
  <2>2. /\ (3 * i + 1) % 3 = 1 /\ (3 * i + 2) % 3 = 2 /\ (3 * i + 3) % 3 = 0
        /\ ((3 * i + 1) + 2) \div 3 = i + 1
    OBVIOUS
  <2> QED BY <2>1, <2>2, <1>2, <1>4
<1>6. ASSUME NEW n \in 1 .. 3 * (N + 1) PROVE HeadOf(m)[n] \in Tokens
  <2>1. PICK i \in 0 .. N : n = 3 * i + 1 \/ n = 3 * i + 2 \/ n = 3 * i + 3
    <3> DEFINE i == (n - 1) \div 3
    <3>1. i \in 0 .. N /\ (n = 3 * i + 1 \/ n = 3 * i + 2 \/ n = 3 * i + 3)
      BY <1>1
    <3> QED BY <3>1
  <2> QED BY <2>1, <1>1, <1>5 DEF Tokens
<1>7. HeadOf(m) \in Seq(Tokens) /\ Len(HeadOf(m)) = 3 * (N + 1)
  <2>1. HeadOf(m) = [i \in 1 .. 3 * (N + 1) |-> HeadOf(m)[i]]
    BY <1>2, <1>3
  <2>2. 3 * (N + 1) \in Nat
    BY <1>1
  <2> QED BY <2>1, <2>2, <1>6, IsASeq, LenProperties
<1> QED
  BY <1>5, <1>7 DEF N

LEMMA EncodeElements ==
  ASSUME NEW m \in MessageType
  PROVE  /\ Encode(m) \in Seq(Tokens)
         /\ Len(Encode(m)) = HeadLength(m) + Len(m.body)
         /\ \A i \in 0 .. Len(m.headers) :
              /\ Encode(m)[3 * i + 1] = LineOf(m, i)
              /\ Encode(m)[3 * i + 2] = "CR" /\ Encode(m)[3 * i + 3] = "LF"
         /\ Encode(m)[3 * (Len(m.headers) + 1) + 1] = "CR"
         /\ Encode(m)[3 * (Len(m.headers) + 1) + 2] = "LF"
         /\ \A i \in 1 .. Len(m.body) : Encode(m)[HeadLength(m) + i] = m.body[i]
<1> DEFINE h == HeadOf(m)
           N == Len(m.headers)
           H == 3 * (N + 1)
           hn == h \o CrLf
<1>1. N \in Nat /\ m.body \in Seq(Tokens) /\ Len(m.body) \in Nat /\ H \in Nat
  BY LineTypes
<1>2. CrLf \in Seq(Tokens) /\ Len(CrLf) = 2 /\ CrLf[1] = "CR" /\ CrLf[2] = "LF"
  BY DEF CrLf, Tokens
<1>3. /\ h \in Seq(Tokens) /\ Len(h) = H
      /\ \A i \in 0 .. N : /\ h[3 * i + 1] = LineOf(m, i)
                           /\ h[3 * i + 2] = "CR" /\ h[3 * i + 3] = "LF"
  BY HeadElements
<1>4. Encode(m) = hn \o m.body
  BY DEF Encode, HeadOf
<1>5. \A i \in 0 .. N : 3 * i + 1 \in 1 .. H /\ 3 * i + 2 \in 1 .. H /\ 3 * i + 3 \in 1 .. H
  BY <1>1
<1>6. HeadLength(m) = H + 2
  BY DEF HeadLength
<1> HIDE DEF h, H, N
<1>7. /\ hn \in Seq(Tokens) /\ Len(hn) = H + 2 /\ hn[H + 1] = "CR" /\ hn[H + 2] = "LF"
      /\ \A i \in 1 .. H : hn[i] = h[i]
  <2>1. /\ hn \in Seq(Tokens) /\ Len(hn) = Len(h) + Len(CrLf)
        /\ \A i \in 1 .. Len(h) + Len(CrLf) :
             hn[i] = IF i <= Len(h) THEN h[i] ELSE CrLf[i - Len(h)]
    BY <1>2, <1>3, ConcatProperties
  <2>2. (H + 1) - H = 1 /\ (H + 2) - H = 2
    BY <1>1
  <2> HIDE DEF hn
  <2> QED BY <1>1, <1>2, <1>3, <2>1, <2>2
<1> HIDE DEF hn
<1>8. /\ Encode(m) \in Seq(Tokens) /\ Len(Encode(m)) = H + 2 + Len(m.body)
      /\ \A i \in 1 .. H + 2 : Encode(m)[i] = hn[i]
      /\ \A i \in 1 .. Len(m.body) : Encode(m)[H + 2 + i] = m.body[i]
  <2>1. /\ hn \o m.body \in Seq(Tokens) /\ Len(hn \o m.body) = Len(hn) + Len(m.body)
        /\ \A i \in 1 .. Len(hn) + Len(m.body) :
             (hn \o m.body)[i] = IF i <= Len(hn) THEN hn[i] ELSE m.body[i - Len(hn)]
    BY <1>1, <1>7, ConcatProperties
  <2>2. ASSUME NEW i \in 1 .. Len(m.body)
        PROVE  (hn \o m.body)[H + 2 + i] = m.body[i]
    <3>1. /\ H + 2 + i \in 1 .. Len(hn) + Len(m.body) /\ ~(H + 2 + i <= Len(hn))
          /\ (H + 2 + i) - Len(hn) = i
      BY <1>1, <1>7
    <3> QED BY <2>1, <3>1
  <2>3. \A i \in 1 .. H + 2 : (hn \o m.body)[i] = hn[i]
    BY <1>1, <1>7, <2>1
  <2> QED BY <1>4, <1>7, <2>1, <2>2, <2>3
<1>9. ASSUME NEW i \in 1 .. H PROVE Encode(m)[i] = h[i]
  <2>1. i \in 1 .. H + 2
    BY <1>1
  <2> QED BY <2>1, <1>7, <1>8
<1>10. Encode(m)[H + 1] = "CR" /\ Encode(m)[H + 2] = "LF"
  <2>1. H + 1 \in 1 .. H + 2 /\ H + 2 \in 1 .. H + 2
    BY <1>1
  <2> QED BY <2>1, <1>7, <1>8
<1> QED
  BY <1>3, <1>5, <1>6, <1>8, <1>9, <1>10 DEF N, H

-----------------------------------------------------------------------------
(* The turns of addRequestChunk()                                          *)

LEMMA TurnsExist ==
  ASSUME NEW first \in Parsers
  PROVE  \E f : f = [n \in Nat |-> IF n = 0 THEN first ELSE ParseOnce(f[n - 1])]
<1> DEFINE once == [p \in Parsers |-> ParseOnce(p)]
<1>1. once \in [Parsers -> Parsers]
  BY ParseOnceType
<1> HIDE DEF once
<1>2. PICK f \in [Nat -> Parsers] : f[0] = first /\ \A n \in Nat : f[n + 1] = once[f[n]]
  BY <1>1, Iteration
<1>3. ASSUME NEW n \in Nat PROVE f[n] = IF n = 0 THEN first ELSE ParseOnce(f[n - 1])
  <2>1. n # 0 => n - 1 \in Nat /\ (n - 1) + 1 = n /\ f[n - 1] \in Parsers
    BY <1>2
  <2>2. n # 0 => f[n] = once[f[n - 1]]
    BY <1>2, <2>1
  <2> QED BY <1>2, <2>1, <2>2 DEF once
<1> QED
  BY <1>2, <1>3

\* The Request object between two calls.
RequestType ==
  [state : States, unparsed : Seq(Tokens), method : Methods, error : Errors,
   length : 0 .. MaxBody, typed : BOOLEAN, chunkedHeader : BOOLEAN,
   isChunked : BOOLEAN, keepAlive : BOOLEAN, body : Seq(Tokens),
   chunk : {<<>>}, waiting : {FALSE}]

\* What the first turn is given.
First(p, piece) ==
  [p EXCEPT !.chunk = piece, !.state = IF @ = "EMPTY" THEN "REQUEST_LINE" ELSE @]

LEMMA FirstType ==
  ASSUME NEW p \in RequestType, NEW piece \in Seq(Tokens)
  PROVE  /\ First(p, piece) \in Parsers
         /\ First(p, piece).chunk = piece /\ ~First(p, piece).waiting
         /\ First(p, piece).state = IF p.state = "EMPTY" THEN "REQUEST_LINE" ELSE p.state
BY DEF First, RequestType, Parsers, Running, States

\* An invariant X of the turns, by number, holds of the last one.
LEMMA AddRequestChunkTurns ==
  ASSUME NEW p \in RequestType, NEW piece \in Seq(Tokens),
         NEW X, <<0, First(p, piece)>> \in X,
         \A n \in Nat : \A q \in Parsers : <<n, q>> \in X => <<n + 1, ParseOnce(q)>> \in X
  PROVE  \E q \in Parsers :
           /\ <<Len(piece) + 2, q>> \in X
           /\ AddRequestChunk(p, piece) = [q EXCEPT !.chunk = <<>>, !.waiting = FALSE]
<1> DEFINE first == First(p, piece)
           Is(g) == g = [n \in Nat |-> IF n = 0 THEN first ELSE ParseOnce(g[n - 1])]
           turn == CHOOSE g : Is(g)
<1>8. first \in Parsers
  BY FirstType
<1>1. \E g : Is(g)
  <2> HIDE DEF first
  <2> QED BY <1>8, TurnsExist
<1>2. AddRequestChunk(p, piece) = [turn[Len(piece) + 2] EXCEPT !.chunk = <<>>, !.waiting = FALSE]
  BY DEF AddRequestChunk, First
<1>3. Is(turn)
  <2> HIDE DEF Is
  <2> QED BY <1>1
<1> HIDE DEF turn
<1> DEFINE T == {n \in Nat : turn[n] \in Parsers /\ <<n, turn[n]>> \in X}
<1>4. 0 \in T
  <2>1. turn[0] = first
    BY <1>3
  <2> QED BY <1>8, <2>1
<1>5. ASSUME NEW n \in Nat, n \in T PROVE n + 1 \in T
  <2>1. turn[n + 1] = ParseOnce(turn[n])
    <3>1. n + 1 \in Nat /\ n + 1 # 0 /\ (n + 1) - 1 = n
      OBVIOUS
    <3> HIDE DEF first
    <3> QED BY <1>3, <3>1
  <2> QED BY <1>5, <2>1, ParseOnceType
<1>6. Nat \subseteq T
  <2> HIDE DEF T
  <2> QED BY <1>4, <1>5, Induction
<1>7. Len(piece) + 2 \in Nat
  OBVIOUS
<1> QED
  BY <1>2, <1>6, <1>7

-----------------------------------------------------------------------------
(* Lines in pieces                                                         *)

\* Pieces do not end between CR and LF.
MayEnd(m, end) ==
  end = Len(Encode(m)) \/ ~(Encode(m)[end] = "CR" /\ Encode(m)[end + 1] = "LF")

LEMMA OneWord ==
  ASSUME NEW w, w \notin {"CR", "LF"}
  PROVE  FirstWord(<<w>>) = w /\ IsOneWord(<<w>>)
<1>1. Words(<<w>>) = {1} /\ DOMAIN <<w>> = {1} /\ <<w>>[1] = w
  BY DEF Words
<1>2. (CHOOSE i \in Words(<<w>>) : \A j \in Words(<<w>>) : i <= j) = 1
  BY <1>1
<1> QED
  BY <1>1, <1>2 DEF FirstWord, IsOneWord

LEMMA HeadPlaces ==
  ASSUME NEW m \in MessageType
  PROVE  /\ HeadLength(m) \in Nat /\ HeadLength(m) - 2 \in Nat
         /\ HeadLength(m) = (HeadLength(m) - 2) + 2
         /\ HeadLength(m) - 2 = 3 * (Len(m.headers) + 1)
         /\ Len(Encode(m)) \in Nat /\ HeadLength(m) <= Len(Encode(m))
         /\ HeadLength(m) - 2 + 1 < Len(Encode(m))
         /\ \A i \in 0 .. Len(m.headers) : i \in Nat /\ 3 * i + 2 < Len(Encode(m))
<1> DEFINE N == Len(m.headers)
           B == Len(m.body)
<1>1. HeadLength(m) = 3 * (N + 1) + 2 /\ Len(Encode(m)) = HeadLength(m) + B
  BY EncodeElements DEF HeadLength
<1>2. N \in Nat /\ B \in Nat
  BY LineTypes
<1> HIDE DEF N, B
<1>3. HeadLength(m) \in Nat /\ HeadLength(m) - 2 = 3 * (N + 1) /\ Len(Encode(m)) \in Nat
  BY <1>1, <1>2
<1>4. HeadLength(m) <= Len(Encode(m)) /\ HeadLength(m) - 2 + 1 < Len(Encode(m))
  BY <1>1, <1>2, <1>3
<1>5. \A i \in 0 .. N : i \in Nat /\ 3 * i + 2 < Len(Encode(m))
  BY <1>1, <1>2
<1> QED
  BY SMTT(30), <1>2, <1>3, <1>4, <1>5 DEF N

\* The piece of s from k + 1 to end has its first line end at e.
HasLine(p, s, k, e, end) ==
  /\ p.chunk = SubSeq(s, k + 1, end) /\ e \in 1 .. end - k - 1
  /\ s[k + e] = "CR" /\ s[k + e + 1] = "LF"
  /\ \A i \in 1 .. e - 1 : s[k + i] # "CR"
\* What is left of a piece when a line that ends at e has been taken from it.
LeavesRest(p, s, k, e, end) ==
  /\ LineEnd(p.chunk) = e
  /\ AfterLine(p) = [p EXCEPT !.unparsed = <<>>, !.chunk = SubSeq(s, k + e + 2, end)]

LEMMA TakesLine ==
  ASSUME NEW p \in Parsers, NEW s \in Seq(Tokens), NEW end \in Nat, end <= Len(s),
         NEW k \in Nat, k <= end, NEW e \in Nat, HasLine(p, s, k, e, end)
  PROVE  LeavesRest(p, s, k, e, end)
<1> DEFINE c == p.chunk
<1>0. end \in 0 .. Len(s) /\ k \in 0 .. end
  OBVIOUS
<1>6. /\ c = SubSeq(s, k + 1, end) /\ e \in 1 .. end - k - 1
      /\ s[k + e] = "CR" /\ s[k + e + 1] = "LF"
      /\ \A i \in 1 .. e - 1 : s[k + i] # "CR"
  BY DEF HasLine
<1>1. /\ c \in Seq(Tokens) /\ Len(c) = end - k
      /\ \A i \in 1 .. end - k : c[i] = s[k + i]
      /\ \A n \in 0 .. end - k : SubSeq(c, n + 1, Len(c)) = SubSeq(s, k + n + 1, end)
  BY <1>0, <1>6, Piece
<1> HIDE DEF c
<1>3. LineEnd(c) = e
  <2>1. EndsAt(c, e)
    <3>1. e \in 1 .. end - k /\ e + 1 \in 1 .. end - k /\ k + (e + 1) = k + e + 1
      BY <1>6
    <3> QED BY <3>1, <1>1, <1>6 DEF EndsAt
  <2>2. ASSUME NEW i \in 1 .. e - 1 PROVE ~EndsAt(c, i)
    <3>1. i \in 1 .. end - k
      BY <1>6
    <3>2. c[i] # "CR"
      BY <3>1, <1>1, <1>6
    <3> QED BY <3>2 DEF EndsAt
  <2>3. e \in Int /\ Len(c) \in Nat
    BY <1>1
  <2> QED BY <2>1, <2>2, <2>3, LineEndIs
<1>4. SubSeq(c, e + 2, Len(c)) = SubSeq(s, k + e + 2, end)
  <2>1. e + 1 \in 0 .. end - k /\ (e + 1) + 1 = e + 2 /\ k + (e + 1) + 1 = k + e + 2
    BY <1>6
  <2> QED BY <2>1, <1>1
<1>5. AfterLine(p) = [p EXCEPT !.unparsed = <<>>, !.chunk = SubSeq(c, LineEnd(c) + 2, Len(c))]
  BY DEF AfterLine, c
<1> QED
  BY <1>3, <1>4, <1>5 DEF LeavesRest, c

LEMMA EndsNoLine ==
  ASSUME NEW s \in Seq(Tokens), NEW end \in Nat, end <= Len(s), NEW k \in Nat, k <= end, k + 1 >= end
  PROVE  LineEnd(SubSeq(s, k + 1, end)) = 0
<1> DEFINE c == SubSeq(s, k + 1, end)
<1>1. end \in 0 .. Len(s) /\ k \in 0 .. end
  OBVIOUS
<1>2. Len(c) = end - k
  BY <1>1, Piece
<1> HIDE DEF c
<1>3. 1 .. Len(c) - 1 = {}
  BY <1>2
<1> QED
  BY <1>3, NoLineEnd DEF c

\* In line i: its word may have been kept.
InLine(m, p, i, k) ==
  \/ k = 3 * i /\ p.unparsed = <<>>
  \/ k = 3 * i + 1 /\ p.unparsed = <<LineOf(m, i)>>
\* What has come of the line is all there is of the piece, or it can be taken.
LineKept(m, p, i, end) ==
  /\ LineEnd(p.chunk) = 0
  /\ \/ end = 3 * i /\ p.unparsed \o p.chunk = <<>>
     \/ end = 3 * i + 1 /\ p.unparsed \o p.chunk = <<LineOf(m, i)>>
LineTaken(m, p, i, end) ==
  /\ LineEnd(p.chunk) # 0 /\ end >= 3 * i + 3 /\ Line(p) = <<LineOf(m, i)>>
  /\ AfterLine(p) = [p EXCEPT !.unparsed = <<>>, !.chunk = SubSeq(Encode(m), 3 * i + 4, end)]

LEMMA TakesHeadLine ==
  ASSUME NEW m \in MessageType, NEW p \in Parsers,
         NEW end \in Nat, end <= Len(Encode(m)), MayEnd(m, end), NEW k \in Nat, k <= end,
         p.chunk = SubSeq(Encode(m), k + 1, end), NEW i \in 0 .. Len(m.headers),
         InLine(m, p, i, k)
  PROVE  LineKept(m, p, i, end) \/ LineTaken(m, p, i, end)
<1> DEFINE E == Encode(m)
           w == LineOf(m, i)
           c == p.chunk
<1>1. /\ E \in Seq(Tokens) /\ Len(E) \in Nat /\ i \in Nat
      /\ E[3 * i + 1] = w /\ E[3 * i + 2] = "CR" /\ E[3 * i + 3] = "LF"
  BY EncodeElements, HeadPlaces
<1>2. w \in Tokens /\ w \notin {"CR", "LF"}
  BY LineTypes
<1>9. \/ k = 3 * i /\ p.unparsed = <<>>
      \/ k = 3 * i + 1 /\ p.unparsed = <<w>>
  BY DEF InLine
<1>3. end # 3 * i + 2
  <2>1. 3 * i + 2 < Len(E)
    BY HeadPlaces
  <2>2. (3 * i + 2) + 1 = 3 * i + 3
    BY <1>1
  <2> QED BY <1>1, <2>1, <2>2 DEF MayEnd
<1>4. /\ c \in Seq(Tokens) /\ Len(c) = end - k
      /\ \A n \in 1 .. end - k : c[n] = E[k + n]
      /\ \A n \in 0 .. end - k : SubSeq(c, 1, n) \in Seq(Tokens) /\ Len(SubSeq(c, 1, n)) = n
  <2>1. end \in 0 .. Len(E) /\ k \in 0 .. end
    BY <1>1
  <2> QED BY <1>1, <2>1, Piece
<1>5. CASE end < 3 * i + 2
  <2>1. k + 1 >= end /\ end \in {3 * i, 3 * i + 1}
    BY <1>5, <1>9
  <2>2. LineEnd(c) = 0
    BY <1>1, <2>1, EndsNoLine
  <2> HIDE DEF E, c, w
  <2>3. CASE k = end
    <3>1. c = <<>>
      <4>1. Len(c) = 0
        BY <1>4, <2>3
      <4> QED BY <4>1, <1>4, EmptySeq
    <3>2. p.unparsed \in Seq(Tokens) /\ p.unparsed \o <<>> = p.unparsed
      BY DEF Parsers
    <3> QED BY <1>9, <2>2, <2>3, <3>1, <3>2 DEF LineKept, c, w
  <2>4. CASE k # end
    <3>1. k = 3 * i /\ end = 3 * i + 1 /\ p.unparsed = <<>>
      BY <2>1, <2>4, <1>1, <1>9
    <3>2. Len(c) = 1 /\ c[1] = w
      <4>1. end - k = 1 /\ 1 \in 1 .. 1 /\ k + 1 = 3 * i + 1
        BY <3>1, <1>1
      <4> QED BY <4>1, <1>1, <1>4
    <3>3. c = <<w>>
      BY <3>2, <1>4
    <3>4. <<>> \o <<w>> = <<w>>
      BY <1>2
    <3> QED BY <2>2, <3>1, <3>3, <3>4 DEF LineKept, c, w
  <2> QED BY <2>3, <2>4
<1>6. CASE end > 3 * i + 2
  <2> DEFINE e == 3 * i + 2 - k
  <2>1. /\ e \in 1 .. end - k - 1 /\ k + e = 3 * i + 2 /\ k + e + 1 = 3 * i + 3
        /\ k + e + 2 = 3 * i + 4 /\ e - 1 \in 0 .. end - k /\ (k = 3 * i => e = 2)
        /\ (k = 3 * i + 1 => e = 1) /\ e # 0
    BY <1>1, <1>6, <1>9
  <2>2. \A n \in 1 .. e - 1 : E[k + n] # "CR"
    <3>1. \A n \in 1 .. e - 1 : n = 1 /\ k + n = 3 * i + 1
      BY SMTT(30), <1>1, <1>9
    <3> QED BY <3>1, <1>1, <1>2
  <2> HIDE DEF e
  <2>6. p.chunk = SubSeq(E, k + 1, end) /\ end <= Len(E)
    OBVIOUS
  <2>7. E[k + e] = "CR" /\ E[k + e + 1] = "LF" /\ E \in Seq(Tokens)
    BY <1>1, <2>1
  <2> HIDE DEF E, w
  <2>3. /\ LineEnd(c) = e
        /\ AfterLine(p) = [p EXCEPT !.unparsed = <<>>, !.chunk = SubSeq(E, k + e + 2, end)]
    <3>0. e \in Nat
      BY <2>1
    <3>1. HasLine(p, E, k, e, end)
      BY <2>1, <2>2, <2>6, <2>7, Zenon DEF HasLine
    <3>2. LeavesRest(p, E, k, e, end)
      BY <2>6, <2>7, <3>0, <3>1, TakesLine
    <3> QED BY <3>2 DEF LeavesRest
  <2> HIDE DEF c
  <2>4. p.unparsed \o SubSeq(c, 1, e - 1) = <<w>>
    <3> DEFINE d == SubSeq(c, 1, e - 1)
    <3>1. d \in Seq(Tokens) /\ Len(d) = e - 1
      BY <1>4, <2>1
    <3>2. CASE k = 3 * i
      <4>1. e = 2 /\ p.unparsed = <<>>
        BY <2>1, <3>2, <1>1, <1>9
      <4>2. d = <<c[1]>>
        <5>1. e - 1 = 1 /\ 1 <= Len(c)
          BY <1>4, <2>1, <4>1
        <5>2. Len(d) = 1 /\ d[1] = c[1]
          BY <1>4, <3>1, <5>1
        <5>3. \A t \in Seq(Tokens) : Len(t) = 1 => t = <<t[1]>>
          OBVIOUS
        <5> QED BY <3>1, <5>2, <5>3
      <4>3. c[1] = w
        <5>1. 1 \in 1 .. end - k /\ k + 1 = 3 * i + 1
          BY <2>1, <3>2, <4>1
        <5> QED BY <5>1, <1>1, <1>4
      <4>4. <<>> \o <<w>> = <<w>>
        BY <1>2
      <4> QED BY <4>1, <4>2, <4>3, <4>4
    <3>3. CASE k # 3 * i
      <4>1. k = 3 * i + 1 /\ p.unparsed = <<w>>
        BY <1>9, <3>3 DEF w
      <4>2. Len(d) = 0
        BY <2>1, <3>1, <4>1
      <4> HIDE DEF d
      <4>3. d = <<>>
        BY <3>1, <4>2, EmptySeq
      <4>4. <<w>> \o <<>> = <<w>>
        BY <1>2
      <4> QED BY <4>1, <4>3, <4>4 DEF d
    <3> QED BY <3>2, <3>3
  <2>5. Line(p) = <<w>>
    BY <2>3, <2>4 DEF Line, c
  <2>8. LineEnd(p.chunk) # 0 /\ end >= 3 * i + 3
    BY <1>1, <1>6, <2>1, <2>3 DEF c
  <2>9. AfterLine(p) = [p EXCEPT !.unparsed = <<>>, !.chunk = SubSeq(E, 3 * i + 4, end)]
    BY <2>1, <2>3
  <2> QED BY <2>5, <2>8, <2>9, Zenon DEF LineTaken, w, E
<1>7. end < 3 * i + 2 \/ end > 3 * i + 2
  BY <1>1, <1>3
<1> QED
  BY <1>5, <1>6, <1>7

\* The empty line.
LEMMA TakesEmptyLine ==
  ASSUME NEW m \in MessageType, NEW p \in Parsers,
         NEW end \in Nat, end <= Len(Encode(m)), MayEnd(m, end),
         HeadLength(m) - 2 <= end, p.unparsed = <<>>,
         p.chunk = SubSeq(Encode(m), (HeadLength(m) - 2) + 1, end)
  PROVE  \/ /\ LineEnd(p.chunk) = 0
            /\ end = HeadLength(m) - 2 /\ p.unparsed \o p.chunk = <<>>
         \/ /\ LineEnd(p.chunk) # 0 /\ end >= HeadLength(m) /\ Line(p) = <<>>
            /\ AfterLine(p) = [p EXCEPT !.unparsed = <<>>,
                                        !.chunk = SubSeq(Encode(m), HeadLength(m) + 1, end)]
<1> DEFINE E == Encode(m)
           k == HeadLength(m) - 2
           c == p.chunk
<1>1. /\ E \in Seq(Tokens) /\ Len(E) \in Nat /\ k \in Nat
      /\ HeadLength(m) = k + 2 /\ k + 1 < Len(E)
      /\ E[k + 1] = "CR" /\ E[k + 2] = "LF"
  <2>1. k = 3 * (Len(m.headers) + 1)
    BY HeadPlaces
  <2>2. /\ E \in Seq(Tokens)
        /\ E[3 * (Len(m.headers) + 1) + 1] = "CR" /\ E[3 * (Len(m.headers) + 1) + 2] = "LF"
    BY EncodeElements
  <2>3. Len(E) \in Nat /\ k \in Nat /\ HeadLength(m) = k + 2 /\ k + 1 < Len(E)
    BY HeadPlaces
  <2> HIDE DEF k, E
  <2> QED BY <2>1, <2>2, <2>3
<1>3. k <= end /\ end <= Len(E) /\ c = SubSeq(E, k + 1, end)
  OBVIOUS
<1> HIDE DEF k, c
<1>2. end # k + 1
  <2>1. (k + 1) + 1 = k + 2
    BY <1>1
  <2> QED BY <1>1, <2>1 DEF MayEnd
<1> HIDE DEF E
<1>7. end \in 0 .. Len(E) /\ k \in 0 .. end
  BY <1>1, <1>3
<1>4. c \in Seq(Tokens) /\ Len(c) = end - k
  BY <1>1, <1>3, <1>7, Piece
<1>5. CASE end = k
  <2>1. LineEnd(c) = 0
    <3>1. k + 1 >= end
      BY <1>1, <1>5
    <3> QED BY <1>1, <1>3, <3>1, EndsNoLine
  <2>2. c = <<>>
    <3>1. Len(c) = 0
      BY <1>1, <1>4, <1>5
    <3> QED BY <3>1, <1>4, EmptySeq
  <2>3. <<>> \o <<>> = <<>>
    OBVIOUS
  <2> QED BY <1>5, <2>1, <2>2, <2>3 DEF k, c
<1>6. CASE end # k
  <2>1. 1 \in 1 .. end - k - 1 /\ k + 1 + 1 = k + 2 /\ k + 1 + 2 = HeadLength(m) + 1 /\ end >= HeadLength(m)
    BY <1>1, <1>2, <1>3, <1>6
  <2>2. \A n \in 1 .. 1 - 1 : E[k + n] # "CR"
    OBVIOUS
  <2>5. p.chunk = SubSeq(E, k + 1, end)
    BY <1>3 DEF c
  <2>3. /\ LineEnd(p.chunk) = 1
        /\ AfterLine(p) = [p EXCEPT !.unparsed = <<>>, !.chunk = SubSeq(E, k + 1 + 2, end)]
    <3>1. HasLine(p, E, k, 1, end) /\ 1 \in Nat
      BY <1>1, <2>1, <2>2, <2>5 DEF HasLine
    <3>2. LeavesRest(p, E, k, 1, end)
      BY <1>1, <1>3, <3>1, TakesLine
    <3> QED BY <3>2 DEF LeavesRest
  <2>4. Line(p) = <<>>
    <3>1. SubSeq(c, 1, 0) = <<>> /\ <<>> \o <<>> = <<>>
      BY <1>4
    <3> QED BY <2>3, <3>1 DEF Line, c
  <2>6. LineEnd(p.chunk) # 0 /\ end >= HeadLength(m)
    BY <2>1, <2>3
  <2> QED BY <2>1, <2>3, <2>4, <2>6 DEF E
<1> QED
  BY <1>5, <1>6

-----------------------------------------------------------------------------
(* What each line tells                                                    *)

Plain(m) == m \in MessageType /\ InScope(m) /\ WellFormed(m)

LEMMA SeenIs ==
  ASSUME NEW m \in MessageType
  PROVE  /\ Seen(m, 0) = {} /\ Seen(m, 1) = {}
         /\ \A i \in 1 .. Len(m.headers) : Seen(m, i + 1) = Seen(m, i) \cup {m.headers[i]}
         /\ Seen(m, Len(m.headers) + 1) = Range(m.headers)
         /\ \A i \in 0 .. Len(m.headers) + 1 : Seen(m, i) \subseteq Range(m.headers)
<1> DEFINE N == Len(m.headers)
<1>1. N \in Nat /\ DOMAIN m.headers = 1 .. N
  BY LineTypes
<1>2. Seen(m, 0) = {} /\ Seen(m, 1) = {}
  BY <1>1 DEF Seen
<1>3. ASSUME NEW i \in 1 .. N PROVE Seen(m, i + 1) = Seen(m, i) \cup {m.headers[i]}
  <2>1. \A j \in 1 .. N : j < i + 1 <=> j < i \/ j = i
    BY <1>1
  <2> QED BY <2>1 DEF Seen
<1>4. Seen(m, N + 1) = Range(m.headers)
  <2>1. \A j \in 1 .. N : j < N + 1
    BY <1>1
  <2> QED BY <2>1, <1>1 DEF Seen, Range
<1>5. \A i \in 0 .. N + 1 : Seen(m, i) \subseteq Range(m.headers)
  BY <1>1 DEF Seen, Range
<1> QED
  BY <1>2, <1>3, <1>4, <1>5

LEMMA LengthIs ==
  ASSUME NEW m, Plain(m)
  PROVE  /\ LengthOf(m) \in Nat /\ Len(m.body) = LengthOf(m)
         /\ \A h \in Range(m.headers) \cap DOMAIN Lengths :
              LengthOf(m) = Lengths[h] /\ LengthOf(m) > 0
         /\ Range(m.headers) \cap DOMAIN Lengths = {} => LengthOf(m) = 0
<1> DEFINE given == Range(m.headers) \cap DOMAIN Lengths
           c == CHOOSE h \in given : TRUE
<1>1. LengthOf(m) = IF given = {} THEN 0 ELSE Lengths[c]
  BY DEF LengthOf
<1>2. Len(m.body) = LengthOf(m) /\ \A g, h \in given : g = h
  BY DEF Plain, WellFormed
<1>3. given # {} => c \in given
  OBVIOUS
<1>4. given \subseteq DOMAIN Lengths
  OBVIOUS
<1> HIDE DEF given, c
<1>5. ASSUME NEW h \in given PROVE LengthOf(m) = Lengths[h] /\ LengthOf(m) > 0
  <2>1. LengthOf(m) = Lengths[h]
    BY <1>1, <1>2, <1>3
  <2>2. Lengths[h] \in Nat \ {0}
    BY <1>4, LengthsType
  <2> QED BY <2>1, <2>2
<1>6. LengthOf(m) \in Nat
  BY <1>1, <1>3, <1>4, LengthsType
<1> QED
  BY <1>1, <1>2, <1>5, <1>6 DEF given

\* Whether two Request objects are at the same place of their piece.
SamePlace(p, q) ==
  q.unparsed = p.unparsed /\ q.chunk = p.chunk /\ q.waiting = p.waiting

LEMMA RequestLineParsed ==
  ASSUME NEW m \in MessageType, NEW p \in Parsers, Fields(m, p, 0)
  PROVE  LET q == [SetRequestLine(p, <<m.line>>) EXCEPT !.state = "HEADERS"]
         IN Fields(m, q, 1) /\ SamePlace(p, q)
<1> DEFINE q == [SetRequestLine(p, <<m.line>>) EXCEPT !.state = "HEADERS"]
<1>1. /\ p.method = "UNSUPPORTED" /\ p.error = "none" /\ p.length = 0 /\ ~p.typed
      /\ ~p.keepAlive /\ ~p.chunkedHeader /\ ~p.isChunked /\ p.body = <<>>
  <2>1. ~SeenLength(m, 0) /\ Seen(m, 0) = {}
    BY SeenIs DEF SeenLength
  <2> QED BY <2>1 DEF Fields, Parsers
<1>2. FirstWord(<<m.line>>) = m.line /\ IsOneWord(<<m.line>>)
  <2>1. LineOf(m, 0) \notin {"CR", "LF"}
    BY LineTypes
  <2> QED BY <2>1, OneWord DEF LineOf
<1>3. m.line \in RequestLines
  BY LineTypes
<1>4. SetRequestLine(p, <<m.line>>) =
        CASE m.line = "GET"  -> [p EXCEPT !.method = "GET"]
          [] m.line = "POST" -> [p EXCEPT !.method = "POST"]
          [] m.line = "PUT"  -> [p EXCEPT !.error = "405"]
          [] m.line = "OLD"  -> [p EXCEPT !.method = "GET", !.error = "505"]
  <2>1. SetError(p, "405") = [p EXCEPT !.error = "405"]
    BY <1>1 DEF SetError
  <2>2. SetError([p EXCEPT !.method = "GET"], "505") = [p EXCEPT !.method = "GET", !.error = "505"]
    BY <1>1 DEF SetError, Parsers
  <2> QED BY <1>2, <1>3, <2>1, <2>2 DEF SetRequestLine, RequestLines
<1>5. /\ q.state = "HEADERS"
      /\ q.method = CASE m.line = "PUT" -> "UNSUPPORTED" [] m.line = "POST" -> "POST"
                      [] m.line \in {"GET", "OLD"} -> "GET"
      /\ q.error = CASE m.line = "PUT" -> "405" [] m.line = "OLD" -> "505" [] OTHER -> "none"
      /\ q.length = 0 /\ ~q.typed /\ ~q.keepAlive /\ ~q.chunkedHeader /\ ~q.isChunked
      /\ q.body = <<>> /\ SamePlace(p, q)
  BY ZenonT(60), <1>1, <1>3, <1>4 DEF RequestLines, Parsers, SamePlace
<1>6. q.typed = FALSE /\ q.keepAlive = FALSE
  BY <1>1, <1>3, <1>4 DEF RequestLines, Parsers
<1> HIDE DEF q
<1>7. ~SeenLength(m, 1) /\ Seen(m, 1) = {}
  BY SeenIs DEF SeenLength
<1>8. Fields(m, q, 1)
  <2>1. q.error = CASE 1 > 0 /\ m.line = "PUT" -> "405"
                    [] 1 > 0 /\ m.line = "OLD" -> "505"
                    [] m.line \in {"GET", "POST"} /\ SeenLength(m, 1) /\ LengthOf(m) > MaxBody -> "413"
                    [] OTHER -> "none"
    BY <1>3, <1>5, <1>7 DEF RequestLines
  <2>2. q.method = CASE 1 = 0 \/ m.line = "PUT" -> "UNSUPPORTED"
                     [] 1 > 0 /\ m.line = "POST" -> "POST"
                     [] 1 > 0 /\ m.line \in {"GET", "OLD"} -> "GET"
    BY <1>3, <1>5 DEF RequestLines
  <2>3. q.length = CASE ~SeenLength(m, 1) -> 0
                     [] SeenLength(m, 1) /\ LengthOf(m) <= MaxBody -> LengthOf(m)
                     [] SeenLength(m, 1) /\ LengthOf(m) > MaxBody -> MaxBody
    BY <1>5, <1>7
  <2>4. q.typed = ("type" \in Seen(m, 1)) /\ q.keepAlive = ("keep" \in Seen(m, 1))
    <3>1. ("type" \in Seen(m, 1)) = FALSE /\ ("keep" \in Seen(m, 1)) = FALSE
      BY <1>7
    <3> QED BY <1>6, <3>1, Zenon
  <2>5. q.state \in IF 1 = 0 THEN {"EMPTY", "REQUEST_LINE"} ELSE {"HEADERS"}
    BY <1>5
  <2> QED BY <1>5, <2>1, <2>2, <2>3, <2>4, <2>5 DEF Fields
<1> QED
  BY <1>5, <1>8 DEF q

LEMMA HeaderParsed ==
  ASSUME NEW m, Plain(m), NEW p \in Parsers, NEW i \in 1 .. Len(m.headers), Fields(m, p, i)
  PROVE  LET q == AddAsHeaderVar(p, <<LineOf(m, i)>>)
         IN Fields(m, q, i + 1) /\ SamePlace(p, q)
<1> DEFINE q == AddAsHeaderVar(p, <<LineOf(m, i)>>)
           h == LineOf(m, i)
<1>1. m \in MessageType /\ i \in Nat /\ i # 0 /\ i + 1 # 0 /\ i > 0 /\ i + 1 > 0
  BY DEF Plain
<1>2. h \in HeaderLines /\ h = m.headers[i] /\ FirstWord(<<h>>) = h /\ IsOneWord(<<h>>)
  <2>1. h \notin {"CR", "LF"}
    BY <1>1, LineTypes
  <2> QED BY <1>1, <2>1, LineTypes, OneWord DEF LineOf
<1>3. Seen(m, i + 1) = Seen(m, i) \cup {h} /\ h \in Range(m.headers)
  <2>1. Seen(m, i + 1) = Seen(m, i) \cup {h} /\ Seen(m, i + 1) \subseteq Range(m.headers)
    BY <1>1, <1>2, SeenIs
  <2> QED BY <2>1
<1>4. h # "chunked"
  BY <1>3 DEF Plain, InScope, Has
<1>5. q = CASE h \in DOMAIN Lengths -> SetContentLength(p, Lengths[h])
            [] h = "type" -> [p EXCEPT !.typed = TRUE]
            [] h = "keep" -> [p EXCEPT !.keepAlive = TRUE]
            [] h = "other" -> p
  BY <1>2, <1>4, LengthsType DEF AddAsHeaderVar, HeaderLines
<1>6. /\ h \notin DOMAIN Lengths => SeenLength(m, i + 1) = SeenLength(m, i)
      /\ h \in DOMAIN Lengths => SeenLength(m, i + 1)
  BY <1>3 DEF SeenLength
<1>7. MaxBody \in Nat
  BY MaxBodyAssumption
<1> HIDE DEF q, h
<1>8. CASE h \in DOMAIN Lengths
  <2>1. LengthOf(m) = Lengths[h] /\ LengthOf(m) \in Nat
    BY <1>3, <1>8, LengthIs
  <2>2. q = IF LengthOf(m) > MaxBody THEN SetError([p EXCEPT !.length = MaxBody], "413")
            ELSE [p EXCEPT !.length = LengthOf(m)]
    <3>1. q = SetContentLength(p, Lengths[h])
      BY <1>5, <1>8, LengthsType
    <3>2. q = SetContentLength(p, LengthOf(m))
      BY <2>1, <3>1
    <3> QED BY <3>2 DEF SetContentLength
  <2>3. h \notin {"type", "keep"}
    BY <1>8, LengthsType
  <2>4. ("type" \in Seen(m, i + 1)) = ("type" \in Seen(m, i)) /\ ("keep" \in Seen(m, i + 1)) = ("keep" \in Seen(m, i))
    BY <1>3, <2>3
  <2>5. m.line \in RequestLines
    BY <1>1, LineTypes
  <2>6. CASE LengthOf(m) <= MaxBody
    <3>1. q = [p EXCEPT !.length = LengthOf(m)]
      BY <2>1, <2>2, <2>6, <1>7
    <3>2. /\ q.state = p.state /\ q.method = p.method /\ q.error = p.error /\ q.typed = p.typed
          /\ q.keepAlive = p.keepAlive /\ q.chunkedHeader = p.chunkedHeader
          /\ q.isChunked = p.isChunked /\ q.body = p.body /\ q.length = LengthOf(m)
          /\ SamePlace(p, q)
      BY <3>1 DEF Parsers, SamePlace
    <3>3. ~(LengthOf(m) > MaxBody)
      BY <2>1, <2>6, <1>7
    <3> QED BY <1>1, <1>6, <1>8, <2>4, <2>6, <3>2, <3>3 DEF Fields, h, q
  <2>7. CASE LengthOf(m) > MaxBody
    <3>1. q = SetError([p EXCEPT !.length = MaxBody], "413")
      BY <2>2, <2>7
    <3>2. /\ q.state = p.state /\ q.method = p.method /\ q.typed = p.typed
          /\ q.keepAlive = p.keepAlive /\ q.chunkedHeader = p.chunkedHeader
          /\ q.isChunked = p.isChunked /\ q.body = p.body /\ q.length = MaxBody
          /\ q.error = (IF p.error = "none" THEN "413" ELSE p.error)
          /\ SamePlace(p, q)
      BY <3>1 DEF Parsers, SetError, SamePlace
    <3>3. ~(LengthOf(m) <= MaxBody)
      BY <2>1, <2>7, <1>7
    <3>4. q.error = CASE m.line = "PUT" -> "405" [] m.line = "OLD" -> "505" [] OTHER -> "413"
      BY <1>1, <2>5, <2>7, <3>2 DEF Fields, RequestLines
    <3> QED BY <1>1, <1>6, <1>8, <2>4, <2>5, <2>7, <3>2, <3>3, <3>4 DEF Fields, RequestLines, h, q
  <2> QED BY <2>1, <2>6, <2>7, <1>7
<1>9. CASE h \notin DOMAIN Lengths
  <2>1. /\ q.state = p.state /\ q.method = p.method /\ q.error = p.error
        /\ q.length = p.length /\ q.chunkedHeader = p.chunkedHeader
        /\ q.isChunked = p.isChunked /\ q.body = p.body
        /\ q.typed = (p.typed \/ h = "type") /\ q.keepAlive = (p.keepAlive \/ h = "keep")
        /\ SamePlace(p, q)
    <3>1. h \in {"type", "keep", "other"}
      BY <1>2, <1>4, <1>9 DEF HeaderLines
    <3>2. p.typed \in BOOLEAN /\ p.keepAlive \in BOOLEAN
      BY DEF Parsers
    <3>3. CASE h = "type"
      BY <1>5, <1>9, <3>2, <3>3 DEF Parsers, SamePlace
    <3>4. CASE h = "keep"
      BY <1>5, <1>9, <3>2, <3>4 DEF Parsers, SamePlace
    <3>5. CASE h = "other"
      BY <1>5, <1>9, <3>2, <3>5 DEF Parsers, SamePlace
    <3> QED BY <3>1, <3>3, <3>4, <3>5
  <2>2. /\ ("type" \in Seen(m, i + 1)) = (p.typed \/ h = "type")
        /\ ("keep" \in Seen(m, i + 1)) = (p.keepAlive \/ h = "keep")
    <3>1. p.typed = ("type" \in Seen(m, i)) /\ p.keepAlive = ("keep" \in Seen(m, i))
      BY DEF Fields
    <3>2. ("type" \in Seen(m, i + 1)) = ("type" \in Seen(m, i) \/ h = "type")
      BY <1>3
    <3>3. ("keep" \in Seen(m, i + 1)) = ("keep" \in Seen(m, i) \/ h = "keep")
      BY <1>3
    <3> QED BY <3>1, <3>2, <3>3, Zenon
  <2> QED BY <1>1, <1>6, <1>9, <2>1, <2>2 DEF Fields, h, q
<1> QED
  BY <1>8, <1>9

\* The empty line ends the head, and the request if there is no body to come.
LEMMA HeadParsed ==
  ASSUME NEW m, Plain(m), NEW p \in Parsers, Fields(m, p, Len(m.headers) + 1)
  PROVE  LET q == SetIfAssemblingBody(p)
         IN (InBody(m, q, HeadLength(m)) \/ Finished(m, q)) /\ SamePlace(p, q)
<1> DEFINE N == Len(m.headers)
           l == LengthOf(m)
           q == SetIfAssemblingBody(p)
<1>1. /\ m \in MessageType /\ m.line \in RequestLines /\ N + 1 > 0 /\ N + 1 # 0
      /\ m.body \in Seq(Tokens) /\ HeadLength(m) \in Nat
  <2>1. m \in MessageType
    BY DEF Plain
  <2> QED BY <2>1, LineTypes, HeadPlaces
<1>2. l \in Nat /\ Len(m.body) = l /\ MaxBody \in Nat /\ (~SeenLength(m, N + 1) => l = 0)
  BY <1>1, LengthIs, SeenIs, MaxBodyAssumption DEF SeenLength
<1>3. ~Has(m, "chunked")
  BY DEF Plain, InScope
<1>4. Seen(m, N + 1) = Range(m.headers)
  BY <1>1, SeenIs
<1>5. /\ p.typed = Has(m, "type") /\ p.keepAlive = Has(m, "keep")
      /\ ~p.chunkedHeader /\ ~p.isChunked /\ p.body = <<>> /\ p.state = "HEADERS"
  BY <1>1, <1>4 DEF Fields, Has
<1>6. /\ p.method = CASE m.line = "PUT" -> "UNSUPPORTED" [] m.line = "POST" -> "POST"
                      [] m.line \in {"GET", "OLD"} -> "GET"
      /\ p.error = CASE m.line = "PUT" -> "405" [] m.line = "OLD" -> "505"
                     [] m.line \in {"GET", "POST"} /\ l > MaxBody -> "413" [] OTHER -> "none"
      /\ p.length = IF l <= MaxBody THEN l ELSE MaxBody
  <2>1. SeenLength(m, N + 1) /\ l > MaxBody <=> l > MaxBody
    BY <1>2
  <2>2. p.method = CASE m.line = "PUT" -> "UNSUPPORTED" [] m.line = "POST" -> "POST"
                     [] m.line \in {"GET", "OLD"} -> "GET"
    <3>1. p.method = CASE N + 1 = 0 \/ m.line = "PUT" -> "UNSUPPORTED"
                       [] N + 1 > 0 /\ m.line = "POST" -> "POST"
                       [] N + 1 > 0 /\ m.line \in {"GET", "OLD"} -> "GET"
      BY DEF Fields
    <3> HIDE DEF N
    <3> QED BY <1>1, <3>1 DEF RequestLines
  <2>3. p.error = CASE m.line = "PUT" -> "405" [] m.line = "OLD" -> "505"
                     [] m.line \in {"GET", "POST"} /\ l > MaxBody -> "413" [] OTHER -> "none"
    BY <1>1, <2>1 DEF Fields
  <2>4. p.length = IF l <= MaxBody THEN l ELSE MaxBody
    BY <1>2 DEF Fields
  <2> QED BY <2>2, <2>3, <2>4
<1>7. /\ m.line = "PUT" => ExpectedError(m) = "405"
      /\ m.line = "OLD" => ExpectedError(m) = "505"
      /\ m.line \in {"GET", "POST"} /\ l > MaxBody => ExpectedError(m) = "413"
      /\ m.line = "GET" /\ l <= MaxBody => ExpectedError(m) = "none"
      /\ m.line = "POST" /\ l <= MaxBody =>
           ExpectedError(m) = IF Has(m, "type") THEN "none" ELSE "415"
  BY <1>1, <1>2 DEF ExpectedError, RequestLines
<1>8. /\ m.line # "POST" => ExpectedBody(m) = <<>>
      /\ m.line = "POST" => ExpectedBody(m) = m.body
  BY <1>3 DEF ExpectedBody
<1> HIDE DEF l
<1>9. CASE p.method = "GET" \/ p.error # "none"
  <2>1. q = [p EXCEPT !.state = "DONE"]
    BY <1>9 DEF SetIfAssemblingBody
  <2>2. /\ q.state = "DONE" /\ q.error = p.error /\ q.keepAlive = p.keepAlive
        /\ q.body = p.body /\ SamePlace(p, q)
    BY <2>1 DEF Parsers, SamePlace
  <2> HIDE DEF q
  <2>3. q.error = ExpectedError(m)
    BY <1>1, <1>2, <1>6, <1>7, <1>9, <2>2 DEF RequestLines
  <2>4. q.error = "none" => q.body = ExpectedBody(m)
    BY <1>1, <1>5, <1>6, <1>8, <1>9, <2>2 DEF RequestLines
  <2> QED BY <1>5, <2>2, <2>3, <2>4 DEF Finished, q
<1>10. CASE ~(p.method = "GET" \/ p.error # "none")
  <2> DEFINE r == IF p.typed THEN p ELSE SetError(p, "415")
  <2>1. m.line = "POST" /\ l <= MaxBody /\ p.length = l
    BY <1>1, <1>2, <1>6, <1>10 DEF RequestLines
  <2>2. /\ r.error = ExpectedError(m) /\ r.keepAlive = Has(m, "keep") /\ r.body = <<>>
        /\ r.length = l /\ r.chunkedHeader = FALSE /\ SamePlace(p, r) /\ r \in Parsers
        /\ ExpectedError(m) \in {"none", "415"}
    <3>1. p.error = "none" /\ p.chunkedHeader = FALSE
      BY <1>10, <1>5 DEF Parsers
    <3>2. CASE p.typed
      BY <1>5, <1>7, <2>1, <3>1, <3>2 DEF SamePlace
    <3>3. CASE ~p.typed
      <4>1. r = [p EXCEPT !.error = "415"]
        BY <3>1, <3>3 DEF SetError
      <4>2. ExpectedError(m) = "415"
        BY <1>5, <1>7, <2>1, <3>3
      <4>3. /\ r.error = "415" /\ r.keepAlive = p.keepAlive /\ r.body = p.body
            /\ r.length = p.length /\ r.chunkedHeader = p.chunkedHeader /\ SamePlace(p, r)
            /\ r \in Parsers
        BY <4>1 DEF Parsers, Errors, SamePlace
      <4> QED BY <1>5, <2>1, <3>1, <4>2, <4>3
    <3> QED BY <3>2, <3>3
  <2>3. q = IF r.chunkedHeader THEN [r EXCEPT !.state = "BODY", !.isChunked = TRUE]
            ELSE IF r.length > 0 THEN [r EXCEPT !.state = "BODY", !.isChunked = FALSE]
            ELSE [r EXCEPT !.state = "DONE"]
    BY <1>10 DEF SetIfAssemblingBody
  <2> HIDE DEF r, q
  <2>4. CASE l > 0
    <3>1. q = [r EXCEPT !.state = "BODY", !.isChunked = FALSE]
      BY <2>2, <2>3, <2>4
    <3>2. /\ q.state = "BODY" /\ ~q.isChunked /\ q.error = r.error /\ q.length = r.length
          /\ q.keepAlive = r.keepAlive /\ q.body = r.body /\ SamePlace(r, q)
      BY <2>2, <3>1 DEF Parsers, SamePlace
    <3>3. HeadLength(m) - HeadLength(m) = 0 /\ SubSeq(m.body, 1, 0) = <<>>
      BY <1>1
    <3>4. InBody(m, q, HeadLength(m))
      BY <1>1, <1>2, <2>1, <2>2, <2>4, <3>2, <3>3 DEF InBody
    <3> QED BY <2>2, <3>2, <3>4 DEF SamePlace, q
  <2>5. CASE ~(l > 0)
    <3>1. q = [r EXCEPT !.state = "DONE"]
      BY <2>2, <2>3, <2>5
    <3>2. /\ q.state = "DONE" /\ q.error = r.error
          /\ q.keepAlive = r.keepAlive /\ q.body = r.body /\ SamePlace(r, q)
      BY <2>2, <3>1 DEF Parsers, SamePlace
    <3>3. m.body = <<>>
      <4>1. Len(m.body) = 0
        BY <1>2, <2>5
      <4> QED BY <4>1, <1>1, EmptySeq
    <3>4. Finished(m, q)
      BY <1>8, <2>1, <2>2, <3>2, <3>3 DEF Finished
    <3> QED BY <2>2, <3>2, <3>4 DEF SamePlace, q
  <2> QED BY <2>4, <2>5
<1> QED
  BY <1>9, <1>10

-----------------------------------------------------------------------------
(* The body                                                                *)

\* The body so far and the piece of the stream that follows.
LEMMA BodyPiece ==
  ASSUME NEW m \in MessageType, NEW end \in Nat, end <= Len(Encode(m)),
         NEW k \in Nat, k <= end, HeadLength(m) <= k
  PROVE  LET h == HeadLength(m)
         IN /\ k - h \in 0 .. Len(m.body) /\ end - h \in 0 .. Len(m.body)
            /\ Len(SubSeq(m.body, 1, k - h)) = k - h
            /\ Len(SubSeq(m.body, 1, end - h)) = end - h
            /\ SubSeq(m.body, 1, end - h)
               = SubSeq(m.body, 1, k - h) \o SubSeq(Encode(m), k + 1, end)
<1> DEFINE E == Encode(m)
           h == HeadLength(m)
           s == m.body
           c == SubSeq(E, k + 1, end)
           before == SubSeq(s, 1, k - h)
           after == SubSeq(s, 1, end - h)
<1>1. /\ E \in Seq(Tokens) /\ Len(E) = h + Len(s) /\ s \in Seq(Tokens) /\ Len(s) \in Nat
      /\ h \in Nat /\ \A i \in 1 .. Len(s) : E[h + i] = s[i]
  BY EncodeElements, LineTypes, HeadPlaces
<1> HIDE DEF E, h, s
<1>2. /\ h <= k /\ end <= h + Len(s) /\ k - h \in 0 .. Len(s) /\ end - h \in 0 .. Len(s)
      /\ end \in 0 .. Len(E) /\ k \in 0 .. end
  BY <1>1 DEF E, h
<1>3. \A n \in 0 .. Len(s) : /\ SubSeq(s, 1, n) \in Seq(Tokens) /\ Len(SubSeq(s, 1, n)) = n
                             /\ \A i \in 1 .. n : SubSeq(s, 1, n)[i] = s[i]
  <2> SUFFICES ASSUME NEW n \in 0 .. Len(s)
               PROVE  /\ SubSeq(s, 0 + 1, n) \in Seq(Tokens) /\ Len(SubSeq(s, 0 + 1, n)) = n - 0
                      /\ \A i \in 1 .. n - 0 : SubSeq(s, 0 + 1, n)[i] = s[0 + i]
    BY <1>1
  <2>1. 0 \in 0 .. n
    OBVIOUS
  <2> QED BY <1>1, <2>1, Piece
<1>4. /\ before \in Seq(Tokens) /\ Len(before) = k - h
      /\ \A i \in 1 .. k - h : before[i] = s[i]
  BY <1>2, <1>3
<1>5. /\ after \in Seq(Tokens) /\ Len(after) = end - h
      /\ \A i \in 1 .. end - h : after[i] = s[i]
  BY <1>2, <1>3
<1>6. c \in Seq(Tokens) /\ Len(c) = end - k /\ \A i \in 1 .. end - k : c[i] = E[k + i]
  BY <1>1, <1>2, Piece
<1> HIDE DEF before, after, c
<1>7. /\ before \o c \in Seq(Tokens) /\ Len(before \o c) = (k - h) + (end - k)
      /\ \A i \in 1 .. (k - h) + (end - k) :
           (before \o c)[i] = IF i <= k - h THEN before[i] ELSE c[i - (k - h)]
  BY SMTT(30), <1>4, <1>6, ConcatProperties
<1>8. (k - h) + (end - k) = end - h
  BY <1>1
<1>9. ASSUME NEW i \in 1 .. end - h PROVE after[i] = (before \o c)[i]
  <2>1. CASE i <= k - h
    <3>1. i \in 1 .. k - h
      BY <2>1
    <3> QED BY <2>1, <3>1, <1>4, <1>5, <1>7, <1>8
  <2>2. CASE ~(i <= k - h)
    <3>1. /\ i - (k - h) \in 1 .. end - k /\ k + (i - (k - h)) = h + i /\ i \in 1 .. Len(s)
      BY <2>2, <1>1, <1>2
    <3>2. c[i - (k - h)] = E[h + i]
      BY <3>1, <1>6
    <3>3. E[h + i] = s[i]
      BY <3>1, <1>1
    <3> QED BY <2>2, <3>2, <3>3, <1>5, <1>7, <1>8
  <2> QED BY <2>1, <2>2
<1>10. after = before \o c
  BY <1>5, <1>7, <1>8, <1>9, SeqEqual
<1> QED
  BY <1>2, <1>4, <1>5, <1>10 DEF before, after, c, s, h, E

\* A turn takes the rest of the piece, unless the body is refused as too large.
LEMMA BodyTurn ==
  ASSUME NEW m, Plain(m), NEW p \in Parsers, NEW end \in Nat, end <= Len(Encode(m)),
         NEW k \in Nat, k <= end, p.chunk = SubSeq(Encode(m), k + 1, end), InBody(m, p, k)
  PROVE  LET q == AssembleUnChunkedBody(p)
         IN \/ Finished(m, q)
            \/ InBody(m, q, end) /\ q.waiting /\ q.chunk = <<>>
<1> DEFINE E == Encode(m)
           h == HeadLength(m)
           s == m.body
           l == Len(s)
           c == p.chunk
           r == AssembleUnChunkedBody(p)
<1>1. /\ m \in MessageType /\ s \in Seq(Tokens) /\ l \in Nat /\ h \in Nat /\ MaxBody \in Nat
      /\ ~Has(m, "chunked") /\ LengthOf(m) = l
  <2>1. m \in MessageType /\ ~Has(m, "chunked") /\ LengthOf(m) = l
    BY LengthIs DEF Plain, InScope
  <2> QED BY <2>1, LineTypes, HeadPlaces, MaxBodyAssumption
<1>2. /\ p.state = "BODY" /\ ~p.isChunked /\ m.line = "POST" /\ p.error = ExpectedError(m)
      /\ p.error \in {"none", "415"} /\ p.length = l /\ l <= MaxBody
      /\ p.keepAlive = Has(m, "keep") /\ h <= k /\ k - h < l
      /\ p.body = SubSeq(s, 1, k - h)
  BY <1>1 DEF InBody
<1>3. /\ k - h \in 0 .. l /\ end - h \in 0 .. l /\ Len(p.body) = k - h
      /\ Len(SubSeq(s, 1, end - h)) = end - h
      /\ SubSeq(s, 1, end - h) = p.body \o c
  <2>1. m \in MessageType /\ HeadLength(m) <= k
    BY <1>1, <1>2
  <2>2. /\ k - HeadLength(m) \in 0 .. Len(m.body) /\ end - HeadLength(m) \in 0 .. Len(m.body)
        /\ Len(SubSeq(m.body, 1, k - HeadLength(m))) = k - HeadLength(m)
        /\ Len(SubSeq(m.body, 1, end - HeadLength(m))) = end - HeadLength(m)
        /\ SubSeq(m.body, 1, end - HeadLength(m))
           = SubSeq(m.body, 1, k - HeadLength(m)) \o SubSeq(Encode(m), k + 1, end)
    BY <2>1, BodyPiece
  <2> QED BY <1>2, <2>2
<1>4. ExpectedBody(m) = s
  BY <1>1, <1>2 DEF ExpectedBody
<1>5. c \in Seq(Tokens) /\ Len(c) = end - k
  <2>1. E \in Seq(Tokens)
    BY <1>1, EncodeElements
  <2>2. end \in 0 .. Len(E) /\ k \in 0 .. end
    <3>1. Len(E) \in Nat
      BY <2>1
    <3> QED BY <3>1
  <2> QED BY <2>1, <2>2, Piece
<1> HIDE DEF l, h, c, r
<1>6. CASE 2 * Len(p.body) > MaxBody
  <2>1. r = TooLarge(p)
    BY <1>6 DEF AssembleUnChunkedBody, r
  <2>2. /\ r.state = "DONE" /\ r.keepAlive = p.keepAlive /\ r.body = p.body
        /\ r.error = IF p.error = "none" THEN "413" ELSE p.error
    BY <2>1 DEF TooLarge, SetError, Parsers
  <2>3. IsLong(m)
    <3>1. 2 * l > MaxBody
      BY <1>1, <1>2, <1>3, <1>6
    <3> QED BY <3>1, <1>1, <1>2 DEF IsLong
  <2>4. p.error = "none" => Has(m, "type")
    BY <1>1, <1>2 DEF ExpectedError
  <2>5. r.error \in {ExpectedError(m)} \cup (IF IsLong(m) /\ Has(m, "type") THEN {"413"} ELSE {})
    BY <1>2, <2>2, <2>3, <2>4
  <2>6. r.error # "none"
    BY <1>2, <2>2
  <2> QED BY <1>2, <2>2, <2>5, <2>6 DEF Finished, r
<1>7. CASE ~(2 * Len(p.body) > MaxBody)
  <2> DEFINE b == p.body \o Prefix(c, Remainder(p))
             q == [p EXCEPT !.body = b, !.chunk = <<>>]
  <2>1. Prefix(c, Remainder(p)) = c
    <3>1. Remainder(p) \in Int /\ Remainder(p) >= Len(c)
      <4>1. Remainder(p) = l - (k - h)
        BY <1>2, <1>3 DEF Remainder
      <4>2. l - (k - h) \in Int /\ l - (k - h) >= end - k
        BY <1>1, <1>3
      <4> QED BY <4>1, <4>2, <1>5
    <3> QED BY <3>1, <1>5, PrefixType
  <2>2. b = SubSeq(s, 1, end - h)
    BY <2>1, <1>3
  <2>3. r = IF Len(q.body) < q.length THEN [q EXCEPT !.waiting = TRUE] ELSE [q EXCEPT !.state = "DONE"]
    BY <1>7 DEF AssembleUnChunkedBody, r, c
  <2> HIDE DEF b
  <2>4. /\ q.body = b /\ q.length = l /\ q.chunk = <<>> /\ q.error = p.error
        /\ q.keepAlive = p.keepAlive /\ q.state = "BODY" /\ ~q.isChunked
    BY <1>2 DEF Parsers
  <2>5. \A x : /\ [q EXCEPT !.waiting = TRUE].waiting
               /\ [q EXCEPT !.state = "DONE"].state = "DONE"
               /\ \A t \in {[q EXCEPT !.waiting = TRUE], [q EXCEPT !.state = "DONE"]} :
                    /\ t.body = q.body /\ t.length = q.length /\ t.chunk = q.chunk
                    /\ t.error = q.error /\ t.keepAlive = q.keepAlive /\ t.isChunked = q.isChunked
               /\ [q EXCEPT !.waiting = TRUE].state = q.state
    BY DEF Parsers
  <2> HIDE DEF q
  <2>6. CASE end - h < l
    <3>1. r = [q EXCEPT !.waiting = TRUE]
      BY <1>3, <2>2, <2>3, <2>4, <2>6
    <3>2. h <= end
      BY <1>1, <1>3
    <3>3. InBody(m, r, end)
      BY <1>1, <1>2, <2>2, <2>4, <2>5, <2>6, <3>1, <3>2 DEF InBody, l, h
    <3> QED BY <2>4, <2>5, <3>1, <3>3 DEF r
  <2>7. CASE ~(end - h < l)
    <3>1. r = [q EXCEPT !.state = "DONE"]
      BY <1>3, <2>2, <2>3, <2>4, <2>7
    <3>2. b = s
      <4>1. end - h = l
        BY <1>1, <1>3, <2>7
      <4> QED BY <4>1, <1>1, <2>2, SubSeqFull DEF l
    <3>3. Finished(m, r)
      BY <1>2, <1>4, <2>4, <2>5, <3>1, <3>2 DEF Finished
    <3> QED BY <3>3 DEF r
  <2> QED BY <2>6, <2>7
<1> QED
  BY <1>6, <1>7

-----------------------------------------------------------------------------
(* One turn of the loop                                                    *)

LEMMA FieldsSame ==
  ASSUME NEW m, NEW p, NEW q, NEW i, Fields(m, p, i),
         q.state = p.state, q.method = p.method, q.error = p.error, q.length = p.length,
         q.typed = p.typed, q.keepAlive = p.keepAlive, q.chunkedHeader = p.chunkedHeader,
         q.isChunked = p.isChunked, q.body = p.body
  PROVE  Fields(m, q, i)
BY DEF Fields

\* The line is taken, or the piece ends in it and is kept.
LEMMA HeadTurn ==
  ASSUME NEW m, Plain(m), NEW p \in Parsers, NEW end \in Nat, end <= Len(Encode(m)),
         MayEnd(m, end), NEW k \in Nat, k <= end, ~p.waiting,
         p.chunk = SubSeq(Encode(m), k + 1, end),
         NEW i \in 0 .. Len(m.headers), Fields(m, p, i),
         \/ k = 3 * i /\ p.unparsed = <<>>
         \/ k = 3 * i + 1 /\ p.unparsed = <<LineOf(m, i)>>
  PROVE  LET q == IF i = 0 THEN ParseRequestLine(p) ELSE ParseHeaderLine(p)
         IN \/ InHead(m, q, end) /\ q.chunk = <<>> /\ q.waiting
            \/ /\ 3 * (i + 1) <= end /\ InHead(m, q, 3 * (i + 1))
               /\ q.chunk = SubSeq(Encode(m), 3 * (i + 1) + 1, end) /\ ~q.waiting
<1> DEFINE q == IF i = 0 THEN ParseRequestLine(p) ELSE ParseHeaderLine(p)
           E == Encode(m)
           N == Len(m.headers)
           w == LineOf(m, i)
<1>1. m \in MessageType /\ N \in Nat /\ i \in Nat
  <2>1. m \in MessageType
    BY DEF Plain
  <2> QED BY <2>1, LineTypes
<1>2. LineKept(m, p, i, end) \/ LineTaken(m, p, i, end)
  BY <1>1, TakesHeadLine DEF InLine
<1> HIDE DEF E, w
<1>3. CASE LineKept(m, p, i, end)
  <2>1. q = KeepForLater(p)
    BY <1>3 DEF LineKept, ParseRequestLine, ParseHeaderLine
  <2> HIDE DEF q
  <2>2. /\ q.state = p.state /\ q.method = p.method /\ q.error = p.error /\ q.length = p.length
        /\ q.typed = p.typed /\ q.keepAlive = p.keepAlive /\ q.chunkedHeader = p.chunkedHeader
        /\ q.isChunked = p.isChunked /\ q.body = p.body
        /\ q.unparsed = p.unparsed \o p.chunk /\ q.chunk = <<>> /\ q.waiting
    BY <2>1 DEF KeepForLater, Parsers
  <2>3. Fields(m, q, i)
    BY <2>2, FieldsSame
  <2>4. \/ end = 3 * i /\ q.unparsed = <<>>
        \/ i <= N /\ end = 3 * i + 1 /\ q.unparsed = <<LineOf(m, i)>>
    <3>1. i <= N
      BY <1>1
    <3> QED BY <1>3, <2>2, <3>1 DEF LineKept
  <2>5. i \in 0 .. N + 1
    BY <1>1
  <2> HIDE DEF N
  <2>6. InHead(m, q, end)
    BY <2>3, <2>4, <2>5 DEF InHead, N
  <2> QED BY <2>2, <2>6 DEF q
<1>4. CASE LineTaken(m, p, i, end)
  <2> DEFINE a == AfterLine(p)
  <2>1. a \in Parsers
    BY <1>4, AfterLineType DEF LineTaken
  <2>2. end >= 3 * i + 3 /\ Line(p) = <<w>> /\ a = [p EXCEPT !.unparsed = <<>>, !.chunk = SubSeq(E, 3 * i + 4, end)]
    BY <1>4 DEF LineTaken, w, E
  <2>3. q = IF i = 0 THEN [SetRequestLine(a, <<w>>) EXCEPT !.state = "HEADERS"]
            ELSE AddAsHeaderVar(a, <<w>>)
    <3>1. <<w>> # <<>> /\ LineEnd(p.chunk) # 0
      BY <1>4 DEF LineTaken
    <3> HIDE DEF a
    <3>2. ParseRequestLine(p) = [SetRequestLine(a, <<w>>) EXCEPT !.state = "HEADERS"]
      BY <2>2, <3>1, Zenon DEF ParseRequestLine, a
    <3>3. ParseHeaderLine(p) = AddAsHeaderVar(a, <<w>>)
      BY <2>2, <3>1, Zenon DEF ParseHeaderLine, a
    <3> QED BY <3>2, <3>3
  <2> HIDE DEF a, q
  <2>4. /\ a.state = p.state /\ a.method = p.method /\ a.error = p.error /\ a.length = p.length
        /\ a.typed = p.typed /\ a.keepAlive = p.keepAlive /\ a.chunkedHeader = p.chunkedHeader
        /\ a.isChunked = p.isChunked /\ a.body = p.body
        /\ a.unparsed = <<>> /\ a.chunk = SubSeq(E, 3 * i + 4, end) /\ a.waiting = p.waiting
    BY <2>2 DEF Parsers
  <2>5. Fields(m, a, i)
    BY <2>4, FieldsSame
  <2>6. Fields(m, q, i + 1) /\ SamePlace(a, q)
    <3>1. CASE i = 0
      <4>1. q = [SetRequestLine(a, <<m.line>>) EXCEPT !.state = "HEADERS"] /\ i + 1 = 1
        BY <2>3, <3>1 DEF w, LineOf
      <4>2. Fields(m, a, 0)
        BY <2>5, <3>1
      <4> QED BY <1>1, <2>1, <4>1, <4>2, RequestLineParsed
    <3>2. CASE i # 0
      <4>1. i \in 1 .. Len(m.headers)
        BY <1>1, <3>2
      <4>2. q = AddAsHeaderVar(a, <<LineOf(m, i)>>)
        BY <2>3, <3>2 DEF w
      <4> QED BY <2>1, <2>5, <4>1, <4>2, HeaderParsed
    <3> QED BY <3>1, <3>2
  <2>7. i + 1 \in 0 .. Len(m.headers) + 1 /\ 3 * i + 4 = 3 * (i + 1) + 1 /\ 3 * (i + 1) <= end
    <3> HIDE DEF N
    <3>1. i \in Nat /\ N \in Nat /\ i <= N
      BY <1>1 DEF N
    <3>2. i + 1 \in 0 .. N + 1
      BY <3>1
    <3>3. 3 * i + 4 = 3 * (i + 1) + 1 /\ 3 * (i + 1) <= end
      BY <1>1, <2>2
    <3> QED BY <3>2, <3>3 DEF N
  <2>8. q.unparsed = <<>> /\ q.chunk = SubSeq(E, 3 * (i + 1) + 1, end) /\ ~q.waiting
    BY <2>4, <2>6, <2>7 DEF SamePlace
  <2>9. InHead(m, q, 3 * (i + 1))
    BY <2>6, <2>7, <2>8 DEF InHead
  <2> QED BY <2>7, <2>8, <2>9 DEF q, E
<1> QED
  BY <1>2, <1>3, <1>4

LEMMA EmptyLineTurn ==
  ASSUME NEW m, Plain(m), NEW p \in Parsers, NEW end \in Nat, end <= Len(Encode(m)),
         MayEnd(m, end), HeadLength(m) - 2 <= end, ~p.waiting, p.unparsed = <<>>,
         p.chunk = SubSeq(Encode(m), (HeadLength(m) - 2) + 1, end),
         Fields(m, p, Len(m.headers) + 1)
  PROVE  LET q == ParseHeaderLine(p)
         IN \/ InHead(m, q, end) /\ q.chunk = <<>> /\ q.waiting
            \/ Finished(m, q)
            \/ /\ HeadLength(m) <= end /\ InBody(m, q, HeadLength(m))
               /\ q.chunk = SubSeq(Encode(m), HeadLength(m) + 1, end) /\ ~q.waiting
<1> DEFINE q == ParseHeaderLine(p)
           E == Encode(m)
           h == HeadLength(m)
           N == Len(m.headers)
<1>1. m \in MessageType /\ N \in Nat /\ h \in Nat /\ h - 2 = 3 * (N + 1)
  <2>1. m \in MessageType
    BY DEF Plain
  <2> QED BY <2>1, LineTypes, HeadPlaces
<1>2. \/ /\ LineEnd(p.chunk) = 0
         /\ end = h - 2 /\ p.unparsed \o p.chunk = <<>>
      \/ /\ LineEnd(p.chunk) # 0 /\ end >= h /\ Line(p) = <<>>
         /\ AfterLine(p) = [p EXCEPT !.unparsed = <<>>, !.chunk = SubSeq(E, h + 1, end)]
  BY <1>1, TakesEmptyLine
<1> HIDE DEF E, h
<1>3. CASE LineEnd(p.chunk) = 0
  <2>1. q = KeepForLater(p)
    BY <1>3 DEF ParseHeaderLine
  <2> HIDE DEF q
  <2>2. /\ q.state = p.state /\ q.method = p.method /\ q.error = p.error /\ q.length = p.length
        /\ q.typed = p.typed /\ q.keepAlive = p.keepAlive /\ q.chunkedHeader = p.chunkedHeader
        /\ q.isChunked = p.isChunked /\ q.body = p.body
        /\ q.unparsed = p.unparsed \o p.chunk /\ q.chunk = <<>> /\ q.waiting
    BY <2>1 DEF KeepForLater, Parsers
  <2>3. Fields(m, q, N + 1)
    BY <2>2, FieldsSame
  <2>4. end = 3 * (N + 1) /\ q.unparsed = <<>>
    BY <1>1, <1>2, <1>3, <2>2
  <2>5. N + 1 \in 0 .. N + 1
    BY <1>1
  <2> HIDE DEF N
  <2>6. InHead(m, q, end)
    BY <2>3, <2>4, <2>5 DEF InHead, N
  <2> QED BY <2>2, <2>6 DEF q
<1>4. CASE LineEnd(p.chunk) # 0
  <2> DEFINE a == AfterLine(p)
  <2>1. a \in Parsers
    BY <1>4, AfterLineType
  <2>2. end >= h /\ Line(p) = <<>> /\ a = [p EXCEPT !.unparsed = <<>>, !.chunk = SubSeq(E, h + 1, end)]
    BY <1>2, <1>4
  <2>3. q = SetIfAssemblingBody(a)
    BY <1>4, <2>2 DEF ParseHeaderLine
  <2> HIDE DEF a, q
  <2>4. /\ a.state = p.state /\ a.method = p.method /\ a.error = p.error /\ a.length = p.length
        /\ a.typed = p.typed /\ a.keepAlive = p.keepAlive /\ a.chunkedHeader = p.chunkedHeader
        /\ a.isChunked = p.isChunked /\ a.body = p.body
        /\ a.unparsed = <<>> /\ a.chunk = SubSeq(E, h + 1, end) /\ a.waiting = p.waiting
    BY <2>2 DEF Parsers
  <2>5. Fields(m, a, N + 1)
    BY <2>4, FieldsSame
  <2>6. (InBody(m, q, h) \/ Finished(m, q)) /\ SamePlace(a, q)
    BY <2>1, <2>3, <2>5, HeadParsed DEF h
  <2>7. h <= end
    BY <1>1, <2>2
  <2> QED BY <2>4, <2>6, <2>7 DEF SamePlace, q, E, h
<1> QED
  BY <1>3, <1>4

Active(p) == ~p.waiting /\ p.state # "DONE"

\* Between two turns, in a piece that ends at end.
Turn(m, p, end) ==
  \/ Finished(m, p)
  \/ \E k \in 0 .. end :
       /\ p.chunk = SubSeq(Encode(m), k + 1, end)
       /\ InHead(m, p, k) \/ InBody(m, p, k)
       /\ p.waiting => k = end

\* A turn that is not the last one shortens what is left of the piece.
LEMMA TurnStep ==
  ASSUME NEW m, Plain(m), NEW p \in Parsers, NEW end \in Nat, end <= Len(Encode(m)),
         MayEnd(m, end), Turn(m, p, end)
  PROVE  LET q == ParseOnce(p)
         IN Turn(m, q, end) /\ (Active(q) => Active(p) /\ Len(q.chunk) < Len(p.chunk))
<1> DEFINE q == ParseOnce(p)
           E == Encode(m)
           N == Len(m.headers)
<1>1. CASE ~Active(p)
  <2>1. q = p
    BY <1>1 DEF ParseOnce, Active
  <2> QED BY <1>1, <2>1
<1>2. CASE Active(p)
  <2>1. PICK k \in 0 .. end : /\ p.chunk = SubSeq(E, k + 1, end)
                              /\ InHead(m, p, k) \/ InBody(m, p, k)
    BY <1>2 DEF Turn, Finished, Active
  <2>2. /\ m \in MessageType /\ E \in Seq(Tokens) /\ N \in Nat /\ Len(E) \in Nat
        /\ HeadLength(m) \in Nat /\ HeadLength(m) - 2 = 3 * (N + 1)
    <3>1. m \in MessageType
      BY DEF Plain
    <3> QED BY <3>1, LineTypes, EncodeElements, HeadPlaces
  <2>3. k \in Nat /\ k <= end /\ end \in 0 .. Len(E) /\ ~p.waiting
    BY <1>2, <2>2 DEF Active
  \* What a turn leads to: waiting, at the end, or further on in the piece.
  <2>4. ASSUME NEW j \in Nat, k < j, j <= end, q.chunk = SubSeq(E, j + 1, end),
               InHead(m, q, j) \/ InBody(m, q, j), ~q.waiting
        PROVE  Turn(m, q, end) /\ Len(q.chunk) < Len(p.chunk)
    <3> HIDE DEF q
    <3>1. j \in 0 .. end
      BY <2>4
    <3>2. Turn(m, q, end)
      BY <2>4, <3>1 DEF Turn
    <3> HIDE DEF E
    <3>3. Len(q.chunk) = end - j /\ Len(p.chunk) = end - k
      BY <2>1, <2>2, <2>3, <2>4, <3>1, Piece
    <3>4. end - j < end - k
      BY <2>3, <2>4
    <3> QED BY <3>2, <3>3, <3>4
  <2>5. ASSUME InHead(m, q, end) \/ InBody(m, q, end), q.chunk = <<>>, q.waiting
        PROVE  Turn(m, q, end) /\ ~Active(q)
    <3> HIDE DEF q
    <3>1. SubSeq(E, end + 1, end) = <<>> /\ end \in 0 .. end
      BY <2>2, <2>3
    <3> QED BY <2>5, <3>1 DEF Turn, Active
  <2>6. ASSUME Finished(m, q) PROVE Turn(m, q, end) /\ ~Active(q)
    BY <2>6 DEF Turn, Active, Finished
  <2>7. CASE InBody(m, p, k)
    <3>1. q = AssembleUnChunkedBody(p)
      BY <1>2, <2>7 DEF ParseOnce, Active, InBody, AssembleBody
    <3>2. \/ Finished(m, q)
          \/ InBody(m, q, end) /\ q.waiting /\ q.chunk = <<>>
      BY <2>1, <2>3, <2>7, <3>1, BodyTurn
    <3> HIDE DEF q
    <3> QED BY <2>5, <2>6, <3>2 DEF q
  <2>8. CASE InHead(m, p, k)
    <3>1. PICK i \in 0 .. N + 1 :
            /\ Fields(m, p, i)
            /\ \/ k = 3 * i /\ p.unparsed = <<>>
               \/ i <= N /\ k = 3 * i + 1 /\ p.unparsed = <<LineOf(m, i)>>
      BY <2>8 DEF InHead
    <3>2. p.state = IF i = 0 THEN "REQUEST_LINE" ELSE "HEADERS"
      BY <3>1 DEF Fields, Parsers, Running
    <3>3. q = IF i = 0 THEN ParseRequestLine(p) ELSE ParseHeaderLine(p)
      BY <1>2, <3>2 DEF ParseOnce, Active
    <3> HIDE DEF q
    <3>4. CASE i \in 0 .. N
      <4>1. \/ InHead(m, q, end) /\ q.chunk = <<>> /\ q.waiting
            \/ /\ 3 * (i + 1) <= end /\ InHead(m, q, 3 * (i + 1))
               /\ q.chunk = SubSeq(E, 3 * (i + 1) + 1, end) /\ ~q.waiting
        BY ZenonT(60), <2>1, <2>3, <3>1, <3>3, <3>4, HeadTurn
      <4>2. 3 * (i + 1) \in Nat /\ k < 3 * (i + 1)
        BY <3>1, <3>4
      <4>3. Turn(m, q, end) /\ (Active(q) => Len(q.chunk) < Len(p.chunk))
        BY <2>4, <2>5, <4>1, <4>2
      <4> QED BY <1>2, <4>3 DEF q
    <3>5. CASE i = N + 1
      <4>1. k = HeadLength(m) - 2 /\ p.unparsed = <<>> /\ i # 0 /\ Fields(m, p, N + 1)
        BY <2>2, <3>1, <3>5
      <4>2. q = ParseHeaderLine(p)
        BY <3>3, <4>1
      <4>3. \/ InHead(m, q, end) /\ q.chunk = <<>> /\ q.waiting
            \/ Finished(m, q)
            \/ /\ HeadLength(m) <= end /\ InBody(m, q, HeadLength(m))
               /\ q.chunk = SubSeq(E, HeadLength(m) + 1, end) /\ ~q.waiting
        BY <2>1, <2>3, <4>1, <4>2, EmptyLineTurn
      <4>4. k < HeadLength(m)
        BY <2>2, <4>1
      <4>5. Turn(m, q, end) /\ (Active(q) => Len(q.chunk) < Len(p.chunk))
        BY <2>2, <2>4, <2>5, <2>6, <4>3, <4>4
      <4> QED BY <1>2, <4>5 DEF q
    <3> QED BY <2>2, <3>4, <3>5
  <2> QED BY <2>1, <2>7, <2>8
<1> QED
  BY <1>1, <1>2

-----------------------------------------------------------------------------
(* A piece                                                                 *)

\* What is known of a Request is known of one at another place.
LEMMA ParsedSame ==
  ASSUME NEW m, NEW p, NEW q,
         q.method = p.method, q.error = p.error, q.length = p.length,
         q.typed = p.typed, q.keepAlive = p.keepAlive, q.chunkedHeader = p.chunkedHeader,
         q.isChunked = p.isChunked, q.body = p.body, q.unparsed = p.unparsed,
         q.state = p.state \/ (p.state = "EMPTY" /\ q.state = "REQUEST_LINE")
  PROVE  /\ \A k : InHead(m, p, k) => InHead(m, q, k)
         /\ \A k : InBody(m, p, k) => InBody(m, q, k)
         /\ Finished(m, p) => Finished(m, q)
<1>1. \A i : Fields(m, p, i) => Fields(m, q, i)
  BY DEF Fields
<1> QED
  BY <1>1 DEF InHead, InBody, Finished

LEMMA NotDone ==
  ASSUME NEW m, NEW p, NEW k, InHead(m, p, k) \/ InBody(m, p, k)
  PROVE  p.state # "DONE"
BY DEF InHead, InBody, Fields

LEMMA ParsesPiece ==
  ASSUME NEW m, Plain(m), NEW p \in RequestType, NEW end \in Nat, end <= Len(Encode(m)),
         MayEnd(m, end), NEW k \in Nat, k <= end, HasParsed(m, p, k)
  PROVE  HasParsed(m, AddRequestChunk(p, SubSeq(Encode(m), k + 1, end)), end)
<1> DEFINE piece == SubSeq(Encode(m), k + 1, end)
           first == First(p, piece)
           X == {x \in Nat \X Parsers :
                   Turn(m, x[2], end) /\ (Active(x[2]) => Len(x[2].chunk) + x[1] <= end - k)}
<1>1. m \in MessageType /\ Encode(m) \in Seq(Tokens) /\ end \in 0 .. Len(Encode(m)) /\ k \in 0 .. end
  <2>1. m \in MessageType
    BY DEF Plain
  <2>2. Encode(m) \in Seq(Tokens)
    BY <2>1, EncodeElements
  <2>3. Len(Encode(m)) \in Nat
    BY <2>2
  <2> QED BY <2>1, <2>2, <2>3
<1>2. piece \in Seq(Tokens) /\ Len(piece) = end - k
  BY <1>1, Piece
<1>3. /\ first \in Parsers /\ first.chunk = piece /\ ~first.waiting
      /\ \/ first.state = p.state
         \/ p.state = "EMPTY" /\ first.state = "REQUEST_LINE"
  <2> HIDE DEF piece
  <2>1. /\ first \in Parsers /\ first.chunk = piece /\ ~first.waiting
        /\ first.state = IF p.state = "EMPTY" THEN "REQUEST_LINE" ELSE p.state
    BY <1>2, FirstType
  <2> HIDE DEF first
  <2> QED BY <2>1
<1>4. /\ first.method = p.method /\ first.error = p.error /\ first.length = p.length
      /\ first.typed = p.typed /\ first.keepAlive = p.keepAlive
      /\ first.chunkedHeader = p.chunkedHeader /\ first.isChunked = p.isChunked
      /\ first.body = p.body /\ first.unparsed = p.unparsed
  <2> HIDE DEF piece
  <2> QED BY DEF First, RequestType
<1>5. Turn(m, first, end)
  <2>1. HasParsed(m, first, k)
    <3> HIDE DEF first
    <3> QED BY <1>3, <1>4, ParsedSame DEF HasParsed
  <2>2. k \in 0 .. end /\ first.chunk = SubSeq(Encode(m), k + 1, end) /\ ~first.waiting
    BY <1>1, <1>3
  <2> HIDE DEF first
  <2> QED BY <2>1, <2>2 DEF HasParsed, Turn
<1> HIDE DEF piece, first
<1>6. <<0, first>> \in X
  <2>1. Len(first.chunk) + 0 <= end - k
    BY <1>2, <1>3
  <2> QED BY <2>1, <1>3, <1>5
<1>7. ASSUME NEW n \in Nat, NEW s \in Parsers, <<n, s>> \in X
      PROVE  <<n + 1, ParseOnce(s)>> \in X
  <2>1. Turn(m, s, end) /\ (Active(s) => Len(s.chunk) + n <= end - k)
    BY <1>7
  <2> DEFINE q == ParseOnce(s)
  <2>2. Turn(m, q, end) /\ (Active(q) => Active(s) /\ Len(q.chunk) < Len(s.chunk))
    BY <2>1, TurnStep
  <2>3. q \in Parsers
    BY ParseOnceType
  <2> HIDE DEF q
  <2>4. Len(q.chunk) \in Nat /\ Len(s.chunk) \in Nat
    BY <2>3 DEF Parsers
  <2>5. ASSUME Active(q) PROVE Len(q.chunk) + (n + 1) <= end - k
    <3>1. Len(q.chunk) < Len(s.chunk) /\ Len(s.chunk) + n <= end - k
      BY <2>1, <2>2, <2>5
    <3> QED BY <3>1, <2>4, Places
  <2>6. <<n + 1, q>> \in Nat \X Parsers /\ <<n + 1, q>>[1] = n + 1 /\ <<n + 1, q>>[2] = q
    BY <2>3
  <2>7. <<n + 1, q>> \in X
    BY <2>2, <2>5, <2>6
  <2> QED BY <2>7 DEF q
<1> HIDE DEF X
<1>8. PICK s \in Parsers :
        /\ <<Len(piece) + 2, s>> \in X
        /\ AddRequestChunk(p, piece) = [s EXCEPT !.chunk = <<>>, !.waiting = FALSE]
  BY <1>2, <1>6, <1>7, AddRequestChunkTurns DEF first
<1> DEFINE r == AddRequestChunk(p, piece)
<1>9. Turn(m, s, end) /\ (Active(s) => Len(s.chunk) + (end - k + 2) <= end - k)
  BY <1>2, <1>8 DEF X
<1>10. ~Active(s)
  <2> SUFFICES ASSUME Active(s) PROVE FALSE
    OBVIOUS
  <2>1. Len(s.chunk) \in Nat
    BY DEF Parsers
  <2>2. Len(s.chunk) + (end - k + 2) <= end - k
    BY <1>9
  <2> QED BY <2>1, <2>2, Places
<1>11. HasParsed(m, s, end)
  <2>1. CASE Finished(m, s)
    BY <2>1 DEF HasParsed
  <2>2. CASE ~Finished(m, s)
    <3>1. PICK j \in 0 .. end : /\ InHead(m, s, j) \/ InBody(m, s, j)
                                /\ s.waiting => j = end
      BY <2>2, <1>9 DEF Turn
    <3>2. s.waiting
      BY <3>1, <1>10, NotDone DEF Active
    <3> QED BY <3>1, <3>2 DEF HasParsed
  <2> QED BY <2>1, <2>2
<1>12. /\ r.method = s.method /\ r.error = s.error /\ r.length = s.length
       /\ r.typed = s.typed /\ r.keepAlive = s.keepAlive
       /\ r.chunkedHeader = s.chunkedHeader /\ r.isChunked = s.isChunked
       /\ r.body = s.body /\ r.unparsed = s.unparsed /\ r.state = s.state
  BY <1>8 DEF Parsers
<1> HIDE DEF r
<1>13. HasParsed(m, r, end)
  BY <1>11, <1>12, ParsedSame DEF HasParsed
<1> QED
  BY <1>13 DEF r, piece

-----------------------------------------------------------------------------
(* Type correctness                                                        *)

LEMMA AddRequestChunkType ==
  ASSUME NEW p \in RequestType, NEW piece \in Seq(Tokens)
  PROVE  AddRequestChunk(p, piece) \in RequestType
<1> DEFINE X == Nat \X Parsers
<1>1. <<0, First(p, piece)>> \in X
  BY FirstType
<1>2. ASSUME NEW n \in Nat, NEW q \in Parsers PROVE <<n + 1, ParseOnce(q)>> \in X
  BY ParseOnceType
<1> HIDE DEF X
<1>3. PICK q \in Parsers : AddRequestChunk(p, piece) = [q EXCEPT !.chunk = <<>>, !.waiting = FALSE]
  BY ZenonT(60), <1>1, <1>2, AddRequestChunkTurns
<1> QED
  BY <1>3 DEF Parsers, RequestType, Running

TypeInv ==
  /\ message \in Messages
  /\ stream \in Seq(Tokens)
  /\ parser \in RequestType
  /\ clean \in BOOLEAN

LEMMA FreshType == Fresh \in RequestType
<1>1. <<>> \in Seq(Tokens) /\ 0 \in 0 .. MaxBody
  BY MaxBodyAssumption
<1> QED
  BY <1>1 DEF Fresh, RequestType, States, Methods, Errors

LEMMA MessagesType ==
  ASSUME NEW m \in Messages
  PROVE  m \in MessageType /\ Encode(m) \in Seq(Tokens) /\ (InScope(m) => Plain(m))
<1>1. m \in MessageType /\ (InScope(m) => Plain(m))
  BY MessagesAssumption DEF InScope, Plain
<1> QED
  BY <1>1, EncodeElements

LEMMA InitTypeInv == Init => TypeInv
BY MessagesType, FreshType DEF Init, TypeInv

LEMMA NextTypeInv ==
  ASSUME TypeInv, [Next]_vars
  PROVE  TypeInv'
<1>1. CASE Receive
  <2>1. PICK n \in 1 .. Len(stream) :
          /\ parser' = AddRequestChunk(parser, SubSeq(stream, 1, n))
          /\ stream' = SubSeq(stream, n + 1, Len(stream))
    BY <1>1 DEF Receive
  <2>2. stream \in Seq(Tokens) /\ Len(stream) \in Nat
    BY DEF TypeInv
  <2>3. SubSeq(stream, 1, n) \in Seq(Tokens) /\ SubSeq(stream, n + 1, Len(stream)) \in Seq(Tokens)
    <3>1. \A i \in 1 .. Len(stream) : stream[i] \in Tokens
      BY <2>2, ElementOfSeq
    <3>2. (\A i \in 1 .. n : stream[i] \in Tokens) /\ \A i \in n + 1 .. Len(stream) : stream[i] \in Tokens
      BY <2>2, <3>1
    <3> QED BY <2>2, <3>2, SubSeqProperties
  <2>4. parser' \in RequestType
    BY <2>1, <2>3, AddRequestChunkType DEF TypeInv
  <2> QED BY <1>1, <2>1, <2>3, <2>4 DEF Receive, TypeInv
<1>2. CASE KeepAlive
  <2>1. PICK m \in Messages : message' = m /\ stream' = stream \o Encode(m)
    BY <1>2 DEF KeepAlive
  <2>2. stream' \in Seq(Tokens)
    BY <2>1, MessagesType, ConcatProperties DEF TypeInv
  <2> QED BY <1>2, <2>1, <2>2, FreshType DEF KeepAlive, Reset, TypeInv
<1>3. CASE Reconnect
  BY <1>3, MessagesType, FreshType DEF Reconnect, TypeInv
<1>4. CASE UNCHANGED vars
  BY <1>4 DEF vars, TypeInv
<1> QED
  BY <1>1, <1>2, <1>3, <1>4 DEF Next

\* Every field keeps its type, Content-Length never exceeds the limit, and no
\* piece is left behind by addRequestChunk(): for chunked bodies too.
THEOREM TypeCorrect == Spec => []TypeOK
<1>1. TypeInv /\ [Next]_vars => TypeInv'
  BY NextTypeInv
<1>2. TypeInv => TypeOK
  BY DEF TypeInv, TypeOK, RequestType
<1> QED
  BY <1>1, <1>2, InitTypeInv, PTL DEF Spec

-----------------------------------------------------------------------------
(* Requests are parsed as they were sent                                   *)

IInv ==
  /\ TypeInv
  /\ clean /\ InScope(message) => InStep(message, parser, stream)

LEMMA StartsInStep ==
  ASSUME NEW m \in Messages, InScope(m)
  PROVE  InStep(m, Fresh, Encode(m))
<1>1. m \in MessageType /\ Encode(m) \in Seq(Tokens) /\ Len(Encode(m)) \in Nat
  BY MessagesType
<1>2. Encode(m) = SubSeq(Encode(m), 0 + 1, Len(Encode(m)))
  BY <1>1, SubSeqFull
<1>3. Fields(m, Fresh, 0)
  <2>1. SeenLength(m, 0) = FALSE /\ ("type" \in Seen(m, 0)) = FALSE /\ ("keep" \in Seen(m, 0)) = FALSE
    BY <1>1, SeenIs DEF SeenLength
  <2>2. /\ Fresh.state = "EMPTY" /\ Fresh.method = "UNSUPPORTED" /\ Fresh.error = "none"
        /\ Fresh.length = 0 /\ Fresh.typed = FALSE /\ Fresh.keepAlive = FALSE
        /\ ~Fresh.chunkedHeader /\ ~Fresh.isChunked /\ Fresh.body = <<>>
    BY DEF Fresh
  <2>3. Fresh.typed = ("type" \in Seen(m, 0)) /\ Fresh.keepAlive = ("keep" \in Seen(m, 0))
    BY <2>1, <2>2, Zenon
  <2>4. Fresh.error = CASE 0 > 0 /\ m.line = "PUT" -> "405"
                        [] 0 > 0 /\ m.line = "OLD" -> "505"
                        [] m.line \in {"GET", "POST"} /\ SeenLength(m, 0) /\ LengthOf(m) > MaxBody -> "413"
                        [] OTHER -> "none"
    BY <2>1, <2>2
  <2>5. Fresh.length = CASE ~SeenLength(m, 0) -> 0
                         [] SeenLength(m, 0) /\ LengthOf(m) <= MaxBody -> LengthOf(m)
                         [] SeenLength(m, 0) /\ LengthOf(m) > MaxBody -> MaxBody
    BY <2>1, <2>2
  <2>6. Fresh.method = CASE 0 = 0 \/ m.line = "PUT" -> "UNSUPPORTED"
                         [] 0 > 0 /\ m.line = "POST" -> "POST"
                         [] 0 > 0 /\ m.line \in {"GET", "OLD"} -> "GET"
    BY <2>2
  <2> HIDE DEF Fresh
  <2> QED BY <2>2, <2>3, <2>4, <2>5, <2>6 DEF Fields
<1>4. InHead(m, Fresh, 0)
  <2>1. Fresh.unparsed = <<>> /\ 0 = 3 * 0 /\ 0 \in 0 .. Len(m.headers) + 1
    BY <1>1, LineTypes DEF Fresh
  <2> QED BY <1>3, <2>1 DEF InHead
<1> QED
  BY <1>1, <1>2, <1>4 DEF InStep, HasParsed

LEMMA NextIInv ==
  ASSUME CutCrLf = FALSE, IInv, TypeInv', [Next]_vars
  PROVE  IInv'
<1> DEFINE E == Encode(message)
<1>1. CASE Receive
  <2>1. message' = message /\ clean' = clean
    BY <1>1 DEF Receive
  <2>2. ASSUME clean, InScope(message) PROVE InStep(message, parser', stream')
    <3>1. PICK n \in 1 .. Len(stream) :
            /\ n = Len(stream) \/ ~(stream[n] = "CR" /\ stream[n + 1] = "LF")
            /\ parser' = AddRequestChunk(parser, SubSeq(stream, 1, n))
            /\ stream' = SubSeq(stream, n + 1, Len(stream))
      BY <1>1 DEF Receive
    <3>2. PICK k \in 0 .. Len(E) : stream = SubSeq(E, k + 1, Len(E)) /\ HasParsed(message, parser, k)
      BY <2>2 DEF IInv, InStep
    <3>3. /\ Plain(message) /\ E \in Seq(Tokens) /\ Len(E) \in Nat /\ k \in Nat
          /\ parser \in RequestType
      BY <2>2, MessagesType DEF IInv, TypeInv
    <3> DEFINE end == k + n
    <3> HIDE DEF E
    <3>4. /\ Len(stream) = Len(E) - k /\ \A i \in 1 .. Len(E) - k : stream[i] = E[k + i]
          /\ SubSeq(stream, n + 1, Len(stream)) = SubSeq(E, k + n + 1, Len(E))
      <4>1. Len(E) \in 0 .. Len(E) /\ k \in 0 .. Len(E)
        BY <3>3
      <4>2. Len(stream) = Len(E) - k /\ \A i \in 1 .. Len(E) - k : stream[i] = E[k + i]
        BY <3>2, <3>3, <4>1, Piece
      <4>3. n \in 0 .. Len(E) - k
        BY <4>2
      <4> QED BY <3>2, <3>3, <4>1, <4>2, <4>3, Piece
    <3>5. /\ end \in Nat /\ k <= end /\ end <= Len(E) /\ (n = Len(stream) <=> end = Len(E))
      BY <3>3, <3>4
    <3>6. SubSeq(stream, 1, n) = SubSeq(E, k + 1, end)
      <4>1. /\ k + 1 \in 1 .. Len(E) /\ Len(E) \in 1 .. Len(E)
            /\ 1 \in 1 .. Len(E) - (k + 1) + 1 /\ n \in 1 .. Len(E) - (k + 1) + 1
            /\ (k + 1) + 1 - 1 = k + 1 /\ (k + 1) + n - 1 = end
        BY <3>3, <3>4, <3>5
      <4>2. SubSeq(SubSeq(E, k + 1, Len(E)), 1, n) = SubSeq(E, (k + 1) + 1 - 1, (k + 1) + n - 1)
        BY <3>3, <4>1, SubSeqOfSubSeq
      <4> QED BY <3>2, <4>1, <4>2
    <3>7. MayEnd(message, end)
      <4>1. CASE n = Len(stream)
        BY <4>1, <3>5 DEF MayEnd, E
      <4>2. CASE n # Len(stream)
        <5>1. n \in 1 .. Len(E) - k /\ n + 1 \in 1 .. Len(E) - k /\ k + (n + 1) = end + 1
          <6>1. n \in Nat /\ n >= 1 /\ n <= Len(E) - k /\ n # Len(E) - k
            BY <4>2, <3>3, <3>4
          <6> QED BY <6>1, <3>3
        <5>2. stream[n] = E[end] /\ stream[n + 1] = E[end + 1]
          BY <5>1, <3>4
        <5> QED BY <3>1, <4>2, <5>2 DEF MayEnd, E
      <4> QED BY <4>1, <4>2
    <3>8. HasParsed(message, parser', end)
      BY <3>1, <3>2, <3>3, <3>5, <3>6, <3>7, ParsesPiece DEF E
    <3>9. end \in 0 .. Len(E) /\ stream' = SubSeq(E, end + 1, Len(E))
      BY <3>1, <3>3, <3>4, <3>5
    <3> QED BY <3>8, <3>9 DEF InStep, E
  <2> QED BY <2>1, <2>2 DEF IInv
<1>2. CASE KeepAlive
  <2>1. PICK m \in Messages : message' = m /\ stream' = stream \o Encode(m)
    BY <1>2 DEF KeepAlive
  <2>2. parser' = Fresh /\ clean' = (stream = <<>>)
    BY <1>2 DEF KeepAlive, Reset
  <2>3. ASSUME clean', InScope(m) PROVE InStep(m, parser', stream')
    <3>1. stream = <<>>
      BY <2>2, <2>3
    <3>2. stream' = Encode(m)
      <4>1. Encode(m) \in Seq(Tokens)
        BY MessagesType
      <4>2. <<>> \o Encode(m) = Encode(m)
        BY <4>1
      <4> QED BY <2>1, <3>1, <4>2
    <3> QED BY <2>2, <2>3, <3>2, StartsInStep
  <2> QED BY <2>1, <2>3 DEF IInv
<1>3. CASE Reconnect
  <2>1. PICK m \in Messages : message' = m /\ stream' = Encode(m)
    BY <1>3 DEF Reconnect
  <2>2. parser' = Fresh
    BY <1>3 DEF Reconnect
  <2> QED BY <2>1, <2>2, StartsInStep DEF IInv
<1>4. CASE UNCHANGED vars
  BY <1>4 DEF vars, IInv
<1> QED
  BY <1>1, <1>2, <1>3, <1>4 DEF Next

THEOREM ParsedInStep ==
  ASSUME CutCrLf = FALSE
  PROVE  Spec => []IInv
<1>1. Init => IInv
  BY InitTypeInv, StartsInStep DEF Init, IInv
<1>2. IInv /\ [Next]_vars => IInv'
  <2>1. IInv => TypeInv
    BY DEF IInv
  <2> QED BY <2>1, NextTypeInv, NextIInv
<1> QED
  BY <1>1, <1>2, PTL DEF Spec

\* A parsed request is the one that was sent: whatever pieces it came in, as long
\* as none of them ends between CR and LF, and however many requests the connection
\* carried before it.
THEOREM RequestsParsedAsSent ==
  ASSUME CutCrLf = FALSE
  PROVE  Spec => []ParsedAsSent
<1>1. IInv => ParsedAsSent
  <2> SUFFICES ASSUME IInv, parser.state = "DONE", clean, InScope(message)
               PROVE  Finished(message, parser)
    BY DEF ParsedAsSent, Finished
  <2>1. PICK k : HasParsed(message, parser, k)
    BY DEF IInv, InStep
  <2> QED BY <2>1, NotDone DEF HasParsed
<1> QED
  BY <1>1, ParsedInStep, PTL

\* A request that has come in full is parsed to its end.
THEOREM RequestsParsedInFull ==
  ASSUME CutCrLf = FALSE
  PROVE  Spec => []ParsedInFull
<1>1. IInv => ParsedInFull
  <2> SUFFICES ASSUME IInv, stream = <<>>, clean, InScope(message)
               PROVE  parser.state = "DONE"
    BY DEF ParsedInFull
  <2> DEFINE E == Encode(message)
  <2>1. PICK k \in 0 .. Len(E) : stream = SubSeq(E, k + 1, Len(E)) /\ HasParsed(message, parser, k)
    BY DEF IInv, InStep
  <2>2. message \in MessageType /\ E \in Seq(Tokens) /\ Len(E) \in Nat
    BY MessagesType DEF IInv, TypeInv
  <2>3. k = Len(E)
    <3> HIDE DEF E
    <3>1. Len(E) \in 0 .. Len(E) /\ k \in 0 .. Len(E)
      BY <2>2
    <3>2. \A j \in 0 .. Len(E) : Len(SubSeq(E, j + 1, Len(E))) = Len(E) - j
      BY <2>2, <3>1, Piece
    <3>3. Len(SubSeq(E, k + 1, Len(E))) = 0
      BY <2>1
    <3> QED BY <2>2, <3>1, <3>2, <3>3
  <2>4. ~InHead(message, parser, k)
    <3>1. /\ 3 * (Len(message.headers) + 1) + 2 <= Len(E) /\ Len(message.headers) \in Nat
      BY <2>2, HeadPlaces, LineTypes DEF HeadLength
    <3> HIDE DEF E
    <3> QED BY <2>2, <2>3, <3>1 DEF InHead
  <2>5. ~InBody(message, parser, k)
    <3>1. /\ Len(E) = HeadLength(message) + Len(message.body)
          /\ HeadLength(message) \in Nat /\ Len(message.body) \in Nat
      BY <2>2, EncodeElements, HeadPlaces, LineTypes
    <3> HIDE DEF E
    <3> QED BY <2>3, <3>1 DEF InBody
  <2> QED BY <2>1, <2>4, <2>5 DEF HasParsed, Finished
<1> QED
  BY <1>1, ParsedInStep, PTL
=============================================================================
