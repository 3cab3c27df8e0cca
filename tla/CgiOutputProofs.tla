--------------------------- MODULE CgiOutputProofs ---------------------------
(***************************************************************************)
(* Proofs about CgiOutput, for any outputs and any limit: the types, and   *)
(* that the page of a script that ends its lines with CR LF is served      *)
(* whole, in whatever pieces it is read, when no piece ends where a header *)
(* line ends or between CR and LF.                                         *)
(*                                                                         *)
(* What the loop of addCGIChunk() computes is proved by induction over its *)
(* turns.  The library states induction with an operator as parameter;     *)
(* here it is stated with a set, and follows from the well-foundedness of  *)
(* the order of the natural numbers.                                       *)
(***************************************************************************)
EXTENDS CgiOutput, SequenceTheorems, WellFoundedInduction, TLAPS

-----------------------------------------------------------------------------
(* Induction and iteration                                                 *)

LEMMA Least ==
  ASSUME NEW B, B \subseteq Nat, B # {}
  PROVE  \E x \in B : \A y \in B : x <= y
<1> DEFINE R == {ss \in Nat \X Nat : ss[1] < ss[2]}
<1>1. IsWellFoundedOn(R, Nat)
  BY NatLessThanWellFounded DEF OpToRel
<1>2. PICK x \in B : \A y \in B : ~(<<y, x>> \in R)
  <2> HIDE DEF R
  <2> QED BY <1>1, WFMin
<1>3. ASSUME NEW y \in B PROVE x <= y
  <2>1. x \in Nat /\ y \in Nat /\ ~(y < x)
    BY <1>2
  <2> QED BY <2>1
<1> QED
  BY <1>3

LEMMA Induction ==
  ASSUME NEW T, 0 \in T, \A n \in Nat : n \in T => n + 1 \in T
  PROVE  Nat \subseteq T
<1> SUFFICES ASSUME Nat \ T # {} PROVE FALSE
  OBVIOUS
<1>1. PICK x \in Nat \ T : \A y \in Nat \ T : x <= y
  BY Least
<1>2. x # 0 /\ x - 1 \in Nat /\ (x - 1) + 1 = x
  BY <1>1
<1> QED
  BY <1>1, <1>2

\* The function that repeats a step exists: each of its initial segments does,
\* and any two of them agree.
LEMMA Iteration ==
  ASSUME NEW S, NEW first \in S, NEW step \in [S -> S]
  PROVE  \E f \in [Nat -> S] : f[0] = first /\ \A n \in Nat : f[n + 1] = step[f[n]]
<1> DEFINE Segment(h, n) ==
             /\ h \in [0 .. n -> S] /\ h[0] = first
             /\ \A i \in 0 .. n : i > 0 => h[i] = step[h[i - 1]]
           T == {n \in Nat : \E h : Segment(h, n)}
           At(n) == CHOOSE h : Segment(h, n)
           f == [n \in Nat |-> At(n)[n]]
<1>1. 0 \in T
  <2>1. Segment([i \in 0 .. 0 |-> first], 0)
    OBVIOUS
  <2> QED BY <2>1
<1>2. ASSUME NEW n \in Nat, n \in T PROVE n + 1 \in T
  <2>1. PICK h : Segment(h, n)
    BY <1>2
  <2>2. Segment([i \in 0 .. n + 1 |-> IF i = n + 1 THEN step[h[n]] ELSE h[i]], n + 1)
    BY <2>1
  <2> QED BY SMTT(30), <2>2
<1>3. Nat \subseteq T
  <2> HIDE DEF T
  <2> QED BY <1>1, <1>2, Induction
<1>4. \A n \in Nat : Segment(At(n), n)
  BY <1>3
<1> HIDE DEF At
<1>5. ASSUME NEW n \in Nat PROVE At(n + 1)[n] = At(n)[n]
  <2> DEFINE U == {i \in Nat : i <= n => At(n + 1)[i] = At(n)[i]}
  <2>1. 0 \in U
    BY <1>4
  <2>2. ASSUME NEW i \in Nat, i \in U, i + 1 <= n PROVE At(n + 1)[i + 1] = At(n)[i + 1]
    BY <1>4, <2>2
  <2>3. \A i \in Nat : i \in U => i + 1 \in U
    BY <2>2
  <2>4. Nat \subseteq U
    <3> HIDE DEF U
    <3> QED BY <2>1, <2>3, Induction
  <2> QED BY <2>4
<1>6. f \in [Nat -> S]
  BY <1>4
<1>7. f[0] = first
  BY <1>4
<1>8. ASSUME NEW n \in Nat PROVE f[n + 1] = step[f[n]]
  <2>1. n + 1 \in Nat /\ n + 1 > 0 /\ (n + 1) - 1 = n /\ n + 1 \in 0 .. n + 1
    OBVIOUS
  <2>2. At(n + 1)[n + 1] = step[At(n + 1)[n]]
    BY <2>1, <1>4
  <2> QED BY <2>1, <2>2, <1>5
<1> HIDE DEF f
<1> QED
  BY <1>6, <1>7, <1>8

-----------------------------------------------------------------------------
(* The end of a line                                                       *)

EndsAt(s, i) == i \in 1 .. Len(s) - 1 /\ s[i] = "CR" /\ s[i + 1] = "LF"

LEMMA LineEndIs ==
  ASSUME NEW s, Len(s) \in Nat, NEW e \in Int, EndsAt(s, e),
         \A i \in 1 .. e - 1 : ~EndsAt(s, i)
  PROVE  LineEnd(s) = e
<1> DEFINE ends == {i \in 1 .. Len(s) - 1 : s[i] = "CR" /\ s[i + 1] = "LF"}
<1>1. e \in ends /\ \A i \in ends : e <= i
  BY DEF EndsAt
<1> HIDE DEF ends
<1>2. ends # {} /\ \E i \in ends : \A j \in ends : i <= j
  BY <1>1
<1>3. ends \subseteq Int
  BY DEF ends
<1>4. (CHOOSE i \in ends : \A j \in ends : i <= j) = e
  <2> DEFINE c == CHOOSE i \in ends : \A j \in ends : i <= j
  <2>1. c \in ends /\ \A j \in ends : c <= j
    BY <1>2
  <2> HIDE DEF c
  <2>2. c = e
    BY <2>1, <1>1, <1>3
  <2> QED BY <2>2 DEF c
<1> QED
  BY <1>2, <1>4 DEF LineEnd, ends

LEMMA NoLineEnd ==
  ASSUME NEW s, \A i \in 1 .. Len(s) - 1 : ~EndsAt(s, i)
  PROVE  LineEnd(s) = 0
BY DEF LineEnd, EndsAt

LEMMA LineEndType ==
  ASSUME NEW s, Len(s) \in Nat
  PROVE  LineEnd(s) = 0 \/ EndsAt(s, LineEnd(s))
<1> DEFINE ends == {i \in 1 .. Len(s) - 1 : EndsAt(s, i)}
<1>1. CASE ends = {}
  BY <1>1, NoLineEnd
<1>2. CASE ends # {}
  <2>1. PICK e \in ends : \A i \in ends : e <= i
    <3>1. ends \subseteq Nat
      OBVIOUS
    <3> HIDE DEF ends
    <3> QED BY <3>1, <1>2, Least
  <2>2. LineEnd(s) = e
    BY <2>1, LineEndIs
  <2> QED BY <2>1, <2>2
<1> QED
  BY <1>1, <1>2

-----------------------------------------------------------------------------
(* What scripts write                                                      *)

OutputType == [lines : Nat, newline : {CrLf, <<"LF">>}, page : Seq(Tokens)]

Width(o) == Len(o.newline) + 1
HeaderLines(o) ==
  [i \in 1 .. o.lines * Width(o) |->
     IF (i - 1) % Width(o) = 0 THEN "h" ELSE o.newline[(i - 1) % Width(o)]]

LEMMA NewlineType ==
  ASSUME NEW o \in OutputType
  PROVE  /\ o.newline \in Seq(Tokens) /\ Width(o) \in {2, 3} /\ Len(o.newline) = Width(o) - 1
         /\ o.newline = CrLf => /\ Len(o.newline) = 2
                               /\ o.newline[1] = "CR" /\ o.newline[2] = "LF"
<1>1. CASE o.newline = CrLf
  BY <1>1 DEF CrLf, Tokens, Width
<1>2. CASE o.newline = <<"LF">>
  <2>1. o.newline # CrLf
    <3>1. Len(<<"LF">>) = 1 /\ Len(CrLf) = 2
      BY DEF CrLf
    <3> QED BY <3>1, <1>2
  <2>2. <<"LF">> \in Seq(Tokens) /\ Len(<<"LF">>) = 1
    BY DEF Tokens
  <2> QED BY <1>2, <2>1, <2>2 DEF Width
<1> QED
  BY <1>1, <1>2 DEF OutputType

LEMMA HeaderLinesType ==
  ASSUME NEW o \in OutputType
  PROVE  HeaderLines(o) \in Seq(Tokens) /\ Len(HeaderLines(o)) = o.lines * Width(o)
<1> DEFINE w == Width(o)
           n == o.lines * w
<1>1. w \in {2, 3} /\ Len(o.newline) = w - 1 /\ o.newline \in Seq(Tokens)
  BY NewlineType
<1>2. o.lines \in Nat
  BY DEF OutputType
<1> HIDE DEF w
<1>3. n \in Nat
  <2>1. CASE w = 2
    BY <2>1, <1>2
  <2>2. CASE w = 3
    BY <2>2, <1>2
  <2> QED BY <2>1, <2>2, <1>1
<1> HIDE DEF n
<1>4. \A i \in 1 .. n : (i - 1) % w = 0 \/ (i - 1) % w \in 1 .. w - 1
  <2>1. CASE w = 2
    BY <2>1, <1>3
  <2>2. CASE w = 3
    BY <2>2, <1>3
  <2> QED BY <2>1, <2>2, <1>1
<1>5. \A k \in 1 .. w - 1 : o.newline[k] \in Tokens
  <2>1. Len(o.newline) = w - 1
    BY <1>1
  <2> QED BY <1>1, <2>1, ElementOfSeq
<1>6. "h" \in Tokens
  BY DEF Tokens
<1>7. HeaderLines(o) =
        [i \in 1 .. n |-> IF (i - 1) % w = 0 THEN "h" ELSE o.newline[(i - 1) % w]]
  BY DEF HeaderLines, w, n
<1>8. HeaderLines(o) \in [1 .. n -> Tokens]
  <2>1. \A i \in 1 .. n :
          (IF (i - 1) % w = 0 THEN "h" ELSE o.newline[(i - 1) % w]) \in Tokens
    <3> SUFFICES ASSUME NEW i \in 1 .. n, (i - 1) % w # 0
                 PROVE  o.newline[(i - 1) % w] \in Tokens
      BY <1>6
    <3>1. (i - 1) % w \in 1 .. w - 1
      BY <1>4
    <3> QED BY <3>1, <1>5
  <2> QED BY <1>7, <2>1
<1>9. HeaderLines(o) \in Seq(Tokens) /\ Len(HeaderLines(o)) = n
  BY <1>8, <1>3
<1> QED
  BY <1>9 DEF n, w

LEMMA EncodeIs ==
  ASSUME NEW o \in OutputType
  PROVE  Encode(o) = HeaderLines(o) \o o.newline \o o.page
BY DEF Encode, HeaderLines, Width

LEMMA EncodeType ==
  ASSUME NEW o \in OutputType
  PROVE  Encode(o) \in Seq(Tokens)
<1>1. o.newline \in Seq(Tokens) /\ o.page \in Seq(Tokens)
  BY NewlineType DEF OutputType
<1>2. HeaderLines(o) \in Seq(Tokens)
  BY HeaderLinesType
<1>3. HeaderLines(o) \o o.newline \in Seq(Tokens)
  BY <1>1, <1>2, ConcatProperties
<1>4. (HeaderLines(o) \o o.newline) \o o.page \in Seq(Tokens)
  BY <1>1, <1>3, ConcatProperties
<1> QED
  BY <1>4, EncodeIs

HeadLength(o) == 3 * o.lines + 2

\* The stream of a script that ends its lines with CR LF, byte by byte.
LEMMA EncodeElements ==
  ASSUME NEW o \in OutputType, o.newline = CrLf
  PROVE  /\ Len(Encode(o)) = HeadLength(o) + Len(o.page)
         /\ \A j \in Nat : j < o.lines =>
              /\ Encode(o)[3 * j + 1] = "h"
              /\ Encode(o)[3 * j + 2] = "CR"
              /\ Encode(o)[3 * j + 3] = "LF"
         /\ Encode(o)[3 * o.lines + 1] = "CR"
         /\ Encode(o)[3 * o.lines + 2] = "LF"
         /\ \A i \in 1 .. Len(o.page) : Encode(o)[HeadLength(o) + i] = o.page[i]
<1> DEFINE h == HeaderLines(o)
           L == o.lines
           hn == h \o o.newline
<1>1. L \in Nat /\ o.page \in Seq(Tokens) /\ Len(o.page) \in Nat
  BY DEF OutputType
<1>2. /\ o.newline \in Seq(Tokens) /\ Len(o.newline) = 2 /\ Width(o) = 3
      /\ o.newline[1] = "CR" /\ o.newline[2] = "LF"
  <2>1. /\ o.newline \in Seq(Tokens) /\ Len(o.newline) = 2
        /\ o.newline[1] = "CR" /\ o.newline[2] = "LF"
    BY NewlineType
  <2> QED BY <2>1 DEF Width
<1>3. h \in Seq(Tokens) /\ Len(h) = 3 * L
  <2>1. h \in Seq(Tokens) /\ Len(h) = L * 3
    BY <1>2, HeaderLinesType
  <2> HIDE DEF h, L
  <2> QED BY <1>1, <2>1
<1>4. \A i \in 1 .. 3 * L : h[i] = IF (i - 1) % 3 = 0 THEN "h" ELSE o.newline[(i - 1) % 3]
  <2>1. h = [i \in 1 .. L * 3 |-> IF (i - 1) % 3 = 0 THEN "h" ELSE o.newline[(i - 1) % 3]]
    BY <1>2 DEF HeaderLines
  <2>2. L * 3 = 3 * L
    BY <1>1
  <2> QED BY <2>1, <2>2
<1> HIDE DEF h, L
<1>5. ASSUME NEW j \in Nat, j < L
      PROVE  h[3 * j + 1] = "h" /\ h[3 * j + 2] = "CR" /\ h[3 * j + 3] = "LF"
  <2>1. 3 * j + 1 \in 1 .. 3 * L /\ 3 * j + 2 \in 1 .. 3 * L /\ 3 * j + 3 \in 1 .. 3 * L
    BY <1>1, <1>5
  <2>2. ((3 * j + 1) - 1) % 3 = 0 /\ ((3 * j + 2) - 1) % 3 = 1 /\ ((3 * j + 3) - 1) % 3 = 2
    OBVIOUS
  <2> QED BY <2>1, <2>2, <1>2, <1>4
<1>6. /\ hn \in Seq(Tokens) /\ Len(hn) = 3 * L + 2
      /\ hn[3 * L + 1] = "CR" /\ hn[3 * L + 2] = "LF"
      /\ \A i \in 1 .. 3 * L : hn[i] = h[i]
  <2>1. /\ hn \in Seq(Tokens) /\ Len(hn) = Len(h) + Len(o.newline)
        /\ \A i \in 1 .. Len(h) + Len(o.newline) :
             hn[i] = IF i <= Len(h) THEN h[i] ELSE o.newline[i - Len(h)]
    BY <1>2, <1>3, ConcatProperties
  <2>2. (3 * L + 1) - 3 * L = 1 /\ (3 * L + 2) - 3 * L = 2
    BY <1>1
  <2> HIDE DEF hn
  <2> QED BY <1>1, <1>2, <1>3, <2>1, <2>2
<1>7. Encode(o) = hn \o o.page
  BY EncodeIs DEF h
<1> HIDE DEF hn
<1>8. /\ Len(Encode(o)) = 3 * L + 2 + Len(o.page)
      /\ \A i \in 1 .. 3 * L + 2 : Encode(o)[i] = hn[i]
      /\ \A i \in 1 .. Len(o.page) : Encode(o)[3 * L + 2 + i] = o.page[i]
  <2>1. /\ Len(hn \o o.page) = Len(hn) + Len(o.page)
        /\ \A i \in 1 .. Len(hn) + Len(o.page) :
             (hn \o o.page)[i] = IF i <= Len(hn) THEN hn[i] ELSE o.page[i - Len(hn)]
    BY <1>1, <1>6, ConcatProperties
  <2>2. ASSUME NEW i \in 1 .. Len(o.page)
        PROVE  (hn \o o.page)[3 * L + 2 + i] = o.page[i]
    <3>1. /\ 3 * L + 2 + i \in 1 .. Len(hn) + Len(o.page) /\ ~(3 * L + 2 + i <= Len(hn))
          /\ (3 * L + 2 + i) - Len(hn) = i
      BY <1>1, <1>6
    <3> QED BY <2>1, <3>1
  <2>3. \A i \in 1 .. 3 * L + 2 : (hn \o o.page)[i] = hn[i]
    BY <1>1, <1>6, <2>1
  <2> QED BY <1>6, <1>7, <2>1, <2>2, <2>3
<1>9. ASSUME NEW j \in Nat, j < L
      PROVE  /\ Encode(o)[3 * j + 1] = "h"
             /\ Encode(o)[3 * j + 2] = "CR"
             /\ Encode(o)[3 * j + 3] = "LF"
  <2>1. 3 * j + 1 \in 1 .. 3 * L /\ 3 * j + 2 \in 1 .. 3 * L /\ 3 * j + 3 \in 1 .. 3 * L
    BY <1>1, <1>9
  <2>2. \A i \in 1 .. 3 * L : i \in 1 .. 3 * L + 2
    BY <1>1
  <2>3. \A i \in 1 .. 3 * L : Encode(o)[i] = h[i]
    BY <2>2, <1>6, <1>8
  <2> QED BY <2>1, <2>3, <1>5, <1>9
<1>10. Encode(o)[3 * L + 1] = "CR" /\ Encode(o)[3 * L + 2] = "LF"
  <2>1. 3 * L + 1 \in 1 .. 3 * L + 2 /\ 3 * L + 2 \in 1 .. 3 * L + 2
    BY <1>1
  <2> QED BY <2>1, <1>6, <1>8
<1> QED
  BY <1>8, <1>9, <1>10 DEF HeadLength, L

-----------------------------------------------------------------------------
(* Types                                                                   *)

\* The Response object while addCGIChunk() runs.
Responses ==
  [state : ParsingStates, unparsed : Seq(Tokens), page : Seq(Tokens),
   error : {"none", "413", "502"}, chunk : Seq(Tokens), waiting : BOOLEAN]

LEMMA AddOnceType ==
  ASSUME NEW r \in Responses
  PROVE  AddOnce(r) \in Responses
<1> DEFINE c == r.chunk
           e == LineEnd(c)
<1>1. c \in Seq(Tokens) /\ Len(c) \in Nat
  BY DEF Responses
<1>2. e = 0 \/ e \in 1 .. Len(c) - 1
  BY <1>1, LineEndType DEF EndsAt
<1>3. ParseCGIHeaderLine(r) \in Responses
  <2> DEFINE rest == SubSeq(c, e + 2, Len(c))
             all == r.unparsed \o c
             line == r.unparsed \o SubSeq(c, 1, e - 1)
             st == IF line = <<>> THEN "BODY" ELSE r.state
  <2>1. e # 0 => rest \in Seq(Tokens)
    BY <1>1, <1>2
  <2>2. all \in Seq(Tokens) /\ <<>> \in Seq(Tokens) /\ st \in ParsingStates
    BY <1>1 DEF Responses, ParsingStates
  <2>3. ParseCGIHeaderLine(r) =
          IF e = 0 THEN [r EXCEPT !.unparsed = all, !.chunk = <<>>, !.waiting = TRUE]
          ELSE [r EXCEPT !.state = st, !.unparsed = <<>>, !.chunk = rest]
    BY DEF ParseCGIHeaderLine
  <2> HIDE DEF rest, all, st, e
  <2> QED BY <2>1, <2>2, <2>3 DEF Responses
<1>4. AssembleCGIBody(r) \in Responses
  <2> DEFINE s == [r EXCEPT !.page = @ \o r.chunk, !.chunk = <<>>]
  <2>1. r.page \o c \in Seq(Tokens) /\ <<>> \in Seq(Tokens)
    BY <1>1 DEF Responses
  <2>2. s \in Responses
    BY <2>1 DEF Responses
  <2>3. AssembleCGIBody(r) = IF Len(s.page) > MaxBody THEN [s EXCEPT !.error = "413"]
                             ELSE [s EXCEPT !.waiting = TRUE]
    BY DEF AssembleCGIBody
  <2> HIDE DEF s
  <2> QED BY <2>2, <2>3 DEF Responses
<1> QED
  BY <1>3, <1>4 DEF AddOnce, Responses, ParsingStates

LEMMA TurnsExist ==
  ASSUME NEW start \in Responses
  PROVE  \E f : f = [n \in Nat |-> IF n = 0 THEN start ELSE AddOnce(f[n - 1])]
<1> DEFINE once == [s \in Responses |-> AddOnce(s)]
<1>1. once \in [Responses -> Responses]
  BY AddOnceType
<1> HIDE DEF once
<1>2. PICK f \in [Nat -> Responses] : f[0] = start /\ \A n \in Nat : f[n + 1] = once[f[n]]
  BY <1>1, Iteration
<1> DEFINE body(n) == IF n = 0 THEN start ELSE AddOnce(f[n - 1])
<1>3. ASSUME NEW n \in Nat PROVE f[n] = body(n)
  <2>1. CASE n = 0
    BY <2>1, <1>2
  <2>2. CASE n # 0
    <3>1. n - 1 \in Nat /\ (n - 1) + 1 = n /\ f[n - 1] \in Responses
      BY <2>2, <1>2
    <3>2. f[n] = once[f[n - 1]]
      BY <1>2, <3>1
    <3> QED BY <3>1, <3>2, <2>2 DEF once
  <2> QED BY <2>1, <2>2
<1>4. f = [n \in Nat |-> body(n)]
  <2> HIDE DEF body
  <2> QED BY <1>2, <1>3
<1> QED
  BY <1>4

\* An invariant X of the turns, by number, holds of the last one.
LEMMA AddCGIChunkTurns ==
  ASSUME NEW r \in Responses, NEW piece \in Seq(Tokens), NEW X,
         <<0, [r EXCEPT !.chunk = piece]>> \in X,
         \A n \in Nat : \A s \in Responses : <<n, s>> \in X => <<n + 1, AddOnce(s)>> \in X
  PROVE  \E s \in Responses :
           /\ <<Len(piece) + 2, s>> \in X
           /\ AddCGIChunk(r, piece) = [s EXCEPT !.chunk = <<>>, !.waiting = FALSE]
<1> DEFINE start == [r EXCEPT !.chunk = piece]
           Is(g) == g = [n \in Nat |-> IF n = 0 THEN start ELSE AddOnce(g[n - 1])]
           turn == CHOOSE g : Is(g)
<1>1. start \in Responses
  BY DEF Responses
<1>3. \E g : Is(g)
  <2> HIDE DEF start
  <2> QED BY <1>1, TurnsExist
<1>4. AddCGIChunk(r, piece) = [turn[Len(piece) + 2] EXCEPT !.chunk = <<>>, !.waiting = FALSE]
  BY DEF AddCGIChunk
<1>5. Is(turn)
  <2> HIDE DEF Is
  <2> QED BY <1>3
<1> HIDE DEF turn
<1> DEFINE T == {n \in Nat : turn[n] \in Responses /\ <<n, turn[n]>> \in X}
<1>6. 0 \in T
  <2>1. turn[0] = start
    BY <1>5
  <2> QED BY <2>1, <1>1
<1>7. ASSUME NEW n \in Nat, n \in T PROVE n + 1 \in T
  <2>1. turn[n + 1] = AddOnce(turn[n])
    <3>1. n + 1 \in Nat /\ n + 1 # 0 /\ (n + 1) - 1 = n
      OBVIOUS
    <3> HIDE DEF start
    <3> QED BY <1>5, <3>1
  <2> QED BY <1>7, <2>1, AddOnceType
<1>8. Nat \subseteq T
  <2> HIDE DEF T
  <2> QED BY <1>6, <1>7, Induction
<1>9. Len(piece) + 2 \in Nat
  OBVIOUS
<1> QED
  BY <1>4, <1>8, <1>9

ResponseType ==
  [state : ParsingStates, unparsed : Seq(Tokens), page : Seq(Tokens),
   error : {"none", "413", "502"}, chunk : {<<>>}, waiting : {FALSE}]

LEMMA FreshType == Fresh \in ResponseType /\ ResponseType \subseteq Responses
<1>1. <<>> \in Seq(Tokens)
  OBVIOUS
<1> QED
  BY <1>1 DEF Fresh, ResponseType, Responses, ParsingStates

-----------------------------------------------------------------------------
(* What addCGIChunk() has made of the first k bytes of an output           *)

\* Between two lines, or in the middle of one whose first byte has been kept.
InHeaders(o, r, k) ==
  /\ r.state = "HEADERS" /\ r.error = "none" /\ r.page = <<>>
  /\ \E j \in 0 .. o.lines :
       \/ k = 3 * j /\ r.unparsed = <<>>
       \/ j < o.lines /\ k = 3 * j + 1 /\ r.unparsed = <<"h">>
InBody(o, r, k) ==
  /\ r.state = "BODY" /\ r.error = "none"
  /\ k >= HeadLength(o) /\ r.page = SubSeq(o.page, 1, k - HeadLength(o))
Refused(o, r) == r.error = "413" /\ Len(o.page) > MaxBody
Finished(o, r, k) ==
  r.state = "DONE" /\ r.error = "none" /\ r.page = o.page /\ k = Len(Encode(o))
\* What addCGIChunk() has made of the first k bytes.
HasParsed(o, r, k) ==
  InHeaders(o, r, k) \/ InBody(o, r, k) \/ Refused(o, r) \/ Finished(o, r, k)


\* A read ends at the end of the output, in the page or after the first byte of
\* a line.
MayEnd(o, end) ==
  \/ end = Len(Encode(o))
  \/ end \in HeadLength(o) + 1 .. Len(Encode(o))
  \/ \E j \in Nat : j < o.lines /\ end = 3 * j + 1

\* Between two turns, in a piece that ends at end.
Turn(o, r, end) ==
  LET k == end - Len(r.chunk)
  IN \/ Refused(o, r)
     \/ Finished(o, r, end) /\ r.chunk = <<>>
     \/ /\ k \in 0 .. end /\ r.chunk = SubSeq(Encode(o), k + 1, end)
        /\ InHeaders(o, r, k) \/ InBody(o, r, k)
        /\ r.waiting => r.chunk = <<>>
        /\ r.chunk = <<>> /\ ~r.waiting => end = Len(Encode(o))

LEMMA Piece ==
  ASSUME NEW S, NEW s \in Seq(S), NEW end \in 0 .. Len(s), NEW k \in 0 .. end
  PROVE  LET c == SubSeq(s, k + 1, end)
         IN /\ c \in Seq(S) /\ Len(c) = end - k
            /\ \A i \in 1 .. end - k : c[i] = s[k + i]
            /\ \A n \in 0 .. end - k :
                 /\ SubSeq(c, n + 1, Len(c)) = SubSeq(s, k + n + 1, end)
                 /\ SubSeq(s, k + n + 1, end) \in Seq(S)
                 /\ Len(SubSeq(s, k + n + 1, end)) = end - k - n
            /\ \A n \in 0 .. end - k :
                 SubSeq(c, 1, n) \in Seq(S) /\ Len(SubSeq(c, 1, n)) = n
<1> DEFINE c == SubSeq(s, k + 1, end)
<1>1. Len(s) \in Nat /\ \A i \in 1 .. Len(s) : s[i] \in S
  OBVIOUS
<1>2. ASSUME NEW j \in 0 .. end
      PROVE  /\ SubSeq(s, j + 1, end) \in Seq(S) /\ Len(SubSeq(s, j + 1, end)) = end - j
             /\ \A i \in 1 .. end - j : SubSeq(s, j + 1, end)[i] = s[j + i]
  <2>1. \A i \in j + 1 .. end : s[i] \in S
    BY <1>1
  <2>2. /\ SubSeq(s, j + 1, end) \in Seq(S)
        /\ Len(SubSeq(s, j + 1, end)) = IF j + 1 <= end THEN end - (j + 1) + 1 ELSE 0
        /\ \A i \in 1 .. end - (j + 1) + 1 : SubSeq(s, j + 1, end)[i] = s[(j + 1) + i - 1]
    BY <2>1, SubSeqProperties
  <2> QED BY <2>2
<1>3. c \in Seq(S) /\ Len(c) = end - k /\ \A i \in 1 .. end - k : c[i] = s[k + i]
  BY <1>2
<1> HIDE DEF c
<1>4. ASSUME NEW n \in 0 .. end - k
      PROVE  /\ SubSeq(c, n + 1, Len(c)) = SubSeq(s, k + n + 1, end)
             /\ SubSeq(s, k + n + 1, end) \in Seq(S)
             /\ Len(SubSeq(s, k + n + 1, end)) = end - k - n
  <2> DEFINE a == SubSeq(c, n + 1, Len(c))
             b == SubSeq(s, k + n + 1, end)
  <2>1. \A i \in n + 1 .. Len(c) : c[i] \in S
    BY <1>3
  <2>2. /\ a \in Seq(S) /\ Len(a) = end - k - n
        /\ \A i \in 1 .. end - k - n : a[i] = c[n + i]
    <3>1. /\ a \in Seq(S)
          /\ Len(a) = IF n + 1 <= Len(c) THEN Len(c) - (n + 1) + 1 ELSE 0
          /\ \A i \in 1 .. Len(c) - (n + 1) + 1 : a[i] = c[(n + 1) + i - 1]
      BY <2>1, <1>3, SubSeqProperties
    <3> HIDE DEF a
    <3> QED BY <3>1, <1>3
  <2>3. /\ b \in Seq(S) /\ Len(b) = end - k - n
        /\ \A i \in 1 .. end - k - n : b[i] = s[k + n + i]
    <3>1. k + n \in 0 .. end
      OBVIOUS
    <3> QED BY <3>1, <1>2
  <2> HIDE DEF a, b
  <2>4. \A i \in 1 .. end - k - n : a[i] = b[i]
    <3> SUFFICES ASSUME NEW i \in 1 .. end - k - n PROVE c[n + i] = s[k + n + i]
      BY <2>2, <2>3
    <3>1. n + i \in 1 .. end - k /\ k + (n + i) = k + n + i
      OBVIOUS
    <3> QED BY <3>1, <1>3
  <2>5. a = b
    BY <2>2, <2>3, <2>4, SeqEqual
  <2> QED BY <2>3, <2>5 DEF a, b
<1>5. ASSUME NEW n \in 0 .. end - k
      PROVE  SubSeq(c, 1, n) \in Seq(S) /\ Len(SubSeq(c, 1, n)) = n
  <2>1. \A i \in 1 .. n : c[i] \in S
    BY <1>3
  <2>2. SubSeq(c, 1, n) \in Seq(S) /\ Len(SubSeq(c, 1, n)) = IF 1 <= n THEN n - 1 + 1 ELSE 0
    BY <2>1, SubSeqProperties
  <2> QED BY <2>2
<1> QED
  BY <1>3, <1>4, <1>5 DEF c

\* What is left of a piece when a line that ends at e has been taken from it.
LEMMA TakesLine ==
  ASSUME NEW r \in Responses, NEW s \in Seq(Tokens), NEW end \in 0 .. Len(s), NEW k \in 0 .. end,
         r.chunk = SubSeq(s, k + 1, end), NEW e \in 1 .. end - k - 1,
         s[k + e] = "CR", s[k + e + 1] = "LF",
         \A i \in 1 .. e - 1 : s[k + i] # "CR"
  PROVE  LET q == ParseCGIHeaderLine(r)
         IN /\ q.state = IF Len(r.unparsed) + e - 1 = 0 THEN "BODY" ELSE r.state
            /\ q.unparsed = <<>> /\ q.chunk = SubSeq(s, k + e + 2, end)
            /\ q.page = r.page /\ q.error = r.error /\ q.waiting = r.waiting
<1> DEFINE c == r.chunk
<1>1. /\ c \in Seq(Tokens) /\ Len(c) = end - k
      /\ \A i \in 1 .. end - k : c[i] = s[k + i]
      /\ \A n \in 0 .. end - k : SubSeq(c, n + 1, Len(c)) = SubSeq(s, k + n + 1, end)
      /\ \A n \in 0 .. end - k : SubSeq(c, 1, n) \in Seq(Tokens) /\ Len(SubSeq(c, 1, n)) = n
  BY Piece
<1>2. r.unparsed \in Seq(Tokens)
  BY DEF Responses
<1> HIDE DEF c
<1>3. LineEnd(c) = e
  <2>1. EndsAt(c, e)
    <3>1. e \in 1 .. end - k /\ e + 1 \in 1 .. end - k /\ k + (e + 1) = k + e + 1
      OBVIOUS
    <3> QED BY <3>1, <1>1 DEF EndsAt
  <2>2. ASSUME NEW i \in 1 .. e - 1 PROVE ~EndsAt(c, i)
    <3>1. i \in 1 .. end - k
      OBVIOUS
    <3>2. c[i] # "CR"
      BY <3>1, <1>1
    <3> QED BY <3>2 DEF EndsAt
  <2> QED BY <2>1, <2>2, <1>1, LineEndIs
<1>4. SubSeq(c, e + 2, Len(c)) = SubSeq(s, k + e + 2, end)
  <2>1. e + 1 \in 0 .. end - k /\ (e + 1) + 1 = e + 2 /\ k + (e + 1) + 1 = k + e + 2
    OBVIOUS
  <2> QED BY <2>1, <1>1
<1> DEFINE line == r.unparsed \o SubSeq(c, 1, e - 1)
           st == IF line = <<>> THEN "BODY" ELSE r.state
<1>5. line \in Seq(Tokens) /\ Len(line) = Len(r.unparsed) + e - 1
  <2>1. e - 1 \in 0 .. end - k
    OBVIOUS
  <2>2. SubSeq(c, 1, e - 1) \in Seq(Tokens) /\ Len(SubSeq(c, 1, e - 1)) = e - 1
    BY <2>1, <1>1
  <2>3. line \in Seq(Tokens) /\ Len(line) = Len(r.unparsed) + Len(SubSeq(c, 1, e - 1))
    BY <2>2, <1>2, ConcatProperties
  <2>4. Len(r.unparsed) \in Nat
    BY <1>2
  <2> QED BY <2>2, <2>3, <2>4
<1>6. ParseCGIHeaderLine(r) =
        [r EXCEPT !.state = st, !.unparsed = <<>>, !.chunk = SubSeq(c, e + 2, Len(c))]
  <2>1. e # 0 /\ LineEnd(r.chunk) = e
    BY <1>3 DEF c
  <2> QED BY <2>1 DEF ParseCGIHeaderLine, c
<1>7. (line = <<>>) <=> Len(r.unparsed) + e - 1 = 0
  BY <1>5, EmptySeq
<1> HIDE DEF line
<1> QED
  BY <1>4, <1>6, <1>7 DEF c, Responses

-----------------------------------------------------------------------------
(* The turns                                                               *)

LEMMA AfterLineEnd ==
  ASSUME NEW k \in Nat, NEW end \in Nat, NEW e \in 1 .. end - k - 1
  PROVE  e + 1 \in 0 .. end - k /\ k + (e + 1) + 1 = k + e + 2 /\ end - k - (e + 1) = end - k - e - 1
  OBVIOUS

LEMMA HeaderTurn ==
  ASSUME NEW o \in OutputType, o.newline = CrLf, NEW r \in Responses,
         NEW end \in 0 .. Len(Encode(o)), MayEnd(o, end), NEW k \in 0 .. end,
         r.chunk = SubSeq(Encode(o), k + 1, end), r.chunk # <<>>, ~r.waiting,
         InHeaders(o, r, k)
  PROVE  LET q == ParseCGIHeaderLine(r)
         IN Turn(o, q, end) /\ (~q.waiting => Len(q.chunk) < Len(r.chunk))
<1> DEFINE E == Encode(o)
           L == o.lines
           c == r.chunk
           q == ParseCGIHeaderLine(r)
<1>1. /\ E \in Seq(Tokens) /\ Len(E) \in Nat /\ L \in Nat /\ o.page \in Seq(Tokens)
      /\ Len(E) = HeadLength(o) + Len(o.page) /\ Len(o.page) \in Nat
  BY EncodeType, EncodeElements DEF OutputType
<1>2. /\ \A j \in Nat : j < L => E[3 * j + 1] = "h" /\ E[3 * j + 2] = "CR" /\ E[3 * j + 3] = "LF"
      /\ E[3 * L + 1] = "CR" /\ E[3 * L + 2] = "LF"
  BY EncodeElements
<1>3. /\ c \in Seq(Tokens) /\ Len(c) = end - k
      /\ \A i \in 1 .. end - k : c[i] = E[k + i]
      /\ \A n \in 0 .. end - k :
           /\ SubSeq(E, k + n + 1, end) \in Seq(Tokens)
           /\ Len(SubSeq(E, k + n + 1, end)) = end - k - n
  BY <1>1, Piece
<1>4. k < end
  BY <1>3, EmptySeq
<1>5. r.state = "HEADERS" /\ r.error = "none" /\ r.page = <<>>
  BY DEF InHeaders
<1>6. PICK j \in 0 .. L : \/ k = 3 * j /\ r.unparsed = <<>>
                          \/ j < L /\ k = 3 * j + 1 /\ r.unparsed = <<"h">>
  BY DEF InHeaders
<1>7. /\ end # 3 * L + 1 /\ (end = 3 * L + 2 => end = Len(E))
      /\ \A i \in Nat : i < L => end # 3 * i + 2 /\ end # 3 * i + 3
  BY SMTT(30), <1>1 DEF MayEnd, HeadLength
<1> HIDE DEF E, c, L
\* A header line has been read to its end, or the empty line has.
<1>9. ASSUME NEW e \in 1 .. end - k - 1, E[k + e] = "CR", E[k + e + 1] = "LF",
             \A i \in 1 .. e - 1 : E[k + i] # "CR",
             NEW i \in 0 .. L, k + e + 1 = 3 * i, k + e + 1 < end,
             Len(r.unparsed) + e - 1 # 0
      PROVE  Turn(o, q, end) /\ (~q.waiting => Len(q.chunk) < Len(c))
  <2> DEFINE rest == SubSeq(E, k + e + 2, end)
  <2>1. /\ q.state = IF Len(r.unparsed) + e - 1 = 0 THEN "BODY" ELSE r.state
        /\ q.unparsed = <<>> /\ q.chunk = rest
        /\ q.page = r.page /\ q.error = r.error /\ q.waiting = r.waiting
    BY <1>1, <1>9, TakesLine DEF E
  <2>3. /\ rest \in Seq(Tokens) /\ Len(rest) = end - k - e - 1
        /\ end - Len(rest) = k + e + 1
    <3>0. end \in Nat /\ k \in Nat
      BY <1>1 DEF E
    <3>1. e + 1 \in 0 .. end - k /\ k + (e + 1) + 1 = k + e + 2 /\ end - k - (e + 1) = end - k - e - 1
      BY <3>0, <1>9, AfterLineEnd
    <3>2. rest \in Seq(Tokens) /\ Len(rest) = end - k - e - 1
      BY <3>1, <1>3
    <3> HIDE DEF rest
    <3> QED BY <3>2
  <2>4. /\ q.state = "HEADERS" /\ q.unparsed = <<>> /\ q.chunk = rest /\ q.page = <<>>
        /\ q.error = "none" /\ q.waiting = FALSE
    <3> HIDE DEF rest, q
    <3> QED BY <2>1, <1>5, <1>9
  <2>5. rest # <<>>
    <3>1. Len(rest) # 0
      <4> HIDE DEF rest
      <4> QED BY <2>3, <1>9
    <3> QED BY <3>1, EmptySeq
  <2>6. InHeaders(o, q, k + e + 1)
    <3> HIDE DEF q, rest
    <3> QED BY <2>4, <1>9 DEF InHeaders, L
  <2>7. k + e + 1 \in 0 .. end /\ rest = SubSeq(E, (k + e + 1) + 1, end)
    <3>1. k + e + 2 = (k + e + 1) + 1
      OBVIOUS
    <3> QED BY <3>1, <1>9
  <2> HIDE DEF q, rest
  <2>8. Turn(o, q, end)
    BY <2>3, <2>4, <2>5, <2>6, <2>7 DEF Turn, E
  <2>9. Len(q.chunk) < Len(c)
    BY <2>3, <2>4, <1>3
  <2> QED BY <2>8, <2>9
<1>10. CASE k = 3 * j /\ r.unparsed = <<>> /\ j < L
  <2>1. E[k + 1] = "h" /\ E[k + 2] = "CR" /\ E[k + 3] = "LF"
    BY <1>10, <1>2
  <2>2. end # k + 2 /\ end # k + 3
    BY <1>7, <1>10
  <2>3. CASE end = k + 1
    <3>1. LineEnd(c) = 0
      <4>1. \A i \in 1 .. Len(c) - 1 : FALSE
        BY <1>3, <2>3
      <4> QED BY <4>1, NoLineEnd
    <3>2. q = [r EXCEPT !.unparsed = @ \o c, !.chunk = <<>>, !.waiting = TRUE]
      BY <3>1 DEF ParseCGIHeaderLine, c
    <3>3. r.unparsed \o c = <<"h">>
      <4>1. r.unparsed \o c = c
        BY <1>3, <1>10, ConcatEmptySeq
      <4>2. c = <<"h">>
        <5>1. Len(c) = 1 /\ c[1] = "h"
          BY <1>3, <2>1, <2>3
        <5>2. <<"h">> \in Seq(Tokens) /\ Len(<<"h">>) = 1 /\ <<"h">>[1] = "h"
          BY DEF Tokens
        <5>3. \A i \in 1 .. Len(c) : c[i] = <<"h">>[i]
          BY <5>1, <5>2
        <5> QED BY <5>1, <5>2, <5>3, <1>3, SeqEqual
      <4> QED BY <4>1, <4>2
    <3>4. /\ q.state = "HEADERS" /\ q.unparsed = <<"h">> /\ q.chunk = <<>> /\ q.page = <<>>
          /\ q.error = "none" /\ q.waiting = TRUE
      <4> HIDE DEF q
      <4> QED BY <3>2, <3>3, <1>5 DEF Responses
    <3> HIDE DEF q
    <3>5. InHeaders(o, q, end)
      BY <3>4, <2>3, <1>10 DEF InHeaders, L
    <3>6. end - Len(<<>>) = end /\ SubSeq(E, end + 1, end) = <<>> /\ end \in 0 .. end
      <4>1. Len(<<>>) = 0
        OBVIOUS
      <4>2. SubSeq(E, end + 1, end) = <<>>
        BY <1>1, SubSeqEmpty
      <4> QED BY <4>1, <4>2
    <3>7. Turn(o, q, end)
      BY <3>4, <3>5, <3>6 DEF Turn, E
    <3> QED BY <3>4, <3>7 DEF c, q
  <2>4. CASE end # k + 1
    <3>1. /\ 2 \in 1 .. end - k - 1 /\ k + 2 + 1 = k + 3 /\ k + 2 + 1 = 3 * (j + 1)
          /\ j + 1 \in 0 .. L /\ k + 2 + 1 < end
      BY <1>1, <1>4, <2>2, <2>4, <1>10
    <3>2. \A i \in 1 .. 2 - 1 : E[k + i] # "CR"
      BY <2>1
    <3>3. Len(r.unparsed) + 2 - 1 # 0
      BY <1>10
    <3> QED BY <3>1, <3>2, <3>3, <2>1, <1>9 DEF c
  <2> QED BY <2>3, <2>4
<1>11. CASE j < L /\ k = 3 * j + 1 /\ r.unparsed = <<"h">>
  <2>1. E[k + 1] = "CR" /\ E[k + 2] = "LF"
    <3>1. k + 1 = 3 * j + 2 /\ k + 2 = 3 * j + 3
      BY <1>11
    <3> QED BY <3>1, <1>2, <1>11
  <2>2. end # k + 1 /\ end # k + 2
    <3>1. k + 1 = 3 * j + 2 /\ k + 2 = 3 * j + 3
      BY <1>11
    <3> QED BY <3>1, <1>7, <1>11
  <2>3. /\ 1 \in 1 .. end - k - 1 /\ k + 1 + 1 = k + 2 /\ k + 1 + 1 = 3 * (j + 1)
        /\ j + 1 \in 0 .. L /\ k + 1 + 1 < end
    BY <1>1, <1>4, <2>2, <1>11
  <2>4. \A i \in 1 .. 1 - 1 : E[k + i] # "CR"
    OBVIOUS
  <2>5. Len(r.unparsed) + 1 - 1 # 0
    BY <1>11
  <2> QED BY <2>1, <2>3, <2>4, <2>5, <1>9 DEF c
<1>12. CASE k = 3 * L /\ r.unparsed = <<>>
  <2> DEFINE rest == SubSeq(E, k + 2 + 1, end)
  <2>1. E[k + 1] = "CR" /\ E[k + 2] = "LF" /\ end # k + 1 /\ k + 2 = HeadLength(o)
    BY <1>12, <1>2, <1>7 DEF HeadLength, L
  <2>2. 1 \in 1 .. end - k - 1 /\ k + 1 + 1 = k + 2 /\ k + 1 + 2 = k + 2 + 1
    BY <1>4, <2>1
  <2>3. \A i \in 1 .. 1 - 1 : E[k + i] # "CR"
    OBVIOUS
  <2>4. /\ q.state = IF Len(r.unparsed) + 1 - 1 = 0 THEN "BODY" ELSE r.state
        /\ q.unparsed = <<>> /\ q.chunk = SubSeq(E, k + 1 + 2, end)
        /\ q.page = r.page /\ q.error = r.error /\ q.waiting = r.waiting
    <3>1. k + 1 + 1 = k + 2 /\ E[k + 1 + 1] = "LF"
      BY <2>1, <2>2
    <3> QED BY <1>1, <2>1, <2>2, <2>3, <3>1, TakesLine DEF E
  <2>5. Len(r.unparsed) + 1 - 1 = 0
    BY <1>12
  <2>6. /\ rest \in Seq(Tokens) /\ Len(rest) = end - (k + 2)
        /\ end - Len(rest) = k + 2 /\ k + 2 \in 0 .. end
    <3>1. 2 \in 0 .. end - k
      BY <2>2
    <3>2. rest \in Seq(Tokens) /\ Len(rest) = end - k - 2
      BY <3>1, <1>3
    <3> HIDE DEF rest
    <3> QED BY <3>1, <3>2
  <2>7. /\ q.state = "BODY" /\ q.chunk = rest /\ q.page = <<>>
        /\ q.error = "none" /\ q.waiting = FALSE
    <3>1. q.chunk = rest
      BY <2>2, <2>4
    <3> HIDE DEF rest, q
    <3> QED BY <2>4, <2>5, <3>1, <1>5
  <2>8. InBody(o, q, k + 2)
    <3>1. SubSeq(o.page, 1, (k + 2) - HeadLength(o)) = <<>>
      <4>1. (k + 2) - HeadLength(o) = 0
        BY <2>1
      <4> QED BY <4>1, <1>1, SubSeqEmpty
    <3>2. k + 2 >= HeadLength(o)
      BY <2>1
    <3> HIDE DEF q, rest
    <3> QED BY <2>7, <3>1, <3>2 DEF InBody
  <2>9. rest = <<>> => end = Len(E)
    <3> HIDE DEF rest
    <3>1. rest = <<>> => end = k + 2
      BY <2>6, EmptySeq
    <3> QED BY <3>1, <1>7, <1>12
  <2> HIDE DEF q
  <2>10. Turn(o, q, end)
    BY <2>6, <2>7, <2>8, <2>9 DEF Turn, E
  <2>11. Len(q.chunk) < Len(c)
    BY <2>6, <2>7, <1>3
  <2> QED BY <2>10, <2>11 DEF c, q
<1>13. \/ k = 3 * j /\ r.unparsed = <<>> /\ j < L
       \/ j < L /\ k = 3 * j + 1 /\ r.unparsed = <<"h">>
       \/ k = 3 * L /\ r.unparsed = <<>>
  BY <1>1, <1>6
<1> QED
  BY <1>10, <1>11, <1>12, <1>13

\* Sums and differences, apart from the sequences whose lengths they are.
LEMMA Places ==
  ASSUME NEW k \in Nat, NEW end \in Nat, k <= end
  PROVE  /\ \A h, n \in Nat : h <= k /\ end <= h + n =>
              /\ end - h \in 0 .. n /\ k - h \in 0 .. end - h
              /\ \A i \in 1 .. end - k :
                   /\ (k - h) + i \in 1 .. n /\ h + ((k - h) + i) = k + i
                   /\ i \in 1 .. (end - h) - (k - h)
         /\ \A a, b, n \in Nat : a < b /\ b + n <= end - k => a + (n + 1) <= end - k
         /\ \A a \in Nat : ~(a + (end - k + 2) <= end - k)
OBVIOUS

LEMMA BodyTurn ==
  ASSUME NEW o \in OutputType, o.newline = CrLf, NEW r \in Responses,
         NEW end \in Nat, end <= Len(Encode(o)), NEW k \in Nat, k <= end,
         r.chunk = SubSeq(Encode(o), k + 1, end), InBody(o, r, k)
  PROVE  LET q == AssembleCGIBody(r)
         IN Turn(o, q, end) /\ (q.waiting \/ q.error # "none")
<1> DEFINE E == Encode(o)
           H == HeadLength(o)
           c == r.chunk
           q == AssembleCGIBody(r)
           before == SubSeq(o.page, 1, k - H)
           after == SubSeq(o.page, 1, end - H)
<1>1. /\ E \in Seq(Tokens) /\ Len(E) = H + Len(o.page) /\ H \in Nat
      /\ o.page \in Seq(Tokens) /\ Len(o.page) \in Nat
      /\ \A i \in 1 .. Len(o.page) : E[H + i] = o.page[i]
  BY SMTT(30), EncodeType, EncodeElements DEF OutputType, HeadLength
<1>0. end \in 0 .. Len(E) /\ k \in 0 .. end
  BY <1>1
<1>2. /\ c \in Seq(Tokens) /\ Len(c) = end - k
      /\ \A i \in 1 .. end - k : c[i] = E[k + i]
  BY <1>0, <1>1, Piece
<1>3. r.state = "BODY" /\ r.error = "none" /\ k >= H /\ r.page = before
  BY DEF InBody
<1> HIDE DEF E, H, c
<1>10. H <= k /\ end <= H + Len(o.page)
  BY <1>0, <1>1, <1>3
<1>11. end - H \in 0 .. Len(o.page) /\ k - H \in 0 .. end - H
  BY <1>1, <1>10, Places
<1>4. c = SubSeq(o.page, (k - H) + 1, end - H)
  <2> DEFINE d == SubSeq(o.page, (k - H) + 1, end - H)
  <2>1. /\ d \in Seq(Tokens) /\ Len(d) = (end - H) - (k - H)
        /\ \A i \in 1 .. (end - H) - (k - H) : d[i] = o.page[(k - H) + i]
    BY <1>1, <1>11, Piece
  <2> HIDE DEF d
  <2>2. ASSUME NEW i \in 1 .. Len(c) PROVE c[i] = d[i]
    <3>1. /\ (k - H) + i \in 1 .. Len(o.page) /\ H + ((k - H) + i) = k + i
          /\ i \in 1 .. (end - H) - (k - H) /\ i \in 1 .. end - k
      <4>1. i \in 1 .. end - k
        BY <1>2
      <4> QED BY <1>1, <1>10, <4>1, Places
    <3> QED BY <1>1, <1>2, <2>1, <3>1
  <2>3. Len(c) = Len(d)
    BY <1>1, <1>2, <2>1
  <2>4. c = d
    BY <1>2, <2>1, <2>2, <2>3, SeqEqual
  <2> QED BY <2>4 DEF d
<1>5. before \o c = after
  <2>1. /\ 1 \in 1 .. Len(o.page) + 1 /\ k - H \in 1 - 1 .. Len(o.page)
        /\ end - H \in k - H .. Len(o.page)
    <3> DEFINE a == k - H
               b == end - H
    <3>1. b \in 0 .. Len(o.page) /\ a \in 0 .. b
      BY <1>11
    <3> HIDE DEF a, b
    <3>2. 1 \in 1 .. Len(o.page) + 1 /\ a \in 1 - 1 .. Len(o.page) /\ b \in a .. Len(o.page)
      BY <1>1, <3>1
    <3> QED BY <3>2 DEF a, b
  <2> QED BY <1>1, <1>4, <2>1, ConcatAdjacentSubSeq
<1>6. after \in Seq(Tokens) /\ Len(after) = end - H /\ end - H <= Len(o.page)
  <2> DEFINE b == end - H
  <2>1. b \in 0 .. Len(o.page)
    BY <1>11
  <2> HIDE DEF b
  <2>2. 0 \in 0 .. b /\ b - 0 = b /\ 0 + 1 = 1 /\ b <= Len(o.page)
    BY <1>1, <2>1
  <2>3. LET s == SubSeq(o.page, 0 + 1, b) IN s \in Seq(Tokens) /\ Len(s) = b - 0
    BY <1>1, <2>1, <2>2, Piece
  <2>4. SubSeq(o.page, 1, b) \in Seq(Tokens) /\ Len(SubSeq(o.page, 1, b)) = b
    BY <2>2, <2>3
  <2> QED BY <2>2, <2>4 DEF b
<1>7. q = IF Len(after) > MaxBody THEN [r EXCEPT !.page = after, !.chunk = <<>>, !.error = "413"]
          ELSE [r EXCEPT !.page = after, !.chunk = <<>>, !.waiting = TRUE]
  <2>1. r.page \o r.chunk = after
    BY <1>3, <1>5 DEF c
  <2> HIDE DEF after
  <2> QED BY <2>1 DEF AssembleCGIBody, Responses
<1> HIDE DEF q
<1>8. CASE Len(after) > MaxBody
  <2>1. Len(o.page) > MaxBody
    BY <1>1, <1>6, <1>8, MaxPageAssumption
  <2>2. q.error = "413"
    <3> HIDE DEF after
    <3> QED BY <1>7, <1>8 DEF Responses
  <2>3. Turn(o, q, end)
    BY <2>1, <2>2 DEF Turn, Refused
  <2> QED BY <2>2, <2>3 DEF q
<1>9. CASE ~(Len(after) > MaxBody)
  <2>1. /\ q.state = "BODY" /\ q.error = "none" /\ q.page = after /\ q.chunk = <<>>
        /\ q.waiting = TRUE
    <3> HIDE DEF after
    <3> QED BY <1>3, <1>7, <1>9 DEF Responses
  <2>2. InBody(o, q, end)
    <3>1. end >= H
      BY <1>1, <1>3
    <3> QED BY <2>1, <3>1 DEF InBody, H
  <2>3. end - Len(<<>>) = end /\ SubSeq(E, end + 1, end) = <<>> /\ end \in 0 .. end
    <3>1. Len(<<>>) = 0
      OBVIOUS
    <3>2. SubSeq(E, end + 1, end) = <<>>
      BY <1>1, SubSeqEmpty
    <3> QED BY <3>1, <3>2
  <2>4. Turn(o, q, end)
    BY <2>1, <2>2, <2>3 DEF Turn, E
  <2> QED BY <2>1, <2>4 DEF q
<1> QED
  BY <1>8, <1>9

Active(r) == ~r.waiting /\ r.error = "none" /\ r.state # "DONE"

LEMMA TurnStep ==
  ASSUME NEW o \in OutputType, o.newline = CrLf, NEW r \in Responses,
         NEW end \in 0 .. Len(Encode(o)), MayEnd(o, end), Turn(o, r, end)
  PROVE  LET q == AddOnce(r)
         IN Turn(o, q, end) /\ (Active(q) => Active(r) /\ Len(q.chunk) < Len(r.chunk))
<1> DEFINE q == AddOnce(r)
           k == end - Len(r.chunk)
<1>1. CASE ~Active(r)
  <2>1. q = r
    BY <1>1 DEF Active, AddOnce
  <2> QED BY <1>1, <2>1
<1>2. CASE Active(r) /\ r.chunk = <<>>
  <2>1. q = [r EXCEPT !.state = "DONE"]
    BY <1>2 DEF Active, AddOnce
  <2>2. q.state = "DONE" /\ q.chunk = <<>> /\ q.error = "none" /\ q.page = r.page
    BY <2>1, <1>2 DEF Active, Responses
  <2>3. end = Len(Encode(o)) /\ k = end /\ (InHeaders(o, r, end) \/ InBody(o, r, end))
    <3>1. Len(r.chunk) = 0
      BY <1>2
    <3>2. k = end
      BY <3>1
    <3> HIDE DEF k
    <3> QED BY <1>2, <3>2 DEF Active, Turn, Refused, Finished, k
  <2>4. ~InHeaders(o, r, end)
    <3>1. /\ Len(Encode(o)) = 3 * o.lines + 2 + Len(o.page)
          /\ o.lines \in Nat /\ Len(o.page) \in Nat
      BY EncodeElements DEF HeadLength, OutputType
    <3> QED BY <2>3, <3>1 DEF InHeaders
  <2>5. r.page = o.page
    <3>1. /\ o.page \in Seq(Tokens) /\ Len(o.page) \in Nat /\ HeadLength(o) \in Nat
          /\ Len(Encode(o)) = HeadLength(o) + Len(o.page)
      BY EncodeElements DEF HeadLength, OutputType
    <3>2. r.page = SubSeq(o.page, 1, end - HeadLength(o))
      BY <2>3, <2>4 DEF InBody
    <3>3. end - HeadLength(o) = Len(o.page)
      BY <2>3, <3>1
    <3> QED BY <3>1, <3>2, <3>3, SubSeqFull
  <2>6. Finished(o, q, end)
    BY <2>2, <2>3, <2>5 DEF Finished
  <2>7. Turn(o, q, end)
    BY <2>2, <2>6 DEF Turn
  <2> QED BY <2>2, <2>7 DEF Active
<1>3. CASE Active(r) /\ r.chunk # <<>>
  <2>1. /\ k \in 0 .. end /\ r.chunk = SubSeq(Encode(o), k + 1, end)
        /\ InHeaders(o, r, k) \/ InBody(o, r, k)
    BY <1>3 DEF Turn, Active, Refused, Finished
  <2> HIDE DEF k
  <2>2. CASE InHeaders(o, r, k)
    <3>1. q = ParseCGIHeaderLine(r)
      BY <1>3, <2>2 DEF Active, AddOnce, InHeaders
    <3>2. Turn(o, q, end) /\ (~q.waiting => Len(q.chunk) < Len(r.chunk))
      BY <1>3, <2>1, <2>2, <3>1, HeaderTurn DEF Active
    <3> QED BY <1>3, <3>2 DEF Active
  <2>3. CASE InBody(o, r, k)
    <3>0. end \in Nat /\ end <= Len(Encode(o)) /\ k \in Nat /\ k <= end
      BY <2>1, EncodeType
    <3>1. q = AssembleCGIBody(r)
      BY <1>3, <2>3 DEF Active, AddOnce, InBody
    <3>2. Turn(o, q, end) /\ (q.waiting \/ q.error # "none")
      BY <2>1, <2>3, <3>1, <3>0, BodyTurn
    <3> QED BY <3>2 DEF Active
  <2> QED BY <2>1, <2>2, <2>3
<1> QED
  BY <1>1, <1>2, <1>3

\* A piece is parsed to its end.
LEMMA ParsesPiece ==
  ASSUME NEW o \in OutputType, o.newline = CrLf, NEW r \in ResponseType,
         NEW end \in Nat, end <= Len(Encode(o)), MayEnd(o, end), NEW k \in Nat, k <= end,
         HasParsed(o, r, k), k < end \/ end = Len(Encode(o))
  PROVE  HasParsed(o, AddCGIChunk(r, SubSeq(Encode(o), k + 1, end)), end)
<1> DEFINE piece == SubSeq(Encode(o), k + 1, end)
           start == [r EXCEPT !.chunk = piece]
           X == {x \in Nat \X Responses :
                   Turn(o, x[2], end) /\ (Active(x[2]) => Len(x[2].chunk) + x[1] <= end - k)}
<1>1. Encode(o) \in Seq(Tokens) /\ end \in 0 .. Len(Encode(o)) /\ k \in 0 .. end
  BY EncodeType
<1>2. piece \in Seq(Tokens) /\ Len(piece) = end - k
  BY <1>1, Piece
<1>3. r \in Responses
  BY FreshType
<1> HIDE DEF piece
<1>4. start \in Responses /\ start.chunk = piece
  BY <1>2, <1>3 DEF Responses
<1>5. /\ start.state = r.state /\ start.error = r.error /\ start.page = r.page
      /\ start.unparsed = r.unparsed /\ ~start.waiting
  BY <1>3 DEF Responses, ResponseType
<1> HIDE DEF start
<1>6. Turn(o, start, end)
  <2>1. CASE Refused(o, r)
    BY <2>1, <1>5 DEF Refused, Turn
  <2>2. CASE Finished(o, r, k)
    <3>1. end = k /\ Len(piece) = 0
      BY <2>2, <1>1, <1>2 DEF Finished
    <3>2. piece = <<>>
      BY <1>2, <3>1, EmptySeq
    <3> QED BY <2>2, <3>1, <3>2, <1>4, <1>5 DEF Finished, Turn
  <2>3. CASE InHeaders(o, r, k) \/ InBody(o, r, k)
    <3>1. end - Len(start.chunk) = k
      BY <1>2, <1>4
    <3>2. InHeaders(o, start, k) \/ InBody(o, start, k)
      BY <2>3, <1>5 DEF InHeaders, InBody
    <3>3. piece = <<>> => end = Len(Encode(o))
      BY <1>2, EmptySeq
    <3>4. k \in 0 .. end /\ piece = SubSeq(Encode(o), k + 1, end)
      BY DEF piece
    <3> QED BY <3>1, <3>2, <3>3, <3>4, <1>4, <1>5 DEF Turn
  <2> QED BY <2>1, <2>2, <2>3 DEF HasParsed
<1>7. <<0, start>> \in X
  BY <1>2, <1>4, <1>6
<1>8. ASSUME NEW n \in Nat, NEW s \in Responses, <<n, s>> \in X
      PROVE  <<n + 1, AddOnce(s)>> \in X
  <2>1. Turn(o, s, end) /\ (Active(s) => Len(s.chunk) + n <= end - k)
    BY <1>8
  <2> DEFINE q == AddOnce(s)
  <2>2. Turn(o, q, end) /\ (Active(q) => Active(s) /\ Len(q.chunk) < Len(s.chunk))
    BY <1>1, <2>1, TurnStep
  <2>3. q \in Responses
    BY AddOnceType
  <2> HIDE DEF q
  <2>4. Len(q.chunk) \in Nat /\ Len(s.chunk) \in Nat
    BY <2>3 DEF Responses
  <2>5. ASSUME Active(q) PROVE Len(q.chunk) + (n + 1) <= end - k
    <3>1. Len(q.chunk) < Len(s.chunk) /\ Len(s.chunk) + n <= end - k
      BY <2>1, <2>2, <2>5
    <3> QED BY <3>1, <2>4, Places
  <2>6. <<n + 1, q>> \in Nat \X Responses /\ <<n + 1, q>>[1] = n + 1 /\ <<n + 1, q>>[2] = q
    BY <2>3
  <2>7. <<n + 1, q>> \in X
    BY <2>2, <2>5, <2>6
  <2> QED BY <2>7 DEF q
<1> HIDE DEF X
<1>9. PICK s \in Responses :
        /\ <<Len(piece) + 2, s>> \in X
        /\ AddCGIChunk(r, piece) = [s EXCEPT !.chunk = <<>>, !.waiting = FALSE]
  BY <1>2, <1>3, <1>7, <1>8, AddCGIChunkTurns DEF start
<1> DEFINE q == AddCGIChunk(r, piece)
<1>10. Turn(o, s, end) /\ (Active(s) => Len(s.chunk) + (end - k + 2) <= end - k)
  BY <1>2, <1>9 DEF X
<1>11. ~Active(s)
  <2> SUFFICES ASSUME Active(s) PROVE FALSE
    OBVIOUS
  <2>1. Len(s.chunk) \in Nat
    BY DEF Responses
  <2>2. Len(s.chunk) + (end - k + 2) <= end - k
    BY <1>10
  <2> QED BY <2>1, <2>2, Places
<1>12. /\ q.state = s.state /\ q.error = s.error /\ q.page = s.page /\ q.unparsed = s.unparsed
  BY <1>9 DEF Responses
<1> HIDE DEF q
<1>13. Refused(o, s) \/ Finished(o, s, end) \/ InHeaders(o, s, end) \/ InBody(o, s, end)
  <2>1. CASE Refused(o, s) \/ Finished(o, s, end)
    BY <2>1
  <2>2. CASE ~Refused(o, s) /\ ~Finished(o, s, end)
    <3> DEFINE k2 == end - Len(s.chunk)
    <3>1. (InHeaders(o, s, k2) \/ InBody(o, s, k2)) /\ (s.waiting => s.chunk = <<>>)
      BY <2>2, <1>10 DEF Turn
    <3>2. s.waiting
      BY <3>1, <1>11 DEF Active, InHeaders, InBody
    <3>3. Len(s.chunk) = 0
      BY <3>1, <3>2
    <3>4. k2 = end
      BY <3>3
    <3> HIDE DEF k2
    <3> QED BY <3>1, <3>4
  <2> QED BY <2>1, <2>2
<1>14. HasParsed(o, q, end)
  BY <1>12, <1>13 DEF HasParsed, Refused, Finished, InHeaders, InBody
<1> QED
  BY <1>14 DEF q, piece

-----------------------------------------------------------------------------
(* Type correctness                                                        *)

Bounded(r) == r.error = "none" => Len(r.page) <= MaxBody

LEMMA AddOnceBounded ==
  ASSUME NEW r \in Responses, Bounded(r)
  PROVE  Bounded(AddOnce(r))
<1>1. Bounded(ParseCGIHeaderLine(r))
  BY DEF ParseCGIHeaderLine, Bounded, Responses
<1>2. Bounded(AssembleCGIBody(r))
  <2> DEFINE s == [r EXCEPT !.page = @ \o r.chunk, !.chunk = <<>>]
  <2>1. AssembleCGIBody(r) = IF Len(s.page) > MaxBody THEN [s EXCEPT !.error = "413"]
                             ELSE [s EXCEPT !.waiting = TRUE]
    BY DEF AssembleCGIBody
  <2>2. s \in Responses
    <3>1. r.page \o r.chunk \in Seq(Tokens) /\ <<>> \in Seq(Tokens)
      BY DEF Responses
    <3> QED BY <3>1 DEF Responses
  <2>3. Len(s.page) \in Nat
    BY <2>2 DEF Responses
  <2> HIDE DEF s
  <2>4. CASE Len(s.page) > MaxBody
    BY <2>1, <2>2, <2>4 DEF Bounded, Responses
  <2>5. CASE ~(Len(s.page) > MaxBody)
    <3>1. AssembleCGIBody(r).page = s.page
      BY <2>1, <2>2, <2>5 DEF Responses
    <3> QED BY <2>3, <2>5, <3>1, MaxPageAssumption DEF Bounded
  <2> QED BY <2>4, <2>5
<1>3. Bounded([r EXCEPT !.state = "DONE"])
  BY DEF Bounded, Responses
<1> QED
  BY <1>1, <1>2, <1>3 DEF AddOnce, Responses, ParsingStates

LEMMA AddCGIChunkType ==
  ASSUME NEW r \in ResponseType, Bounded(r), NEW piece \in Seq(Tokens)
  PROVE  AddCGIChunk(r, piece) \in ResponseType /\ Bounded(AddCGIChunk(r, piece))
<1> DEFINE start == [r EXCEPT !.chunk = piece]
           X == {x \in Nat \X Responses : Bounded(x[2])}
<1>1. r \in Responses
  BY FreshType
<1>2. start \in Responses /\ Bounded(start)
  BY <1>1 DEF Responses, Bounded
<1>3. <<0, start>> \in X
  <2> HIDE DEF start
  <2> QED BY <1>2
<1>4. ASSUME NEW n \in Nat, NEW s \in Responses, <<n, s>> \in X
      PROVE  <<n + 1, AddOnce(s)>> \in X
  BY <1>4, AddOnceType, AddOnceBounded
<1> HIDE DEF X
<1>5. PICK s \in Responses :
        /\ <<Len(piece) + 2, s>> \in X
        /\ AddCGIChunk(r, piece) = [s EXCEPT !.chunk = <<>>, !.waiting = FALSE]
  BY <1>1, <1>3, <1>4, AddCGIChunkTurns
<1>6. Bounded(s)
  BY <1>5 DEF X
<1> QED
  BY <1>5, <1>6 DEF Responses, ResponseType, Bounded

TypeInv ==
  /\ output \in Outputs
  /\ pipe \in Seq(Tokens)
  /\ response \in ResponseType /\ Bounded(response)
  /\ reading \in {"pipe", "answered"}

LEMMA FreshBounded == Fresh \in ResponseType /\ Bounded(Fresh)
<1>1. Len(Fresh.page) <= MaxBody
  BY MaxPageAssumption DEF Fresh
<1> QED
  BY <1>1, FreshType DEF Bounded

LEMMA OutputsType == Outputs \subseteq OutputType
BY OutputsAssumption DEF OutputType

LEMMA InitTypeInv == Init => TypeInv
BY EncodeType, OutputsType, FreshBounded DEF Init, TypeInv

LEMMA NextTypeInv ==
  ASSUME TypeInv, [Next]_vars
  PROVE  TypeInv'
<1>1. CASE Read
  <2>1. PICK n \in 1 .. Len(pipe) :
          /\ response' = AddCGIChunk(response, SubSeq(pipe, 1, n))
          /\ pipe' = SubSeq(pipe, n + 1, Len(pipe))
    BY <1>1 DEF Read, ReadCGIChunk
  <2>2. pipe \in Seq(Tokens) /\ Len(pipe) \in Nat
    BY DEF TypeInv
  <2>3. SubSeq(pipe, 1, n) \in Seq(Tokens) /\ SubSeq(pipe, n + 1, Len(pipe)) \in Seq(Tokens)
    <3>1. \A i \in 1 .. Len(pipe) : pipe[i] \in Tokens
      BY <2>2, ElementOfSeq
    <3>2. (\A i \in 1 .. n : pipe[i] \in Tokens) /\ \A i \in n + 1 .. Len(pipe) : pipe[i] \in Tokens
      BY <2>2, <3>1
    <3> QED BY <2>2, <3>2, SubSeqProperties
  <2>4. response' \in ResponseType /\ Bounded(response)'
    <3>1. LET q == AddCGIChunk(response, SubSeq(pipe, 1, n))
          IN q \in ResponseType /\ Bounded(q)
      BY <2>3, AddCGIChunkType DEF TypeInv
    <3> QED BY <2>1, <3>1 DEF Bounded
  <2> QED BY <1>1, <2>1, <2>3, <2>4 DEF Read, TypeInv
<1>2. CASE EndOfFile
  <2>1. LET q == AddCGIChunk(response, <<>>) IN q \in ResponseType /\ Bounded(q)
    <3>1. <<>> \in Seq(Tokens)
      OBVIOUS
    <3> QED BY <3>1, AddCGIChunkType DEF TypeInv
  <2>2. response' \in ResponseType /\ Bounded(response)'
    BY <1>2, <2>1 DEF EndOfFile, Bounded
  <2> QED BY <1>2, <2>2 DEF EndOfFile, TypeInv
<1>3. CASE TimeoutCgi
  <2>1. response' \in ResponseType /\ response'.error # "none"
    BY <1>3, FreshType DEF TimeoutCgi, TypeInv, ResponseType
  <2>2. Bounded(response)'
    BY <2>1 DEF Bounded
  <2> QED BY <1>3, <2>1, <2>2 DEF TimeoutCgi, TypeInv
<1>4. CASE NextScript
  <2>1. output' \in Outputs /\ pipe' = Encode(output')
    BY <1>4 DEF NextScript
  <2>2. pipe' \in Seq(Tokens)
    BY <2>1, EncodeType, OutputsType
  <2>3. response' \in ResponseType /\ Bounded(response)'
    BY <1>4, FreshBounded DEF NextScript, Bounded
  <2> QED BY <1>4, <2>1, <2>2, <2>3 DEF NextScript, TypeInv
<1>5. CASE UNCHANGED vars
  BY <1>5 DEF vars, TypeInv, Bounded
<1> QED
  BY <1>1, <1>2, <1>3, <1>4, <1>5 DEF Next

THEOREM TypesInvariant == Spec => []TypeInv
<1>1. TypeInv /\ [Next]_vars => TypeInv'
  BY NextTypeInv
<1> QED
  BY <1>1, InitTypeInv, PTL DEF Spec

\* The fields keep their types, and a page over the limit is never sent.
THEOREM TypeCorrect == Spec => []TypeOK
<1>1. TypeInv => TypeOK
  BY DEF TypeInv, TypeOK, ResponseType, Bounded
<1> QED
  BY <1>1, TypesInvariant, PTL

-----------------------------------------------------------------------------
(* The page that is served                                                 *)

\* No read ends where a header line does, or between CR and LF.
ReadsEndWithinLines == CutCrLf = FALSE /\ CutLine = FALSE

\* The pipe holds what follows the bytes that the Response has parsed.
InStep(o, r, p) ==
  \E k \in 0 .. Len(Encode(o)) :
    p = SubSeq(Encode(o), k + 1, Len(Encode(o))) /\ HasParsed(o, r, k)

IInv ==
  /\ TypeInv
  /\ reading = "pipe" /\ output.newline = CrLf => InStep(output, response, pipe)
  /\ PageIsServed

LEMMA StartsInStep ==
  ASSUME NEW o \in OutputType, o.newline = CrLf
  PROVE  InStep(o, Fresh, Encode(o))
<1>1. Encode(o) \in Seq(Tokens) /\ Len(Encode(o)) \in Nat
  BY EncodeType
<1>2. Encode(o) = SubSeq(Encode(o), 0 + 1, Len(Encode(o)))
  BY <1>1, SubSeqFull
<1>3. InHeaders(o, Fresh, 0)
  BY DEF InHeaders, Fresh, OutputType
<1> QED
  BY <1>1, <1>2, <1>3 DEF InStep, HasParsed

LEMMA ReadMayEnd ==
  ASSUME NEW o \in OutputType, o.newline = CrLf,
         NEW end \in Nat, end > 0, end <= Len(Encode(o)),
         end = Len(Encode(o)) \/ ~(Encode(o)[end] = "CR" /\ Encode(o)[end + 1] = "LF"),
         end = Len(Encode(o)) \/ ~(end <= HeadLength(o) /\ Encode(o)[end] = "LF")
  PROVE  MayEnd(o, end)
<1> DEFINE E == Encode(o)
           L == o.lines
           j == (end - 1) \div 3
<1>1. L \in Nat /\ Len(E) \in Nat /\ HeadLength(o) = 3 * L + 2
  BY EncodeType DEF OutputType, HeadLength
<1>2. /\ \A i \in Nat : i < L => E[3 * i + 2] = "CR" /\ E[3 * i + 3] = "LF"
      /\ E[3 * L + 1] = "CR" /\ E[3 * L + 2] = "LF"
  BY EncodeElements
<1>3. j \in Nat /\ (end = 3 * j + 1 \/ end = 3 * j + 2 \/ end = 3 * j + 3)
  OBVIOUS
<1> HIDE DEF E, L, j
<1>4. SUFFICES ASSUME end # Len(E), end <= 3 * L + 2 PROVE j < L /\ end = 3 * j + 1
  BY <1>1, <1>3 DEF MayEnd, E, L
<1>5. ~(E[end] = "CR" /\ E[end + 1] = "LF") /\ E[end] # "LF"
  BY <1>1, <1>4 DEF E
<1>6. j < L \/ (j = L /\ end \in {3 * L + 1, 3 * L + 2})
  BY <1>1, <1>3, <1>4
<1>7. end # 3 * L + 1 /\ end # 3 * L + 2
  <2>1. (3 * L + 1) + 1 = 3 * L + 2
    BY <1>1
  <2> QED BY <2>1, <1>2, <1>5
<1>8. j < L => end # 3 * j + 2 /\ end # 3 * j + 3
  <2>1. (3 * j + 2) + 1 = 3 * j + 3
    BY <1>3
  <2> QED BY <2>1, <1>2, <1>3, <1>5
<1> QED
  BY <1>3, <1>6, <1>7, <1>8

\* At the end of the output, what has been parsed is the page.
LEMMA ParsedWhole ==
  ASSUME NEW o \in OutputType, o.newline = CrLf, NEW r \in ResponseType,
         HasParsed(o, r, Len(Encode(o)))
  PROVE  /\ r.error = "none" => r.page = o.page
         /\ r.error = "413" => Len(o.page) > MaxBody
<1>1. /\ o.page \in Seq(Tokens) /\ Len(o.page) \in Nat /\ o.lines \in Nat
      /\ HeadLength(o) \in Nat /\ HeadLength(o) = 3 * o.lines + 2
      /\ Len(Encode(o)) = HeadLength(o) + Len(o.page)
  BY EncodeElements DEF HeadLength, OutputType
<1>2. ~InHeaders(o, r, Len(Encode(o)))
  BY <1>1 DEF InHeaders
<1>3. CASE InBody(o, r, Len(Encode(o)))
  <2>1. Len(Encode(o)) - HeadLength(o) = Len(o.page)
    BY <1>1
  <2> QED BY <1>1, <1>3, <2>1, SubSeqFull DEF InBody
<1> QED
  BY <1>2, <1>3 DEF HasParsed, Refused, Finished

LEMMA NextIInv ==
  ASSUME ReadsEndWithinLines, IInv, TypeInv', [Next]_vars
  PROVE  IInv'
<1> DEFINE E == Encode(output)
<1>1. CASE Read
  <2>1. reading' = reading /\ reading = "pipe" /\ output' = output
    BY <1>1 DEF Read
  <2>2. ASSUME output.newline = CrLf PROVE InStep(output, response', pipe')
    <3>1. PICK n \in 1 .. Len(pipe) :
            /\ n = Len(pipe) \/ ~(pipe[n] = "CR" /\ pipe[n + 1] = "LF")
            /\ ~EndsLine(n) \/ n = Len(pipe)
            /\ response' = AddCGIChunk(response, SubSeq(pipe, 1, n))
            /\ pipe' = SubSeq(pipe, n + 1, Len(pipe))
      BY <1>1 DEF Read, ReadCGIChunk, ReadsEndWithinLines
    <3>2. PICK k \in 0 .. Len(E) : pipe = SubSeq(E, k + 1, Len(E)) /\ HasParsed(output, response, k)
      BY <2>1, <2>2 DEF IInv, InStep
    <3>3. /\ output \in OutputType /\ E \in Seq(Tokens) /\ Len(E) \in Nat /\ k \in Nat
          /\ response \in ResponseType
      BY OutputsType, EncodeType DEF IInv, TypeInv
    <3>4. /\ Len(pipe) = Len(E) - k /\ \A i \in 1 .. Len(E) - k : pipe[i] = E[k + i]
          /\ SubSeq(pipe, n + 1, Len(pipe)) = SubSeq(E, k + n + 1, Len(E))
      <4> HIDE DEF E
      <4>1. Len(E) \in 0 .. Len(E) /\ k \in 0 .. Len(E)
        BY <3>3
      <4>2. Len(pipe) = Len(E) - k /\ \A i \in 1 .. Len(E) - k : pipe[i] = E[k + i]
        BY <3>2, <3>3, <4>1, Piece
      <4>3. n \in 0 .. Len(E) - k
        BY <4>2
      <4> QED BY <3>2, <3>3, <4>1, <4>2, <4>3, Piece
    <3> DEFINE end == k + n
    <3> HIDE DEF E
    <3>5. /\ end \in Nat /\ k < end /\ k <= end /\ end > 0 /\ end <= Len(E)
          /\ (n = Len(pipe) <=> end = Len(E))
      BY <3>3, <3>4
    <3>6. SubSeq(pipe, 1, n) = SubSeq(E, k + 1, end)
      <4>1. /\ k + 1 \in 1 .. Len(E) /\ Len(E) \in 1 .. Len(E)
            /\ 1 \in 1 .. Len(E) - (k + 1) + 1 /\ n \in 1 .. Len(E) - (k + 1) + 1
            /\ (k + 1) + 1 - 1 = k + 1 /\ (k + 1) + n - 1 = end
        BY <3>3, <3>4, <3>5
      <4>2. SubSeq(SubSeq(E, k + 1, Len(E)), 1, n) = SubSeq(E, (k + 1) + 1 - 1, (k + 1) + n - 1)
        BY <3>3, <4>1, SubSeqOfSubSeq
      <4> QED BY <3>2, <4>1, <4>2
    <3>7. MayEnd(output, end)
      <4>1. pipe[n] = E[end] /\ (n # Len(pipe) => pipe[n + 1] = E[end + 1])
        <5>1. n \in 1 .. Len(E) - k
          BY <3>4
        <5>2. n # Len(pipe) => n + 1 \in 1 .. Len(E) - k /\ k + (n + 1) = end + 1
          <6> SUFFICES ASSUME n # Len(pipe)
                       PROVE  n + 1 \in 1 .. Len(E) - k /\ k + (n + 1) = (k + n) + 1
            OBVIOUS
          <6>1. n \in Nat /\ n >= 1 /\ n <= Len(E) - k /\ n # Len(E) - k
            BY <5>1, <3>3, <3>4
          <6> QED BY <6>1, <3>3
        <5> QED BY <5>1, <5>2, <3>4
      <4>2. EndsLine(n) <=> end <= HeadLength(output) /\ E[end] = "LF"
        <5>1. Len(E) - Len(pipe) + n = end /\ n > 0
          BY <3>3, <3>4
        <5>2. Len(E) - Len(output.page) = HeadLength(output)
          <6>1. /\ Len(output.page) \in Nat /\ HeadLength(output) \in Nat
                /\ Len(E) = HeadLength(output) + Len(output.page)
            BY <2>2, <3>3, EncodeElements DEF E, HeadLength, OutputType
          <6> QED BY <6>1
        <5> QED BY <4>1, <5>1, <5>2 DEF EndsLine, E
      <4> QED BY <2>2, <3>1, <3>3, <3>5, <4>1, <4>2, ReadMayEnd DEF E
    <3>8. HasParsed(output, response', end)
      BY <2>2, <3>1, <3>2, <3>3, <3>5, <3>6, <3>7, ParsesPiece DEF E
    <3>9. end \in 0 .. Len(E) /\ pipe' = SubSeq(E, end + 1, Len(E))
      BY <3>1, <3>3, <3>4, <3>5
    <3> QED BY <3>8, <3>9 DEF InStep, E
  <2>3. PageIsServed'
    BY <2>1 DEF PageIsServed
  <2> QED BY <2>1, <2>2, <2>3 DEF IInv
<1>2. CASE EndOfFile
  <2>1. reading' = "answered" /\ reading = "pipe" /\ output' = output /\ pipe = <<>>
        /\ response' = AddCGIChunk(response, <<>>)
    BY <1>2 DEF EndOfFile
  <2>2. ASSUME output.newline = CrLf
        PROVE  /\ response'.error = "none" => response'.page = output.page
               /\ response'.error = "413" => Len(output.page) > MaxBody
    <3>1. PICK k \in 0 .. Len(E) : pipe = SubSeq(E, k + 1, Len(E)) /\ HasParsed(output, response, k)
      BY <2>1, <2>2 DEF IInv, InStep
    <3>2. /\ output \in OutputType /\ E \in Seq(Tokens) /\ Len(E) \in Nat
          /\ response \in ResponseType /\ response' \in ResponseType
      BY OutputsType, EncodeType DEF IInv, TypeInv
    <3> HIDE DEF E
    <3>3. Len(pipe) = Len(E) - k
      <4>1. Len(E) \in 0 .. Len(E)
        BY <3>2
      <4> QED BY <3>1, <3>2, <4>1, Piece
    <3>4. Len(E) = k
      <4>1. Len(pipe) = 0
        BY <2>1
      <4> QED BY <3>2, <3>3, <4>1
    <3>5. HasParsed(output, response', Len(E))
      <4>1. MayEnd(output, Len(E)) /\ Len(E) <= Len(E)
        BY <3>2 DEF MayEnd, E
      <4>2. HasParsed(output, AddCGIChunk(response, SubSeq(E, Len(E) + 1, Len(E))), Len(E))
        BY <2>2, <3>1, <3>2, <3>4, <4>1, ParsesPiece DEF E
      <4>3. SubSeq(E, Len(E) + 1, Len(E)) = <<>>
        BY <2>1, <3>1, <3>4
      <4> QED BY <2>1, <4>2, <4>3
    <3> QED BY <2>2, <3>2, <3>5, ParsedWhole DEF E
  <2>3. PageIsServed'
    BY <2>1, <2>2 DEF PageIsServed
  <2> QED BY <2>1, <2>3 DEF IInv
<1>3. CASE TimeoutCgi
  <2>1. reading = "pipe" /\ reading' = "answered" /\ output' = output
    BY <1>3 DEF TimeoutCgi
  <2>2. response'.error = IF response.error = "none" THEN "502" ELSE response.error
    BY <1>3 DEF TimeoutCgi, Fresh
  <2>3. response.error = "413" /\ output.newline = CrLf => Len(output.page) > MaxBody
    BY <2>1 DEF IInv, InStep, HasParsed, InHeaders, InBody, Refused, Finished
  <2>4. response'.error # "none"
    BY <2>2
  <2>5. PageIsServed'
    BY <2>1, <2>2, <2>3, <2>4 DEF PageIsServed
  <2> QED BY <2>1, <2>5 DEF IInv
<1>4. CASE NextScript
  <2>1. reading' = "pipe" /\ response' = Fresh /\ pipe' = Encode(output')
    BY <1>4 DEF NextScript
  <2>2. output' \in OutputType
    BY OutputsType DEF TypeInv
  <2>3. output'.newline = CrLf => InStep(output', response', pipe')
    BY <2>1, <2>2, StartsInStep
  <2>4. PageIsServed'
    BY <2>1 DEF PageIsServed
  <2> QED BY <2>1, <2>3, <2>4 DEF IInv
<1>5. CASE UNCHANGED vars
  BY <1>5 DEF vars, IInv, InStep, PageIsServed
<1> QED
  BY <1>1, <1>2, <1>3, <1>4, <1>5 DEF Next

LEMMA InitIInv ==
  ASSUME Init
  PROVE  IInv
<1>1. TypeInv
  BY InitTypeInv
<1>2. output.newline = CrLf => InStep(output, response, pipe)
  BY <1>1, OutputsType, StartsInStep DEF Init, TypeInv
<1>3. PageIsServed
  BY DEF Init, PageIsServed
<1> QED
  BY <1>1, <1>2, <1>3 DEF IInv

\* If no read ends between CR and LF or where a header line ends, the page that is
\* answered is the page that the script wrote, whole, unless it is over the limit (413)
\* or the script was given up (502).
THEOREM PagesAreServed ==
  ASSUME ReadsEndWithinLines
  PROVE  Spec => []PageIsServed
<1>1. IInv /\ [Next]_vars => IInv'
  <2>1. IInv /\ [Next]_vars => TypeInv'
    BY NextTypeInv DEF IInv
  <2> QED BY <2>1, NextIInv
<1>2. Init => IInv
  BY InitIInv
<1>3. IInv => PageIsServed
  BY DEF IInv
<1> QED
  BY <1>1, <1>2, <1>3, PTL DEF Spec
=============================================================================
