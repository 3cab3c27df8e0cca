---------------------------- MODULE RequestParser ----------------------------
(***************************************************************************)
(* Request::addRequestChunk: an HTTP request is parsed from whatever       *)
(* pieces recv() returns, and the same Request object is reset and used    *)
(* again on a kept-alive connection.                                       *)
(*                                                                         *)
(* A stream is a sequence of tokens.  A request line and a header line are *)
(* one token each, CR and LF are tokens because a piece may end between    *)
(* them, and in a body every byte is a token; the size of a chunk of a     *)
(* chunked body is one of d0 .. d4, a Content-Length one of the tokens of  *)
(* Lengths.                                                                *)
(***************************************************************************)
EXTENDS Integers, Sequences, Functions

CONSTANTS
  Messages,  \* what clients send: [line, headers, body]
  MaxBody,   \* client_max_body_size of the server
  CutCrLf    \* whether a piece may end between CR and LF

ASSUME MaxBodyAssumption == MaxBody \in Nat
ASSUME CutCrLfAssumption == CutCrLf \in BOOLEAN

VARIABLES
  message,   \* the request being sent
  stream,    \* the tokens still to be received
  parser,    \* the Request object
  clean      \* whether the connection carried whole requests only so far
vars == <<message, stream, parser, clean>>

-----------------------------------------------------------------------------
(* Messages on the wire                                                    *)

CrLf == <<"CR", "LF">>
RequestLines == {"GET", "POST", "PUT", "OLD"}   \* OLD: a GET of HTTP/1.0
Lengths == [len1 |-> 1, len2 |-> 2, len4 |-> 4, len9 |-> 9]
ChunkSizes == [d0 |-> 0, d1 |-> 1, d2 |-> 2, d3 |-> 3, d4 |-> 4]
HeaderLines == {"type", "keep", "chunked", "other"} \cup DOMAIN Lengths
Tokens == RequestLines \cup HeaderLines \cup DOMAIN ChunkSizes \cup {"CR", "LF", "x", "y"}

\* A line takes three tokens, itself and its CR LF.
Encode(m) ==
  LET lines == <<m.line>> \o m.headers
      head == [i \in 1 .. 3 * Len(lines) |->
                 CASE i % 3 = 1 -> lines[(i + 2) \div 3]
                   [] i % 3 = 2 -> "CR"
                   [] i % 3 = 0 -> "LF"]
  IN head \o CrLf \o m.body

Has(m, h) == h \in Range(m.headers)
LengthOf(m) ==
  LET given == Range(m.headers) \cap DOMAIN Lengths
  IN IF given = {} THEN 0 ELSE Lengths[CHOOSE h \in given : TRUE]

\* A body that is not chunked has the one length that is announced.
MessageType == [line : RequestLines, headers : Seq(HeaderLines), body : Seq(Tokens)]
WellFormed(m) ==
  /\ \A g, h \in Range(m.headers) \cap DOMAIN Lengths : g = h
  /\ Len(m.body) = LengthOf(m)
ASSUME MessagesAssumption ==
  \A m \in Messages : m \in MessageType /\ (Has(m, "chunked") \/ WellFormed(m))

-----------------------------------------------------------------------------
(* The Request object                                                      *)

States == {"EMPTY", "REQUEST_LINE", "HEADERS", "BODY", "DONE"}
Methods == {"GET", "POST", "UNSUPPORTED"}
Errors == {"none", "400", "405", "413", "415", "505"}

\* chunk is the argument of addRequestChunk(), waiting its WAITING_FOR_MORE.
Fresh ==
  [state |-> "EMPTY", unparsed |-> <<>>, method |-> "UNSUPPORTED", error |-> "none",
   length |-> 0, typed |-> FALSE, chunkedHeader |-> FALSE, isChunked |-> FALSE,
   keepAlive |-> FALSE, body |-> <<>>, chunk |-> <<>>, waiting |-> FALSE]

\* Mutant: the body buffer is not cleared.
ResetKeepsBody(p) == [Fresh EXCEPT !.body = p.body]
Reset(p) == Fresh

\* Status::setStatusCode: the first error stays.
SetError(p, code) == IF p.error = "none" THEN [p EXCEPT !.error = code] ELSE p

\* The place of the first CR LF in s, 0 if there is none.
LineEnd(s) ==
  LET ends == {i \in 1 .. Len(s) - 1 : s[i] = "CR" /\ s[i + 1] = "LF"}
  IN IF ends = {} THEN 0 ELSE CHOOSE i \in ends : \A j \in ends : i <= j

\* The places of a line that trim() and the line ends inside a value leave.
Words(line) == {i \in DOMAIN line : line[i] \notin {"CR", "LF"}}
FirstWord(line) ==
  IF Words(line) = {} THEN "other"
  ELSE line[CHOOSE i \in Words(line) : \A j \in Words(line) : i <= j]
IsOneWord(line) == \E i \in DOMAIN line : Words(line) = {i}

\* A line of several tokens has more than three words.
SetRequestLine(p, line) ==
  LET word == FirstWord(line)
  IN IF ~IsOneWord(line) \/ word \notin RequestLines THEN SetError(p, "400")
     ELSE CASE word = "GET"  -> [p EXCEPT !.method = "GET"]
            [] word = "POST" -> [p EXCEPT !.method = "POST"]
            [] word = "PUT"  -> SetError(p, "405")
            [] word = "OLD"  -> SetError([p EXCEPT !.method = "GET"], "505")

SetContentLength(p, n) ==
  IF n > MaxBody THEN SetError([p EXCEPT !.length = MaxBody], "413")
  ELSE [p EXCEPT !.length = n]

\* A line that holds more than one header is taken for the first one, its value
\* running on over the others.
AddAsHeaderVar(p, line) ==
  LET key == FirstWord(line)
  IN CASE key \in DOMAIN Lengths -> SetContentLength(p, Lengths[key])
       [] key = "type"    -> [p EXCEPT !.typed = TRUE]
       [] key = "keep"    -> [p EXCEPT !.keepAlive = IsOneWord(line)]
       [] key = "chunked" -> [p EXCEPT !.chunkedHeader = IsOneWord(line)]
       [] OTHER           -> p

\* The body is parsed even for a POST without Content-Type (no return there).
SetIfAssemblingBody(p) ==
  IF p.method = "GET" \/ p.error # "none" THEN [p EXCEPT !.state = "DONE"]
  ELSE LET q == IF p.typed THEN p ELSE SetError(p, "415")
       IN IF q.chunkedHeader THEN [q EXCEPT !.state = "BODY", !.isChunked = TRUE]
          ELSE IF q.length > 0 THEN [q EXCEPT !.state = "BODY", !.isChunked = FALSE]
          ELSE [q EXCEPT !.state = "DONE"]

KeepForLater(p) ==
  [p EXCEPT !.unparsed = @ \o p.chunk, !.chunk = <<>>, !.waiting = TRUE]
Line(p) == p.unparsed \o SubSeq(p.chunk, 1, LineEnd(p.chunk) - 1)
AfterLine(p) ==
  [p EXCEPT !.unparsed = <<>>, !.chunk = SubSeq(@, LineEnd(@) + 2, Len(@))]

ParseRequestLine(p) ==
  IF LineEnd(p.chunk) = 0 THEN KeepForLater(p)
  ELSE [SetRequestLine(AfterLine(p), Line(p)) EXCEPT !.state = "HEADERS"]

\* Mutant: the leftover of the last piece is prepended to every later line.
ParseHeaderLineKeepsLeftover(p) ==
  IF LineEnd(p.chunk) = 0 THEN KeepForLater(p)
  ELSE LET q == [AfterLine(p) EXCEPT !.unparsed = p.unparsed]
       IN IF Line(p) = <<>> THEN SetIfAssemblingBody(q) ELSE AddAsHeaderVar(q, Line(p))
ParseHeaderLine(p) ==
  IF LineEnd(p.chunk) = 0 THEN KeepForLater(p)
  ELSE IF Line(p) = <<>> THEN SetIfAssemblingBody(AfterLine(p))
  ELSE AddAsHeaderVar(AfterLine(p), Line(p))

Prefix(s, n) == SubSeq(s, 1, IF n < Len(s) THEN n ELSE Len(s))
Remainder(p) == p.length - Len(p.body)
TooLarge(p) == [SetError(p, "413") EXCEPT !.state = "DONE"]

\* The size check adds the size of the buffer to itself; what is left of the
\* piece stays in the chunk, which nobody looks at once parsing is done.
AssembleUnChunkedBody(p) ==
  IF 2 * Len(p.body) > MaxBody THEN TooLarge(p)
  ELSE LET q == [p EXCEPT !.body = @ \o Prefix(p.chunk, Remainder(p)), !.chunk = <<>>]
       IN IF Len(q.body) < q.length THEN [q EXCEPT !.waiting = TRUE]
          ELSE [q EXCEPT !.state = "DONE"]

\* One turn of the loop over the chunks received so far, from p.offset on: two
\* bytes short of the chunk are taken (all the rest for a size of 1), and of
\* these what Content-Length leaves room for.
ReadChunk(all, p, offset) ==
  LET rest == SubSeq(all, offset + 1, Len(all))
      sizeWord == FirstWord(SubSeq(rest, 1, LineEnd(rest) - 1))
      size == IF sizeWord \in DOMAIN ChunkSizes THEN ChunkSizes[sizeWord] ELSE 0
      data == SubSeq(rest, LineEnd(rest) + 2, Len(rest))
      taken == IF size = 1 THEN data ELSE Prefix(data, size - 2)
      next == offset + LineEnd(rest) + 1 + size + 2
  IN CASE LineEnd(rest) = 0 -> [p |-> [p EXCEPT !.waiting = TRUE], offset |-> -1]
       [] LineEnd(rest) > 0 /\ size = 0 ->
            [p |-> [p EXCEPT !.state = "DONE"], offset |-> -1]
       [] size > 0 /\ Len(data) < size ->
            [p |-> [p EXCEPT !.waiting = TRUE], offset |-> -1]
       [] size > 0 /\ Len(data) >= size /\ Len(p.body) + Len(taken) > MaxBody ->
            [p |-> TooLarge(p), offset |-> -1]
       [] OTHER ->
            LET q == [p EXCEPT !.body = @ \o Prefix(taken, Remainder(p))]
            IN IF next >= Len(all) THEN [p |-> [q EXCEPT !.waiting = TRUE], offset |-> -1]
               ELSE [p |-> q, offset |-> next]

\* Every call starts again at the first chunk of the body.
AssembleChunkedBody(p) ==
  LET all == p.unparsed \o p.chunk
      first == [p |-> [p EXCEPT !.unparsed = all, !.chunk = <<>>], offset |-> 0]
      Once(r) == IF r.offset = -1 THEN r ELSE ReadChunk(all, r.p, r.offset)
      turn[n \in Nat] == IF n = 0 THEN first ELSE Once(turn[n - 1])
  IN turn[Len(all) + 1].p

AssembleBody(p) ==
  IF p.isChunked THEN AssembleChunkedBody(p) ELSE AssembleUnChunkedBody(p)

\* One turn of the loop of addRequestChunk().
ParseOnce(p) ==
  CASE p.waiting \/ p.state = "DONE" -> p
    [] ~p.waiting /\ p.state = "REQUEST_LINE" -> ParseRequestLine(p)
    [] ~p.waiting /\ p.state = "HEADERS" -> ParseHeaderLine(p)
    [] ~p.waiting /\ p.state = "BODY" -> AssembleBody(p)

\* Every turn but the last two takes a line from the piece.
AddRequestChunk(p, piece) ==
  LET first == [p EXCEPT !.chunk = piece,
                         !.state = IF @ = "EMPTY" THEN "REQUEST_LINE" ELSE @]
      turn[n \in Nat] == IF n = 0 THEN first ELSE ParseOnce(turn[n - 1])
  IN [turn[Len(piece) + 2] EXCEPT !.chunk = <<>>, !.waiting = FALSE]

-----------------------------------------------------------------------------
(* The connection                                                          *)

Init ==
  /\ message \in Messages
  /\ stream = Encode(message)
  /\ parser = Fresh
  /\ clean = TRUE

\* recv() returns any number of the bytes sent.
Receive ==
  /\ parser.state # "DONE"
  /\ \E n \in 1 .. Len(stream) :
       /\ CutCrLf \/ n = Len(stream) \/ ~(stream[n] = "CR" /\ stream[n + 1] = "LF")
       /\ parser' = AddRequestChunk(parser, SubSeq(stream, 1, n))
       /\ stream' = SubSeq(stream, n + 1, Len(stream))
  /\ UNCHANGED <<message, clean>>

\* closeConnectionOrCleanAndKeepAlive(): the client sends another request once
\* it has its answer, and what it had still to send of the last one comes first.
\* Bound: one request after a body that nobody read.
KeepAlive ==
  /\ parser.state = "DONE" /\ parser.keepAlive /\ clean
  /\ \E m \in Messages : message' = m /\ stream' = stream \o Encode(m)
  /\ parser' = Reset(parser)
  /\ clean' = (stream = <<>>)

\* Without keep-alive the next request comes on a new connection.
Reconnect ==
  /\ parser.state = "DONE" /\ ~parser.keepAlive
  /\ \E m \in Messages : message' = m /\ stream' = Encode(m)
  /\ parser' = Fresh
  /\ clean' = TRUE

Next == Receive \/ KeepAlive \/ Reconnect

Spec == Init /\ [][Next]_vars

-----------------------------------------------------------------------------
(* What a request means, whatever the pieces it came in                    *)

ExpectedError(m) ==
  CASE m.line = "PUT" -> "405"
    [] m.line = "OLD" -> "505"
    [] m.line \in {"GET", "POST"} /\ LengthOf(m) > MaxBody -> "413"
    [] m.line = "POST" /\ LengthOf(m) <= MaxBody /\ ~Has(m, "type") -> "415"
    [] OTHER -> "none"

\* The body by RFC 9112: up to Content-Length, or the data of the chunks.
IsData(t) == t \in {"x", "y"}
ExpectedBody(m) ==
  IF m.line # "POST" THEN <<>>
  ELSE IF Has(m, "chunked") THEN SelectSeq(m.body, IsData)
  ELSE m.body

\* Bodies over half of the limit, which AssembleUnChunkedBody() takes in one piece
\* and may refuse in several.
IsLong(m) == 2 * LengthOf(m) > MaxBody /\ LengthOf(m) <= MaxBody /\ m.line = "POST"
InScope(m) == ~Has(m, "chunked")

\* The types; Content-Length never exceeds the limit, and addRequestChunk()
\* leaves no piece behind that it still has to look at.
TypeOK ==
  /\ message \in Messages
  /\ stream \in Seq(Tokens)
  /\ parser \in
       [state : States, unparsed : Seq(Tokens), method : Methods, error : Errors,
        length : 0 .. MaxBody, typed : BOOLEAN, chunkedHeader : BOOLEAN,
        isChunked : BOOLEAN, keepAlive : BOOLEAN, body : Seq(Tokens),
        chunk : {<<>>}, waiting : {FALSE}]
  /\ clean \in BOOLEAN

\* A parsed request is the one that was sent, on a new connection as after
\* Request::reset(), and in whatever pieces it came: its body is taken whole or not
\* at all, and only one over half of the limit, whose size is checked twice over
\* (Request.cpp:619), may be refused although it is within the limit.
ParsedAsSent ==
  parser.state = "DONE" /\ clean /\ InScope(message) =>
    /\ parser.error \in {ExpectedError(message)}
                         \cup (IF IsLong(message) /\ Has(message, "type") THEN {"413"} ELSE {})
    /\ parser.keepAlive = Has(message, "keep")
    /\ parser.error = "none" => parser.body = ExpectedBody(message)

\* A request that has come in full is parsed to its end: the server does not
\* wait for bytes that nobody will send.
ParsedInFull ==
  stream = <<>> /\ clean /\ InScope(message) => parser.state = "DONE"

\* "Making sure the body has been received in full, whether chunked or with
\* Content-Length" (Request.cpp:541).
BodyReceivedInFull ==
  parser.state = "DONE" /\ clean /\ parser.error = "none" =>
    parser.body = ExpectedBody(message)
=============================================================================
