------------------------------ MODULE CgiOutput ------------------------------
(***************************************************************************)
(* What becomes of the output of a CGI script: readCGIChunk() hands every  *)
(* piece it reads from the pipe to Response::addCGIChunk(), which looks    *)
(* for the end of the script's headers and keeps the rest as the page.     *)
(*                                                                         *)
(* A header line is the token "h", a byte of the page "x"; CR and LF are   *)
(* tokens of their own because a read may end between them.                *)
(***************************************************************************)
EXTENDS Integers, Sequences

CONSTANTS
  Outputs,   \* what scripts write: [lines, newline, page]
  MaxBody,   \* client_max_body_size, which also limits the page
  CutCrLf,   \* whether a read may end between CR and LF
  CutLine    \* whether a read may end where a header line ends

CrLf == <<"CR", "LF">>
Tokens == {"h", "x", "CR", "LF"}

ASSUME OutputsAssumption ==
  Outputs \subseteq [lines : Nat, newline : {CrLf, <<"LF">>}, page : Seq(Tokens)]
ASSUME MaxPageAssumption == MaxBody \in Nat
ASSUME CutsAssumption == CutCrLf \in BOOLEAN /\ CutLine \in BOOLEAN

VARIABLES
  output,    \* what the script writes in all
  pipe,      \* what is still to be read of it
  response,  \* the Response object, its CGI part
  reading    \* Response still fed from the pipe, or how that ended
vars == <<output, pipe, response, reading>>

-----------------------------------------------------------------------------

\* print() ends a line with LF, php-cgi with CR LF.
Encode(o) ==
  LET width == Len(o.newline) + 1
      headers == [i \in 1 .. o.lines * width |->
                    IF (i - 1) % width = 0 THEN "h" ELSE o.newline[(i - 1) % width]]
  IN headers \o o.newline \o o.page

ParsingStates == {"HEADERS", "BODY", "DONE"}

\* chunk is the argument of addCGIChunk(), waiting its WAITING_FOR_MORE, error
\* the code that the client's Status holds.
Fresh ==
  [state |-> "HEADERS", unparsed |-> <<>>, page |-> <<>>, error |-> "none",
   chunk |-> <<>>, waiting |-> FALSE]

LineEnd(s) ==
  LET ends == {i \in 1 .. Len(s) - 1 : s[i] = "CR" /\ s[i + 1] = "LF"}
  IN IF ends = {} THEN 0 ELSE CHOOSE i \in ends : \A j \in ends : i <= j

\* Mutant: only the rest of the piece is looked at for the empty line.
ParseCGIHeaderLineForgetsLeftover(r) ==
  LET end == LineEnd(r.chunk)
      line == SubSeq(r.chunk, 1, end - 1)
  IN IF end = 0
     THEN [r EXCEPT !.unparsed = @ \o r.chunk, !.chunk = <<>>, !.waiting = TRUE]
     ELSE [r EXCEPT !.state = IF line = <<>> THEN "BODY" ELSE @, !.unparsed = <<>>,
                    !.chunk = SubSeq(@, end + 2, Len(@))]
ParseCGIHeaderLine(r) ==
  LET end == LineEnd(r.chunk)
      line == r.unparsed \o SubSeq(r.chunk, 1, end - 1)
  IN IF end = 0
     THEN [r EXCEPT !.unparsed = @ \o r.chunk, !.chunk = <<>>, !.waiting = TRUE]
     ELSE [r EXCEPT !.state = IF line = <<>> THEN "BODY" ELSE @, !.unparsed = <<>>,
                    !.chunk = SubSeq(@, end + 2, Len(@))]

\* The limit of request bodies, checked once the piece has been added.
AssembleCGIBody(r) ==
  LET s == [r EXCEPT !.page = @ \o r.chunk, !.chunk = <<>>]
  IN IF Len(s.page) > MaxBody THEN [s EXCEPT !.error = "413"]
     ELSE [s EXCEPT !.waiting = TRUE]

\* One turn of the loop of addCGIChunk(): an empty chunk is the end of the
\* output, and so is a chunk that a header line has used up.
AddOnce(r) ==
  CASE r.waiting \/ r.error # "none" \/ r.state = "DONE" -> r
    [] ~r.waiting /\ r.error = "none" /\ r.state # "DONE" /\ r.chunk = <<>> ->
         [r EXCEPT !.state = "DONE"]
    [] ~r.waiting /\ r.error = "none" /\ r.state = "HEADERS" /\ r.chunk # <<>> ->
         ParseCGIHeaderLine(r)
    [] ~r.waiting /\ r.error = "none" /\ r.state = "BODY" /\ r.chunk # <<>> ->
         AssembleCGIBody(r)

AddCGIChunk(r, piece) ==
  LET turn[n \in Nat] ==
        IF n = 0 THEN [r EXCEPT !.chunk = piece] ELSE AddOnce(turn[n - 1])
  IN [turn[Len(piece) + 2] EXCEPT !.chunk = <<>>, !.waiting = FALSE]

-----------------------------------------------------------------------------

Init ==
  /\ output \in Outputs
  /\ pipe = Encode(output)
  /\ response = Fresh
  /\ reading = "pipe"

\* A read of n tokens ends where a header line ends.
EndsLine(n) ==
  LET read == Len(Encode(output)) - Len(pipe) + n
      head == Len(Encode(output)) - Len(output.page)
  IN read <= head /\ n > 0 /\ pipe[n] = "LF"

ReadCGIChunk(n) == response' = AddCGIChunk(response, SubSeq(pipe, 1, n))

\* read() returns any number of the bytes written.
Read ==
  /\ reading = "pipe"
  /\ \E n \in 1 .. Len(pipe) :
       /\ CutCrLf \/ n = Len(pipe) \/ ~(pipe[n] = "CR" /\ pipe[n + 1] = "LF")
       /\ CutLine \/ ~EndsLine(n) \/ n = Len(pipe)
       /\ ReadCGIChunk(n)
       /\ pipe' = SubSeq(pipe, n + 1, Len(pipe))
  /\ UNCHANGED <<output, reading>>

\* read() returns 0: the answer is made of what there is, or an error page.
EndOfFile ==
  /\ reading = "pipe" /\ pipe = <<>>
  /\ response' = AddCGIChunk(response, <<>>)
  /\ reading' = "answered"
  /\ UNCHANGED <<output, pipe>>

\* timeoutCgi() throws away what has been read; a first error stays.
TimeoutCgi ==
  /\ reading = "pipe"
  /\ response' =
       [Fresh EXCEPT !.error = IF response.error = "none" THEN "502" ELSE response.error]
  /\ reading' = "answered"
  /\ UNCHANGED <<output, pipe>>

\* The next script of a kept-alive connection: Response::reset, Status::reset.
NextScript ==
  /\ reading = "answered"
  /\ response' = Fresh
  /\ \E o \in Outputs : output' = o /\ pipe' = Encode(o)
  /\ reading' = "pipe"

Next == Read \/ EndOfFile \/ TimeoutCgi \/ NextScript

Spec == Init /\ [][Next]_vars

-----------------------------------------------------------------------------

\* The types, and a page over the limit is never sent.
TypeOK ==
  /\ output \in Outputs
  /\ pipe \in Seq(Tokens)
  /\ response \in
       [state : ParsingStates, unparsed : Seq(Tokens), page : Seq(Tokens),
        error : {"none", "413", "502"}, chunk : {<<>>}, waiting : {FALSE}]
  /\ reading \in {"pipe", "answered"}
  /\ reading = "answered" /\ response.error = "none" => Len(response.page) <= MaxBody

\* The page that is sent is the page that the script wrote, whole and without
\* its headers, in however many pieces it was read.
PageIsServed ==
  reading = "answered" /\ output.newline = CrLf =>
    CASE response.error = "none" -> response.page = output.page
      [] response.error = "413" -> Len(output.page) > MaxBody
      [] OTHER -> TRUE
=============================================================================
