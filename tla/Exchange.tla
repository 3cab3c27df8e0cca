------------------------------ MODULE Exchange ------------------------------
(***************************************************************************)
(* What a connection answers to its requests: validation, routing, the     *)
(* three methods, status, headers, error pages, timeouts, and the reset    *)
(* between two requests of a kept-alive connection.                        *)
(***************************************************************************)
EXTENDS Site

CONSTANTS
  Requests,        \* the requests clients make
  Sites,           \* what may be on the disk at the start
  Sessions,        \* session ids, without 0
  ErrorPages,      \* error_page_<code> of the configuration, by code
  GeneratedNames,  \* bound: the names generateRandomFileName() gives
  Listing, ScriptOutput  \* the page of a directory, and that of any script

\* A part of a form has the name of a file and what is to be in it.
Parts == [key : STRING, value : STRING, ext : STRING]

VARIABLES
  conn,   \* the ClientSocket with its Request, Response and Status
  disk    \* the files

vars == <<conn, disk>>

-----------------------------------------------------------------------------
(* The objects of a connection                                             *)

\* A request is faulty if its request line is not one, names another protocol,
\* or announces too long a body.
NoRequest == [method |-> "none", url |-> <<>>, cookie |-> 0, keep |-> FALSE,
              fault |-> "none", form |-> [kind |-> "none", opened |-> FALSE, parts |-> <<>>]]
ASSUME RequestsAssumption ==
  /\ NoRequest \notin Requests
  /\ \A q \in Requests : q.url \in Seq(Names) /\ q.form.parts \in Seq(Parts)

\* routed is _routedPath, error Status::_hasError, headers what _HTTPHeaders has
\* been given, a header block at a time.
NewConnection ==
  [phase |-> "connected", request |-> NoRequest, route |-> NoRoute, session |-> 0,
   code |-> 200, error |-> FALSE, headers |-> <<>>, page |-> <<>>, routed |-> NoPath,
   keep |-> FALSE, timedOut |-> FALSE]

\* Mutant: the page stays.
ResetResponseKeepsPage(c) == [c EXCEPT !.headers = <<>>, !.routed = NoPath]
ResetResponse(c) == [c EXCEPT !.headers = <<>>, !.routed = NoPath, !.page = <<>>]

\* Request::reset(), Status::reset(); the session stays.
ResetContent(c) ==
  [ResetResponse(c) EXCEPT
     !.phase = "connected", !.request = NoRequest, !.route = NoRoute, !.keep = FALSE,
     !.code = 200, !.error = FALSE]

\* The first error stays.
SetStatusCode(c, code) ==
  IF c.error THEN c ELSE [c EXCEPT !.code = code, !.error = code >= 400]

\* The page the server makes stands for its code.  One that is configured is
\* looked for in the root of the route, whatever location that is; without a
\* route the pointer to it is null, or was never set.
HasNoRootForPage(c) ==
  c.code >= 400 /\ c.code \in DOMAIN ErrorPages /\ c.route = NoRoute
FetchErrorPageContent(c, d) ==
  IF c.code \in DOMAIN ErrorPages /\ IsValidGetFilePath(d, c.route.root \o ErrorPages[c.code])
  THEN d[c.route.root \o ErrorPages[c.code]] ELSE <<c.code>>

\* Mutant: the length is that of the page before the error page replaces it.
CreateHTTPHeadersEarly(c, d) ==
  LET page == IF c.code >= 400 THEN FetchErrorPageContent(c, d) ELSE c.page
  IN [c EXCEPT !.page = page,
               !.headers = Append(@, [code |-> c.code, length |-> Len(c.page), keep |-> c.keep])]
CreateHTTPHeaders(c, d) ==
  LET page == IF c.code >= 400 THEN FetchErrorPageContent(c, d) ELSE c.page
  IN [c EXCEPT !.page = page,
               !.headers = Append(@, [code |-> c.code, length |-> Len(page), keep |-> c.keep])]

Filled(c, d) ==
  IF HasNoRootForPage(c) THEN [c EXCEPT !.phase = "crashed"]
  ELSE [CreateHTTPHeaders(c, d) EXCEPT !.phase = "filled"]

\* serveErrorPage() passes its status to Status::setError(bool): the flag is
\* raised and the code stays.
ServeErrorPage(c, d) == Filled([c EXCEPT !.error = TRUE], d)

-----------------------------------------------------------------------------
(* The head of a request                                                   *)

CheckMethodIsAllowed(c) ==
  IF c.route = NoRoute \/ c.request.method \notin c.route.methods
  THEN SetStatusCode(c, 405) ELSE c

Known == {"GET", "POST", "DELETE"}

SetRequestLine(c) ==
  CASE c.request.fault = "line" -> SetStatusCode(c, 400)
    [] c.request.fault # "line" /\ c.request.method \notin Known -> SetStatusCode(c, 405)
    [] c.request.fault = "version" /\ c.request.method \in Known -> SetStatusCode(c, 505)
    [] OTHER -> c

\* The request line with validateRequestLine(), the headers, and the test of
\* setIfAssemblingBody().
\* Mutant: a line that is refused has no route.
ParseHeadUnrouted(c, q) ==
  LET c1 == SetRequestLine([c EXCEPT !.request = q, !.keep = q.keep])
  IN IF c1.error THEN c1 ELSE CheckMethodIsAllowed([c1 EXCEPT !.route = FindMatchingRoute(q.url)])
ParseHead(c, q) ==
  LET c1 == [c EXCEPT !.request = q, !.route = FindMatchingRoute(q.url),
                      !.session = IF q.cookie = 0 THEN @ ELSE q.cookie, !.keep = q.keep]
      c2 == CheckMethodIsAllowed(SetRequestLine(c1))
      c3 == IF q.fault = "size" THEN SetStatusCode(c2, 413) ELSE c2
  IN IF q.method = "POST" /\ q.form.kind = "none" THEN SetStatusCode(c3, 415) ELSE c3

-----------------------------------------------------------------------------
(* Routing                                                                 *)

ValidateRequestWithRoute(c) ==
  IF c.route = NoRoute THEN SetStatusCode(c, 404)
  ELSE IF c.request.method \notin c.route.methods THEN SetStatusCode(c, 405)
  ELSE c

RouteRequest(c, d) ==
  LET v == ValidateRequestWithRoute(c)
      p == IF c.request.method = "POST" THEN RouteFilePathForPost(c.request.url, c.route)
           ELSE RouteFilePathForGet(d, c.request.url, c.route, c.session)
      w == CASE c.request.method # "POST" /\ p = NoPath -> SetStatusCode(v, 404)
             [] c.request.method = "DELETE" /\ p # NoPath /\ ~IsAllowedWrite(p) ->
                  SetStatusCode(v, 403)
             [] c.request.method = "POST" /\ ~IsExisting(d, p) -> SetStatusCode(v, 403)
             [] OTHER -> v
  IN IF v.error THEN v ELSE [w EXCEPT !.routed = p]

-----------------------------------------------------------------------------
(* Methods.  Each gives the connection and the disk it leaves.             *)

Result(c, d) == [conn |-> c, disk |-> d]

\* executeFile() forks and reads the pipe from then on.
IsScript(p) == p # NoPath /\ Last(p).ext \in {"py", "php"}
ExecuteFile(c, d) == Result([c EXCEPT !.phase = "filling"], d)

AddToContent(c, content) == [c EXCEPT !.page = @ \o content]

ServeDirectoryListing(c, d) ==
  IF c.route.autoindex THEN Filled(AddToContent(c, <<Listing>>), d) ELSE ServeErrorPage(c, d)

ServeStatic(c, d) ==
  IF IsDirectory(c.routed) THEN ServeDirectoryListing(c, d)
  ELSE Filled(AddToContent(c, d[c.routed]), d)

GetItemFromServer(c, d) ==
  IF IsScript(c.routed) THEN ExecuteFile(c, d) ELSE Result(ServeStatic(c, d), d)

\* Mutant: the file is there still.
DeleteItemFromServerNot(c, d) ==
  Result(IF IsDirectory(c.routed) THEN ServeErrorPage(c, d)
         ELSE Filled(SetStatusCode(c, 204), d), d)
\* The file is looked up once more, with the same result.
DeleteItemFromServer(c, d) ==
  IF IsDirectory(c.routed) \/ Front(c.routed) \in Locked
  THEN Result(ServeErrorPage(c, d), d)
  ELSE Result(Filled(SetStatusCode(c, 204), d), [p \in DOMAIN d \ {c.routed} |-> d[p]])

\* The files an upload writes, in order: a pair of an urlencoded form each, but
\* the search for "&" starts at the beginning of the body, so the second pair
\* takes all that follow into its value; a part of a multipart form each, under
\* the session and the name of the part; a text under its own or a new name.
\* Mutant: the first pair only.
UrlEncodedFilesFirst(c) ==
  [i \in 1 .. (IF c.request.form.parts = <<>> THEN 0 ELSE 1) |->
     [path |-> Append(c.routed, [owner |-> NoOwner, key |-> c.request.form.parts[1].key,
                                 ext |-> ""]),
      content |-> <<c.request.form.parts[1].value>>]]
UrlEncodedFiles(c) ==
  LET parts == c.request.form.parts
      file(i) == Append(c.routed, [owner |-> NoOwner, key |-> parts[i].key, ext |-> ""])
      rest == FlattenSeq([i \in 1 .. Len(parts) - 2 |->
                            <<parts[i + 2].key, parts[i + 2].value>>])
  IN [i \in 1 .. (IF Len(parts) > 2 THEN 2 ELSE Len(parts)) |->
        [path |-> file(i),
         content |-> <<parts[i].value>> \o (IF i = 2 THEN rest ELSE <<>>)]]

GenerateFilename(c, part) ==
  Append(c.route.upload, [owner |-> c.session, key |-> part.key, ext |-> part.ext])

MultiPartFiles(c) ==
  [i \in DOMAIN c.request.form.parts |->
     [path |-> GenerateFilename(c, c.request.form.parts[i]),
      content |-> <<c.request.form.parts[i].value>>]]

TextFile(c, name) ==
  [path |-> IF IsDirectory(c.routed)
            THEN Append(c.routed, [owner |-> NoOwner, key |-> name, ext |-> "txt"])
            ELSE c.routed,
   content |-> <<c.request.form.parts[1].value>>]

\* createFile() can open the path for writing.
CanCreate(d, p) ==
  /\ IsDirectory(Front(p)) /\ ~IsDirectory(p) /\ IsAllowedWrite(p)
  /\ IsValidGetFilePath(d, p) \/ Front(p) \notin Locked

\* Of several files of one name the last one stays.
Write(d, files) ==
  LET paths == {files[i].path : i \in DOMAIN files}
      last(p) == CHOOSE i \in DOMAIN files :
                   files[i].path = p /\ \A j \in DOMAIN files : files[j].path = p => j <= i
  IN [p \in DOMAIN d \cup paths |-> IF p \in paths THEN files[last(p)].content ELSE d[p]]

\* A file that cannot be made throws: those before it stay, and the connection
\* is removed without an answer.  So does a part without a name, and a form
\* without a pair.
WriteAll(c, d, files, ends) ==
  LET bad == {i \in DOMAIN files : ~CanCreate(d, files[i].path)}
      n   == IF bad = {} THEN Len(files) ELSE (CHOOSE i \in bad : \A j \in bad : i <= j) - 1
  IN Result(IF bad = {} /\ ends THEN c ELSE [c EXCEPT !.phase = "removed"],
            Write(d, SubSeq(files, 1, n)))

ParsePlainBody(c, d, name) ==
  LET f == TextFile(c, name)
  IN CASE ~IsAllowedWrite(f.path) -> Result(SetStatusCode(c, 403), d)
       [] IsAllowedWrite(f.path) /\ ~CanCreate(d, f.path) -> Result(SetStatusCode(c, 500), d)
       [] OTHER -> Result(c, Write(d, <<f>>))

ParseMultiPartBody(c, d) ==
  IF ~c.request.form.opened THEN Result(SetStatusCode(c, 400), d)
  ELSE LET parts == c.request.form.parts
           n == IF \E i \in DOMAIN parts : parts[i].key = ""
                THEN (CHOOSE i \in DOMAIN parts :
                        /\ parts[i].key = ""
                        /\ \A j \in 1 .. i - 1 : parts[j].key # "") - 1
                ELSE Len(parts)
       IN WriteAll(c, d, SubSeq(MultiPartFiles(c), 1, n), n = Len(parts))

ParseBodyDataAndUpload(c, d, name) ==
  CASE c.request.form.kind = "urlencoded" ->
         WriteAll(c, d, UrlEncodedFiles(c), c.request.form.parts # <<>>)
    [] c.request.form.kind = "multipart" -> ParseMultiPartBody(c, d)
    [] c.request.form.kind = "plain" -> ParsePlainBody(c, d, name)
    [] OTHER -> Result(SetStatusCode(c, 415), d)

CreatePostResponsePage(c, d) == Filled(SetStatusCode(c, 201), d)

PostItemFromServer(c, d, name) ==
  LET u == ParseBodyDataAndUpload(c, d, name)
  IN CASE IsScript(c.routed) -> ExecuteFile(c, d)
       [] ~IsScript(c.routed) /\ u.conn.phase = "removed" -> u
       [] OTHER -> Result(CreatePostResponsePage(u.conn, u.disk), u.disk)

FillResponse(c, d, name) ==
  LET r == RouteRequest(c, d)
  IN CASE r.error -> Result(Filled(r, d), d)
       [] ~r.error /\ r.request.method = "GET" -> GetItemFromServer(r, d)
       [] ~r.error /\ r.request.method = "POST" -> PostItemFromServer(r, d, name)
       [] ~r.error /\ r.request.method = "DELETE" -> DeleteItemFromServer(r, d)

-----------------------------------------------------------------------------
(* Actions                                                                 *)

Init == conn = NewConnection /\ disk \in Sites

\* Some of a request line, or a whole head with more of the body to come.
ReceivePart ==
  /\ conn.phase = "connected"
  /\ conn' = [conn EXCEPT !.phase = "receiving"]
  /\ UNCHANGED disk

ReceiveHead(q) ==
  /\ conn.phase \in {"connected", "receiving"} /\ conn.request = NoRequest
  /\ conn' = [ParseHead(conn, q) EXCEPT !.phase = "receiving"]
  /\ UNCHANGED disk

\* A text sent to a directory gets a name that no file has; other answers need none.
IsFreshName(name) ==
  conn.request.form.kind = "plain" =>
    \A p \in DOMAIN disk : p = NoPath \/ Last(p).key # name

Fill(result) == conn' = result.conn /\ disk' = result.disk

\* The last of a request: the handler parses it and fills the response.
ReceiveRest ==
  /\ conn.phase = "receiving" /\ conn.request # NoRequest
  /\ \E name \in GeneratedNames :
       IsFreshName(name) /\ Fill(FillResponse(conn, disk, name))

\* A script's output is read at once (bound), and may be too much for a page: then
\* the error is noted and the answer still waits for the end of the output.
ReadCGIOutput ==
  /\ conn.phase = "filling" /\ conn.page = <<>>
  /\ LET c == AddToContent(conn, <<ScriptOutput>>)
     IN conn' = c \/ conn' = SetStatusCode(c, 413)
  /\ UNCHANGED disk

EndOfCGIOutput ==
  /\ conn.phase = "filling"
  /\ conn' = Filled(conn, disk)
  /\ UNCHANGED disk

Timeout(code) ==
  conn' = Filled([SetStatusCode(ResetResponse(conn), code) EXCEPT
                    !.timedOut = TRUE, !.keep = FALSE], disk)

\* Also of an answer that waits for its peer.
TimeoutRequest ==
  /\ conn.phase \in {"receiving", "filled"}
  /\ Timeout(408)
  /\ UNCHANGED disk

TimeoutCgi ==
  /\ conn.phase = "filling"
  /\ Timeout(502)
  /\ UNCHANGED disk

\* Mutant: what the request asked for alone decides.
SendResponseKeepsTimedOut ==
  /\ conn.phase = "filled"
  /\ conn' = IF conn.request.keep THEN ResetContent(conn)
             ELSE [conn EXCEPT !.phase = "removed"]
  /\ UNCHANGED disk
\* The answer goes out, and closeConnectionOrCleanAndKeepAlive().
SendResponse ==
  /\ conn.phase = "filled"
  /\ conn' = IF conn.keep /\ ~conn.timedOut THEN ResetContent(conn)
             ELSE [conn EXCEPT !.phase = "removed"]
  /\ UNCHANGED disk

\* The peer hangs up.
RemoveConnection ==
  /\ conn.phase \notin {"removed", "crashed"}
  /\ conn' = [conn EXCEPT !.phase = "removed"]
  /\ UNCHANGED disk

AcceptNewConnection ==
  /\ conn.phase = "removed"
  /\ conn' = NewConnection
  /\ UNCHANGED disk

Next ==
  \/ ReceivePart \/ ReceiveRest \/ ReadCGIOutput \/ EndOfCGIOutput
  \/ TimeoutRequest \/ TimeoutCgi \/ SendResponse \/ RemoveConnection \/ AcceptNewConnection
  \/ \E q \in Requests : ReceiveHead(q)

Spec == Init /\ [][Next]_vars

-----------------------------------------------------------------------------
(* Properties                                                              *)

Codes == {200, 201, 204, 400, 403, 404, 405, 408, 413, 415, 500, 502, 505}
Block == [code : Codes, length : Nat, keep : BOOLEAN]
TypeOK ==
  /\ conn.phase \in {"connected", "receiving", "filling", "filled", "removed", "crashed"}
  /\ conn.request \in Requests \cup {NoRequest}
  /\ conn.session \in Sessions \cup {0}
  /\ conn.code \in Codes /\ {conn.error, conn.keep, conn.timedOut} \subseteq BOOLEAN
  /\ conn.headers \in {<<>>} \cup [{1} -> Block]
  /\ \A p \in DOMAIN disk : Len(disk[p]) > 0

\* receiveAndParseData() has the whole of a request.
Answering ==
  /\ conn.phase = "receiving" /\ conn.request # NoRequest
  /\ conn'.phase \in {"filled", "filling"} /\ ~conn'.timedOut

\* What a request is answered and does to the disk depends on the request, its
\* session and the disk, and on no earlier request of the connection: the
\* objects are used again after resetContent() (ClientSocket.cpp:46).
AnswersStandAlone ==
  [][Answering =>
       \E name \in GeneratedNames :
         LET first == [NewConnection EXCEPT !.session = conn.session]
         IN FillResponse(ParseHead(first, conn.request), disk, name)
              = Result(conn', disk')]_vars

\* An answer has one header block, with the code and the length of the page that
\* goes with it, whatever was prepared before a timeout or an error
\* (Response.cpp:181).
HeadersFitThePage ==
  conn.phase = "filled" =>
    conn.headers = <<[code |-> conn.code, length |-> Len(conn.page), keep |-> conn.keep]>>

\* An error page is only fetched for a request that has a route: every error there is
\* a page for comes after the route is found, and 408, which may come before, has
\* none (Response.cpp:287).  With a page for 408 the server crashes.
ErrorPagesHaveARoot == conn.phase # "crashed"

\* The server keeps the connection if and only if it said so, though the test is
\* made on other members than the header is (ServerSocket.cpp:191).
ConnectionIsAsAnnounced ==
  [][SendResponse => (conn'.phase = "connected" <=> Head(conn.headers).keep)]_vars

\* DELETE removes the file that GET with the same URL serves, and no other, and says
\* so if and only if it did; nothing else removes a file, and a request that is
\* answered with an error, also an upload of several files, has changed nothing
\* (ContentDELETEr.cpp:26, ContentPOSTer.cpp:62).
DiskFollowsTheAnswer ==
  [][LET gone == DOMAIN disk \ DOMAIN disk'
     IN /\ IF Answering /\ conn'.code = 204
           THEN /\ gone = {RouteFilePathForGet(disk, conn.request.url, conn.route, conn.session)}
                /\ \A p \in DOMAIN disk \ gone : disk'[p] = disk[p]
           ELSE gone = {}
        /\ conn'.phase = "filled" /\ conn'.code >= 400 => disk' = disk]_vars

Stored == Answering /\ conn'.code = 201
PartOfStored(i) == conn.request.form.parts[i]
LastOfItsKey(i) ==
  \A j \in DOMAIN conn.request.form.parts :
    j > i => PartOfStored(j).key # PartOfStored(i).key
Holds(d, p, content) == p \in DOMAIN d /\ d[p] = content

\* "read key=value&key=value and store data" (ContentPOSTer.cpp:46), for a form of
\* at most two pairs; the pairs after the second become part of its value.
FormIsStored ==
  [][Stored /\ conn.request.form.kind = "urlencoded" /\ Len(conn.request.form.parts) <= 2 =>
       \A i \in DOMAIN conn.request.form.parts :
         LastOfItsKey(i) =>
           Holds(disk',
                 Append(conn'.routed, [owner |-> NoOwner, key |-> PartOfStored(i).key, ext |-> ""]),
                 <<PartOfStored(i).value>>)]_vars

\* What a session has uploaded to a route it can get back from there by its name,
\* unless a directory, a file that belongs to nobody, or another file of its own
\* has the name too.
UploadIsServed ==
  [][Stored /\ conn.request.form.kind = "multipart" /\ conn.route.root = conn.route.upload =>
       \A i \in DOMAIN conn.request.form.parts :
         LET part == PartOfStored(i)
             url  == Append(conn.route.url, [owner |-> NoOwner, key |-> part.key, ext |-> ""])
             same == {p \in DOMAIN disk' :
                        /\ p # NoPath /\ Front(p) = conn.route.upload
                        /\ Last(p).key = part.key /\ Last(p).owner \in {NoOwner, conn.session}}
             got  == RouteFilePathForGet(disk', url, conn.route, conn.session)
             alone == (\A p, q \in same : p = q) /\ ~IsDirectory(Append(conn.route.upload, Last(url)))
         IN LastOfItsKey(i) /\ alone /\ FindMatchingRoute(url) = conn.route =>
              got # NoPath /\ Holds(disk', got, <<part.value>>)]_vars
=============================================================================
