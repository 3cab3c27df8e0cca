--------------------------- MODULE ExchangeProofs ---------------------------
(***************************************************************************)
(* Proofs about Exchange, for any site, routes, requests and error pages:  *)
(* the headers of an answer fit its page, the connection is kept as they   *)
(* say, no error page is looked for without a route, what a request is     *)
(* answered does not depend on the requests before it, the disk changes    *)
(* as the answer says, and what is uploaded is stored and can be got back. *)
(***************************************************************************)
EXTENDS Exchange, SequenceTheorems, WellFoundedInduction, TLAPS

Members == {"phase", "request", "route", "session", "code", "error", "headers", "page",
            "routed", "keep", "timedOut"}

\* e is what a handler makes of c: the same request, with its route.
SameRequest(c, e) ==
  /\ DOMAIN e = Members
  /\ e.request = c.request /\ e.route = c.route
  /\ e.keep = c.keep /\ e.timedOut = c.timedOut

HeadersFit(c) ==
  c.headers = <<[code |-> c.code, length |-> Len(c.page), keep |-> c.keep]>>

\* Nothing has been written into the headers of e yet.
InTheMaking(c, e) == SameRequest(c, e) /\ e.headers = <<>>

Answered(c, e) ==
  /\ SameRequest(c, e)
  /\ e.phase \in {"filled", "filling", "removed", "crashed"}
  /\ e.phase = "filled" => HeadersFit(e)
  /\ e.phase = "filling" => e.headers = <<>>
  /\ e.phase = "crashed" => c.route = NoRoute /\ e.code \in DOMAIN ErrorPages

-----------------------------------------------------------------------------
(* The steps of an answer                                                  *)

LEMMA SetStatusCodeKeeps ==
  ASSUME NEW b, NEW c, InTheMaking(b, c), NEW code
  PROVE  InTheMaking(b, SetStatusCode(c, code)) /\ SetStatusCode(c, code).phase = c.phase
  BY DEF InTheMaking, SameRequest, SetStatusCode, Members

LEMMA FilledAnswers ==
  ASSUME NEW b, NEW c, NEW d, InTheMaking(b, c)
  PROVE  Answered(b, Filled(c, d)) /\ Filled(c, d).phase # "removed"
<1>1. CASE HasNoRootForPage(c)
  BY <1>1 DEF Filled, HasNoRootForPage, InTheMaking, Answered, SameRequest, Members
<1>2. CASE ~HasNoRootForPage(c)
  <2> DEFINE page == IF c.code >= 400 THEN FetchErrorPageContent(c, d) ELSE c.page
             block == [code |-> c.code, length |-> Len(page), keep |-> c.keep]
             e == Filled(c, d)
  <2>1. e = [[c EXCEPT !.page = page, !.headers = Append(@, block)] EXCEPT !.phase = "filled"]
    BY <1>2 DEF Filled, CreateHTTPHeaders
  <2>2. Append(<<>>, block) = <<block>>
    OBVIOUS
  <2>3. /\ DOMAIN e = Members /\ e.phase = "filled" /\ e.page = page /\ e.headers = <<block>>
        /\ e.code = c.code /\ e.keep = c.keep /\ e.timedOut = c.timedOut
        /\ e.request = c.request /\ e.route = c.route
    <3> HIDE DEF page, block
    <3> QED BY <2>1, <2>2 DEF InTheMaking, SameRequest, Members
  <2> QED
    BY <2>3 DEF InTheMaking, SameRequest, Answered, HeadersFit
<1> QED
  BY <1>1, <1>2

LEMMA ServeErrorPageAnswers ==
  ASSUME NEW b, NEW c, NEW d, InTheMaking(b, c)
  PROVE  Answered(b, ServeErrorPage(c, d))
<1>1. InTheMaking(b, [c EXCEPT !.error = TRUE])
  BY DEF InTheMaking, SameRequest, Members
<1> QED
  BY <1>1, FilledAnswers DEF ServeErrorPage

LEMMA AddToContentKeeps ==
  ASSUME NEW b, NEW c, InTheMaking(b, c), NEW content
  PROVE  InTheMaking(b, AddToContent(c, content))
  BY DEF InTheMaking, SameRequest, AddToContent, Members

LEMMA RouteRequestKeeps ==
  ASSUME NEW b, NEW c, InTheMaking(b, c), NEW d
  PROVE  InTheMaking(b, RouteRequest(c, d))
<1>1. InTheMaking(b, ValidateRequestWithRoute(c))
  BY SetStatusCodeKeeps DEF ValidateRequestWithRoute
<1>2. \A code, p :
        InTheMaking(b, [SetStatusCode(ValidateRequestWithRoute(c), code) EXCEPT !.routed = p])
  BY <1>1, SetStatusCodeKeeps DEF InTheMaking, SameRequest, Members
<1>3. \A p : InTheMaking(b, [ValidateRequestWithRoute(c) EXCEPT !.routed = p])
  BY <1>1 DEF InTheMaking, SameRequest, Members
<1> HIDE DEF ValidateRequestWithRoute, SetStatusCode
<1> QED
  BY <1>1, <1>2, <1>3 DEF RouteRequest

-----------------------------------------------------------------------------
(* The methods                                                             *)

LEMMA ScriptAnswers ==
  ASSUME NEW b, NEW c, NEW d, InTheMaking(b, c)
  PROVE  Answered(b, ExecuteFile(c, d).conn)
  BY DEF ExecuteFile, Result, InTheMaking, SameRequest, Answered, Members

LEMMA GetAnswers ==
  ASSUME NEW b, NEW c, NEW d, InTheMaking(b, c)
  PROVE  Answered(b, GetItemFromServer(c, d).conn)
<1>1. \A content : Answered(b, Filled(AddToContent(c, content), d))
  BY AddToContentKeeps, FilledAnswers
<1>2. Answered(b, ServeStatic(c, d))
  BY <1>1, ServeErrorPageAnswers DEF ServeStatic, ServeDirectoryListing
<1> QED
  BY <1>2, ScriptAnswers DEF GetItemFromServer, Result

LEMMA DeleteAnswers ==
  ASSUME NEW b, NEW c, NEW d, InTheMaking(b, c)
  PROVE  Answered(b, DeleteItemFromServer(c, d).conn)
<1>1. Answered(b, Filled(SetStatusCode(c, 204), d))
  BY SetStatusCodeKeeps, FilledAnswers
<1> QED
  BY <1>1, ServeErrorPageAnswers DEF DeleteItemFromServer, Result

\* An upload goes on to its page, or has removed the connection.
LEMMA UploadKeeps ==
  ASSUME NEW b, NEW c, NEW d, NEW name, InTheMaking(b, c)
  PROVE  InTheMaking(b, ParseBodyDataAndUpload(c, d, name).conn)
<1>1. \A files, ends : InTheMaking(b, WriteAll(c, d, files, ends).conn)
  <2> SUFFICES ASSUME NEW files, NEW ends
               PROVE  InTheMaking(b, WriteAll(c, d, files, ends).conn)
    OBVIOUS
  <2>1. WriteAll(c, d, files, ends).conn \in {c, [c EXCEPT !.phase = "removed"]}
    BY DEF WriteAll, Result
  <2> QED
    BY <2>1 DEF InTheMaking, SameRequest, Members
<1>2. \A code : InTheMaking(b, SetStatusCode(c, code))
  BY SetStatusCodeKeeps
<1>3. InTheMaking(b, ParseMultiPartBody(c, d).conn)
  BY <1>1, <1>2 DEF ParseMultiPartBody, Result
<1>4. InTheMaking(b, ParsePlainBody(c, d, name).conn)
  BY <1>2 DEF ParsePlainBody, Result
<1> QED
  BY <1>1, <1>2, <1>3, <1>4 DEF ParseBodyDataAndUpload, Result

LEMMA PostAnswers ==
  ASSUME NEW b, NEW c, NEW d, NEW name, InTheMaking(b, c)
  PROVE  Answered(b, PostItemFromServer(c, d, name).conn)
<1> DEFINE u == ParseBodyDataAndUpload(c, d, name)
<1>1. InTheMaking(b, u.conn)
  BY UploadKeeps
<1>2. Answered(b, CreatePostResponsePage(u.conn, u.disk))
  <2> HIDE DEF u
  <2> QED BY <1>1, SetStatusCodeKeeps, FilledAnswers DEF CreatePostResponsePage
<1>3. u.conn.phase = "removed" => Answered(b, u.conn)
  <2> HIDE DEF u
  <2> QED BY <1>1 DEF InTheMaking, Answered
<1>4. Answered(b, ExecuteFile(c, d).conn)
  BY ScriptAnswers
<1> HIDE DEF u
<1>5. \/ PostItemFromServer(c, d, name).conn = ExecuteFile(c, d).conn
      \/ PostItemFromServer(c, d, name).conn = CreatePostResponsePage(u.conn, u.disk)
      \/ /\ u.conn.phase = "removed"
         /\ PostItemFromServer(c, d, name).conn = u.conn
  BY DEF PostItemFromServer, Result, u
<1> QED
  BY <1>2, <1>3, <1>4, <1>5

\* Of a request with an unknown method only the error is answered.
MethodIsKnown(c) == c.error \/ c.request.method \in Known

LEMMA ErrorsStay ==
  ASSUME NEW c, DOMAIN c = Members, NEW code
  PROVE  c.error => SetStatusCode(c, code).error
  BY DEF SetStatusCode

LEMMA RoutedErrorsStay ==
  ASSUME NEW c, NEW d, DOMAIN c = Members, c.error
  PROVE  RouteRequest(c, d).error
<1>1. ValidateRequestWithRoute(c).error
  BY ErrorsStay DEF ValidateRequestWithRoute
<1> QED
  BY <1>1 DEF RouteRequest

LEMMA FillResponseAnswers ==
  ASSUME NEW c, NEW d, NEW name, DOMAIN c = Members, c.headers = <<>>, MethodIsKnown(c)
  PROVE  Answered(c, FillResponse(c, d, name).conn)
<1> DEFINE r == RouteRequest(c, d)
<1>1. InTheMaking(c, r)
  BY RouteRequestKeeps DEF InTheMaking, SameRequest
<1>2. r.error \/ r.request.method \in Known
  BY <1>1, RoutedErrorsStay DEF MethodIsKnown, InTheMaking, SameRequest
<1>3. FillResponse(c, d, name).conn \in
        {Filled(r, d), GetItemFromServer(r, d).conn, PostItemFromServer(r, d, name).conn,
         DeleteItemFromServer(r, d).conn}
  <2> HIDE DEF r
  <2>1. CASE r.error
    BY <2>1 DEF FillResponse, Result, r
  <2>2. CASE ~r.error /\ r.request.method = "GET"
    BY <2>2 DEF FillResponse, Result, r
  <2>3. CASE ~r.error /\ r.request.method = "POST"
    BY <2>3 DEF FillResponse, Result, r
  <2>4. CASE ~r.error /\ r.request.method = "DELETE"
    BY <2>4 DEF FillResponse, Result, r
  <2> QED
    BY <1>2, <2>1, <2>2, <2>3, <2>4 DEF Known
<1> HIDE DEF r
<1> QED
  BY <1>1, <1>3, FilledAnswers, GetAnswers, PostAnswers, DeleteAnswers

-----------------------------------------------------------------------------
(* The head of a request                                                   *)

\* No status but an error's is set before an answer is made.
Coded(c) ==
  /\ c.error \in BOOLEAN
  /\ c.error => c.code >= 400
  /\ ~c.error => c.code = 200

\* A status set while a head is parsed changes nothing else.
OnlyTheStatus(c, e) ==
  /\ SameRequest(c, e)
  /\ e.headers = c.headers /\ e.phase = c.phase /\ e.session = c.session
  /\ c.error => e.error
  /\ Coded(c) => Coded(e)

LEMMA HeadIsParsed ==
  ASSUME NEW c, NEW q, DOMAIN c = Members
  PROVE  LET e == ParseHead(c, q)
         IN /\ DOMAIN e = Members
            /\ e.request = q /\ e.route = FindMatchingRoute(q.url)
            /\ e.headers = c.headers /\ e.timedOut = c.timedOut
            /\ e.phase = c.phase
            /\ e.session = IF q.cookie = 0 THEN c.session ELSE q.cookie
            /\ MethodIsKnown(e)
            /\ Coded(c) => Coded(e)
<1> DEFINE c1 == [c EXCEPT !.request = q, !.route = FindMatchingRoute(q.url),
                           !.session = IF q.cookie = 0 THEN @ ELSE q.cookie, !.keep = q.keep]
           c2 == CheckMethodIsAllowed(SetRequestLine(c1))
           c3 == IF q.fault = "size" THEN SetStatusCode(c2, 413) ELSE c2
           e  == ParseHead(c, q)
<1>1. /\ DOMAIN c1 = Members /\ c1.request = q /\ c1.route = FindMatchingRoute(q.url)
      /\ c1.headers = c.headers /\ c1.timedOut = c.timedOut /\ c1.phase = c.phase
      /\ c1.session = IF q.cookie = 0 THEN c.session ELSE q.cookie
      /\ Coded(c) => Coded(c1)
  BY DEF Members, Coded
<1>2. ASSUME NEW x, DOMAIN x = Members, NEW code \in {400, 405, 413, 415, 505}
      PROVE  OnlyTheStatus(x, SetStatusCode(x, code))
  <2> DEFINE high == code >= 400
             y == [x EXCEPT !.code = code, !.error = high]
  <2>1. high = TRUE
    OBVIOUS
  <2>2. SetStatusCode(x, code) = IF x.error THEN x ELSE y
    BY DEF SetStatusCode
  <2>3. OnlyTheStatus(x, y)
    <3>1. /\ DOMAIN y = Members /\ y.code = code /\ y.error = high
          /\ y.request = x.request /\ y.route = x.route /\ y.keep = x.keep
          /\ y.timedOut = x.timedOut /\ y.headers = x.headers /\ y.phase = x.phase
          /\ y.session = x.session
      <4> HIDE DEF high
      <4> QED BY <1>2 DEF Members
    <3>2. Coded(y) /\ y.error
      BY <1>2, <2>1, <3>1 DEF Coded
    <3> HIDE DEF y, high
    <3> QED BY <3>1, <3>2 DEF OnlyTheStatus, SameRequest
  <2>4. OnlyTheStatus(x, x)
    BY <1>2 DEF OnlyTheStatus, SameRequest
  <2> HIDE DEF y
  <2> QED BY <2>2, <2>3, <2>4
<1>3. ASSUME NEW x, DOMAIN x = Members
      PROVE  OnlyTheStatus(x, x)
  BY <1>3 DEF OnlyTheStatus, SameRequest
<1>4. OnlyTheStatus(c1, SetRequestLine(c1)) /\ MethodIsKnown(SetRequestLine(c1))
  <2> HIDE DEF c1
  <2>1. OnlyTheStatus(c1, SetRequestLine(c1))
    BY <1>1, <1>2, <1>3 DEF SetRequestLine
  <2>2. ASSUME NEW code \in {400, 405, 505}
        PROVE  SetStatusCode(c1, code).error
    <3>1. code >= 400
      OBVIOUS
    <3>2. CASE c1.error
      BY <3>2 DEF SetStatusCode
    <3>3. CASE ~c1.error
      <4>1. SetStatusCode(c1, code).error = (code >= 400)
        BY <1>1, <3>3 DEF SetStatusCode, Members
      <4> QED BY <3>1, <4>1
    <3> QED BY <3>2, <3>3
  <2>3. CASE c1.request.method \in Known
    BY <2>1, <2>3 DEF MethodIsKnown, OnlyTheStatus, SameRequest
  <2>4. CASE c1.request.method \notin Known
    BY <2>1, <2>2, <2>4 DEF MethodIsKnown, SetRequestLine
  <2> QED BY <2>1, <2>3, <2>4
<1>5. OnlyTheStatus(SetRequestLine(c1), c2)
  <2> HIDE DEF c1
  <2> QED BY <1>2, <1>3, <1>4 DEF CheckMethodIsAllowed, OnlyTheStatus, SameRequest
<1>6. OnlyTheStatus(c2, c3)
  <2> HIDE DEF c1, c2
  <2> QED BY <1>2, <1>3, <1>5 DEF OnlyTheStatus, SameRequest
<1>7. OnlyTheStatus(c3, e)
  <2>1. e = IF q.method = "POST" /\ q.form.kind = "none" THEN SetStatusCode(c3, 415) ELSE c3
    BY DEF ParseHead
  <2>2. DOMAIN c3 = Members
    BY <1>6 DEF OnlyTheStatus, SameRequest
  <2> HIDE DEF c3, e
  <2> QED BY <1>2, <1>3, <2>1, <2>2
<1> HIDE DEF c1, c2, c3, e
<1>8. DOMAIN e = Members /\ e.request = q /\ e.route = c1.route
      /\ e.headers = c.headers /\ e.timedOut = c.timedOut
      /\ e.phase = c.phase /\ e.session = (IF q.cookie = 0 THEN c.session ELSE q.cookie)
      /\ (Coded(c) => Coded(e))
  BY <1>1, <1>4, <1>5, <1>6, <1>7 DEF OnlyTheStatus, SameRequest
<1>9. MethodIsKnown(e)
  BY <1>4, <1>5, <1>6, <1>7 DEF OnlyTheStatus, SameRequest, MethodIsKnown
<1> QED
  BY <1>1, <1>8, <1>9 DEF e

-----------------------------------------------------------------------------
(* The invariant of the headers                                            *)

Phases == {"connected", "receiving", "filling", "filled", "removed", "crashed"}

IInv ==
  /\ DOMAIN conn = Members /\ conn.phase \in Phases
  /\ conn.phase = "filled" => HeadersFit(conn)
  /\ conn.phase \in {"connected", "receiving", "filling"} =>
       conn.headers = <<>> /\ ~conn.timedOut
  /\ conn.timedOut => ~conn.keep
  /\ conn.phase = "connected" => conn.request = NoRequest
  /\ conn.phase = "receiving" /\ conn.request # NoRequest => MethodIsKnown(conn)

LEMMA InitIInv == Init => IInv
  BY DEF Init, IInv, NewConnection, Members, Phases

\* Whatever the status, the answer of a timeout fits, and closes the connection.
LEMMA TimeoutAnswers ==
  ASSUME IInv, NEW code, Timeout(code)
  PROVE  IInv'
<1> DEFINE c == [SetStatusCode(ResetResponse(conn), code) EXCEPT
                   !.timedOut = TRUE, !.keep = FALSE]
<1>1. InTheMaking(c, c) /\ c.timedOut /\ ~c.keep
  BY DEF IInv, InTheMaking, SameRequest, SetStatusCode, ResetResponse, Members
<1>2. conn' = Filled(c, disk)
  BY DEF Timeout
<1> HIDE DEF c
<1>3. Answered(c, conn') /\ conn'.phase \in {"filled", "crashed"}
  <2>1. Answered(c, conn')
    BY <1>1, <1>2, FilledAnswers
  <2>2. conn'.phase \in {"filled", "crashed"}
    BY <1>1, <1>2 DEF Filled, CreateHTTPHeaders, InTheMaking, SameRequest, Members
  <2> QED BY <2>1, <2>2
<1> QED
  BY <1>1, <1>3 DEF IInv, Answered, SameRequest, Phases

LEMMA NextIInv == IInv /\ [Next]_vars => IInv'
<1> SUFFICES ASSUME IInv, [Next]_vars
             PROVE  IInv'
  OBVIOUS
<1>1. CASE ReceivePart
  BY <1>1 DEF ReceivePart, IInv, Members, Phases, MethodIsKnown
<1>2. ASSUME NEW q \in Requests, ReceiveHead(q)
      PROVE  IInv'
  <2>1. conn.headers = <<>> /\ ~conn.timedOut
    BY <1>2 DEF ReceiveHead, IInv
  <2> QED
    BY <1>2, <2>1, HeadIsParsed DEF ReceiveHead, IInv, Members, Phases, MethodIsKnown
<1>3. CASE ReceiveRest
  <2>1. PICK name \in GeneratedNames : Fill(FillResponse(conn, disk, name))
    BY <1>3 DEF ReceiveRest
  <2>2. Answered(conn, conn')
    BY <1>3, <2>1, FillResponseAnswers DEF ReceiveRest, Fill, IInv
  <2> QED
    BY <1>3, <2>2 DEF ReceiveRest, IInv, Answered, SameRequest, Phases
<1>4. CASE ReadCGIOutput
  <2> DEFINE c == AddToContent(conn, <<ScriptOutput>>)
  <2>1. InTheMaking(conn, conn) /\ conn.phase = "filling" /\ ~conn.timedOut
    BY <1>4 DEF ReadCGIOutput, IInv, InTheMaking, SameRequest
  <2>2. InTheMaking(conn, c) /\ c.phase = "filling"
    BY <2>1, AddToContentKeeps DEF AddToContent, InTheMaking, SameRequest, Members
  <2>3. conn' = c \/ conn' = SetStatusCode(c, 413)
    BY <1>4 DEF ReadCGIOutput
  <2> HIDE DEF c
  <2>4. InTheMaking(conn, conn') /\ conn'.phase = "filling"
    BY <2>2, <2>3, SetStatusCodeKeeps
  <2> QED
    BY <2>1, <2>4 DEF IInv, InTheMaking, SameRequest, Phases
<1>5. CASE EndOfCGIOutput
  <2>1. InTheMaking(conn, conn)
    BY <1>5 DEF EndOfCGIOutput, IInv, InTheMaking, SameRequest
  <2>2. Answered(conn, conn') /\ conn'.phase \in {"filled", "crashed"}
    BY <1>5, <2>1, FilledAnswers
       DEF EndOfCGIOutput, Filled, CreateHTTPHeaders, InTheMaking, SameRequest, Members
  <2> QED
    BY <1>5, <2>2 DEF EndOfCGIOutput, IInv, Answered, SameRequest, Phases
<1>6. CASE TimeoutRequest
  BY <1>6, TimeoutAnswers DEF TimeoutRequest
<1>7. CASE TimeoutCgi
  BY <1>7, TimeoutAnswers DEF TimeoutCgi
<1>8. CASE SendResponse
  BY <1>8 DEF SendResponse, ResetContent, ResetResponse, IInv, Members, Phases
<1>9. CASE RemoveConnection
  BY <1>9 DEF RemoveConnection, IInv, Members, Phases
<1>10. CASE AcceptNewConnection
  BY <1>10 DEF AcceptNewConnection, NewConnection, IInv, Members, Phases
<1>11. CASE UNCHANGED vars
  BY <1>11 DEF vars, IInv, HeadersFit, MethodIsKnown
<1> QED
  BY <1>1, <1>2, <1>3, <1>4, <1>5, <1>6, <1>7, <1>8, <1>9, <1>10, <1>11 DEF Next

THEOREM Inductive == Spec => []IInv
  BY InitIInv, NextIInv, PTL DEF Spec

\* An answer has one header block, with its code and the length of its page.
THEOREM HeadersFitItsPage == Spec => []HeadersFitThePage
<1>1. IInv => HeadersFitThePage
  BY DEF IInv, HeadersFit, HeadersFitThePage
<1> QED
  BY <1>1, Inductive, PTL

\* A connection is kept if and only if the headers that were sent said so.
THEOREM ConnectionIsKeptAsSaid == Spec => ConnectionIsAsAnnounced
<1> DEFINE Said == SendResponse => (conn'.phase = "connected" <=> Head(conn.headers).keep)
<1>1. ASSUME IInv, SendResponse
      PROVE  conn'.phase = "connected" <=> Head(conn.headers).keep
  <2>1. DOMAIN conn = Members /\ HeadersFit(conn) /\ (conn.timedOut => ~conn.keep)
    BY <1>1 DEF IInv, SendResponse
  <2>2. Head(conn.headers).keep = conn.keep
    BY <2>1 DEF HeadersFit
  <2>3. conn'.phase = "connected" <=> conn.keep /\ ~conn.timedOut
    BY <1>1, <2>1 DEF SendResponse, ResetContent, ResetResponse, Members
  <2> QED
    BY <2>1, <2>2, <2>3
<1>2. IInv /\ [Next]_vars => [Said]_vars
  BY <1>1
<1> QED
  BY <1>2, Inductive, PTL DEF Spec, ConnectionIsAsAnnounced

-----------------------------------------------------------------------------
(* The roots of the error pages                                            *)

\* What the configuration sees to: every request has a route, at least the default
\* one, and there is no page for a request that timed out.
RoutesAndPages ==
  /\ \A q \in Requests : FindMatchingRoute(q.url) # NoRoute
  /\ 408 \notin DOMAIN ErrorPages

\* An error is a timeout's, or its request has a route.
HasItsRoute(c) == c.error => c.code = 408 \/ c.route # NoRoute

RootInv ==
  /\ conn.phase # "crashed"
  /\ conn.phase = "connected" => ~conn.error
  /\ conn.phase = "receiving" /\ conn.request # NoRequest => conn.route # NoRoute
  /\ conn.phase = "filling" => conn.route # NoRoute
  /\ conn.phase \in {"receiving", "filled"} => HasItsRoute(conn)

LEMMA InitRootInv == Init => RootInv
  BY DEF Init, RootInv, NewConnection, HasItsRoute

LEMMA TimeoutHasRoot ==
  ASSUME RoutesAndPages, DOMAIN conn = Members, NEW code, Timeout(code),
         HasItsRoute(conn), code = 408 \/ conn.route # NoRoute
  PROVE  RootInv'
<1> DEFINE c == [SetStatusCode(ResetResponse(conn), code) EXCEPT
                   !.timedOut = TRUE, !.keep = FALSE]
<1>1. DOMAIN c = Members /\ (c.code = 408 \/ c.route # NoRoute)
  BY DEF SetStatusCode, ResetResponse, HasItsRoute, Members
<1>2. conn' = Filled(c, disk)
  BY DEF Timeout
<1> HIDE DEF c
<1>3. ~HasNoRootForPage(c)
  BY <1>1 DEF HasNoRootForPage, RoutesAndPages
<1>4. conn'.phase = "filled" /\ conn'.code = c.code /\ conn'.route = c.route
  BY <1>1, <1>2, <1>3 DEF Filled, CreateHTTPHeaders, Members
<1> QED
  BY <1>1, <1>4 DEF RootInv, HasItsRoute

LEMMA NextRootInv ==
  ASSUME RoutesAndPages
  PROVE  IInv /\ RootInv /\ [Next]_vars => RootInv'
<1> SUFFICES ASSUME IInv, RootInv, [Next]_vars
             PROVE  RootInv'
  OBVIOUS
<1>0. DOMAIN conn = Members
  BY DEF IInv
<1>1. CASE ReceivePart
  BY <1>0, <1>1 DEF ReceivePart, IInv, RootInv, HasItsRoute, Members
<1>2. ASSUME NEW q \in Requests, ReceiveHead(q)
      PROVE  RootInv'
  <2>1. DOMAIN ParseHead(conn, q) = Members /\ ParseHead(conn, q).route # NoRoute
    BY <1>0, HeadIsParsed DEF RoutesAndPages
  <2> QED
    BY <1>2, <2>1 DEF ReceiveHead, RootInv, HasItsRoute, Members
<1>3. CASE ReceiveRest
  <2>1. PICK name \in GeneratedNames : Fill(FillResponse(conn, disk, name))
    BY <1>3 DEF ReceiveRest
  <2>2. Answered(conn, conn')
    BY <1>3, <2>1, FillResponseAnswers DEF ReceiveRest, Fill, IInv
  <2> QED
    BY <1>3, <2>2 DEF ReceiveRest, RootInv, HasItsRoute, Answered, SameRequest
<1>4. CASE ReadCGIOutput
  BY ZenonT(60), <1>0, <1>4 DEF ReadCGIOutput, AddToContent, SetStatusCode, RootInv, Members
<1>5. CASE EndOfCGIOutput
  <2>1. InTheMaking(conn, conn)
    BY <1>5 DEF EndOfCGIOutput, IInv, InTheMaking, SameRequest
  <2>2. Answered(conn, conn')
    BY <1>5, <2>1, FilledAnswers DEF EndOfCGIOutput
  <2> QED
    BY <1>5, <2>2 DEF EndOfCGIOutput, RootInv, HasItsRoute, Answered, SameRequest
<1>6. CASE TimeoutRequest
  BY <1>0, <1>6, TimeoutHasRoot DEF TimeoutRequest, RootInv
<1>7. CASE TimeoutCgi
  BY <1>0, <1>7, TimeoutHasRoot DEF TimeoutCgi, RootInv, HasItsRoute
<1>8. CASE SendResponse
  BY <1>0, <1>8 DEF SendResponse, ResetContent, ResetResponse, RootInv, Members
<1>9. CASE RemoveConnection
  BY <1>0, <1>9 DEF RemoveConnection, RootInv, Members
<1>10. CASE AcceptNewConnection
  BY <1>10 DEF AcceptNewConnection, NewConnection, RootInv
<1>11. CASE UNCHANGED vars
  BY <1>11 DEF vars, RootInv, HasItsRoute
<1> QED
  BY <1>1, <1>2, <1>3, <1>4, <1>5, <1>6, <1>7, <1>8, <1>9, <1>10, <1>11 DEF Next

\* No error page is looked for without a route, if every request can have one and
\* a timeout has no page.
THEOREM ErrorPagesAreRouted ==
  ASSUME RoutesAndPages
  PROVE  Spec => []ErrorPagesHaveARoot
<1>1. RootInv => ErrorPagesHaveARoot
  BY DEF RootInv, ErrorPagesHaveARoot
<1>2. IInv /\ RootInv /\ [Next]_vars => RootInv'
  BY NextRootInv
<1> QED
  BY <1>1, <1>2, Inductive, InitRootInv, PTL DEF Spec

-----------------------------------------------------------------------------
(* Answers stand alone                                                     *)

IsConnection(c) == c = [m \in Members |-> c[m]]

\* Two connections that differ in their phase at most.
Twins(c, e) ==
  /\ IsConnection(c) /\ IsConnection(e)
  /\ \A m \in Members \ {"phase"} : c[m] = e[m]

LEMMA TwinFields ==
  ASSUME NEW c, NEW e, Twins(c, e)
  PROVE  /\ DOMAIN c = Members /\ DOMAIN e = Members
         /\ c.request = e.request /\ c.route = e.route /\ c.session = e.session
         /\ c.code = e.code /\ c.error = e.error /\ c.headers = e.headers
         /\ c.page = e.page /\ c.routed = e.routed /\ c.keep = e.keep
         /\ c.timedOut = e.timedOut
  BY DEF Twins, IsConnection, Members

LEMMA TwinsOfOnePhase ==
  ASSUME NEW c, NEW e, Twins(c, e), c.phase = e.phase
  PROVE  c = e
<1>1. \A m \in Members : c[m] = e[m]
  BY DEF Twins
<1> QED
  BY <1>1 DEF Twins, IsConnection

LEMMA TwinsPut ==
  ASSUME NEW c, NEW e, Twins(c, e), NEW m \in Members, NEW v
  PROVE  Twins([c EXCEPT ![m] = v], [e EXCEPT ![m] = v])
  BY DEF Twins, IsConnection

LEMMA SamePhaseTwins ==
  ASSUME NEW c, NEW e, Twins(c, e), NEW x
  PROVE  [c EXCEPT !.phase = x] = [e EXCEPT !.phase = x]
<1> DEFINE c1 == [c EXCEPT !.phase = x]
           e1 == [e EXCEPT !.phase = x]
<1>1. "phase" \in Members
  BY DEF Members
<1>2. Twins(c1, e1)
  BY <1>1, TwinsPut
<1>3. c1.phase = x /\ e1.phase = x
  BY <1>1, TwinFields
<1> QED
  BY <1>2, <1>3, TwinsOfOnePhase

LEMMA StatusTwins ==
  ASSUME NEW c, NEW e, Twins(c, e), NEW code
  PROVE  /\ Twins(SetStatusCode(c, code), SetStatusCode(e, code))
         /\ SetStatusCode(c, code).phase = c.phase
<1>1. {"code", "error"} \subseteq Members
  BY DEF Members
<1> DEFINE high == code >= 400
           c1 == [c EXCEPT !.code = code, !.error = high]
           e1 == [e EXCEPT !.code = code, !.error = high]
<1>2. /\ SetStatusCode(c, code) = IF c.error THEN c ELSE c1
      /\ SetStatusCode(e, code) = IF e.error THEN e ELSE e1
  BY DEF SetStatusCode
<1>3. Twins(c1, e1) /\ c1.phase = c.phase
  <2> HIDE DEF high
  <2> QED BY <1>1, TwinFields DEF Twins, IsConnection, Members
<1>4. c.error = e.error
  BY TwinFields
<1> HIDE DEF c1, e1
<1> QED
  BY <1>2, <1>3, <1>4

LEMMA RouteTwins ==
  ASSUME NEW c, NEW e, Twins(c, e), NEW d
  PROVE  /\ Twins(RouteRequest(c, d), RouteRequest(e, d))
         /\ RouteRequest(c, d).phase = c.phase
<1> DEFINE v == ValidateRequestWithRoute(c)
           w == ValidateRequestWithRoute(e)
<1>0. Twins(e, c)
  BY DEF Twins
<1>1. Twins(v, w) /\ v.phase = c.phase
  BY TwinFields, StatusTwins DEF ValidateRequestWithRoute
<1>2. \A code : Twins(SetStatusCode(v, code), SetStatusCode(w, code))
                /\ SetStatusCode(v, code).phase = c.phase
  <2> HIDE DEF v, w
  <2> QED BY <1>1, StatusTwins
<1>3. \A x, y, p : Twins(x, y) =>
        /\ Twins([x EXCEPT !.routed = p], [y EXCEPT !.routed = p])
        /\ [x EXCEPT !.routed = p].phase = x.phase
  BY SMTT(30), TwinsPut, TwinFields DEF Members
<1>4. v.error = w.error
  <2> HIDE DEF v, w
  <2> QED BY <1>1, TwinFields
<1>5. c.request = e.request /\ c.route = e.route /\ c.session = e.session
  BY TwinFields
<1> DEFINE p == IF c.request.method = "POST" THEN RouteFilePathForPost(c.request.url, c.route)
                ELSE RouteFilePathForGet(d, c.request.url, c.route, c.session)
           Refused(x) ==
             CASE c.request.method # "POST" /\ p = NoPath -> SetStatusCode(x, 404)
               [] c.request.method = "DELETE" /\ p # NoPath /\ ~IsAllowedWrite(p) ->
                    SetStatusCode(x, 403)
               [] c.request.method = "POST" /\ ~IsExisting(d, p) -> SetStatusCode(x, 403)
               [] OTHER -> x
<1>6. /\ RouteRequest(c, d) = IF v.error THEN v ELSE [Refused(v) EXCEPT !.routed = p]
      /\ RouteRequest(e, d) = IF w.error THEN w ELSE [Refused(w) EXCEPT !.routed = p]
  BY <1>5 DEF RouteRequest
<1>7. Twins(Refused(v), Refused(w)) /\ Refused(v).phase = c.phase
  <2> HIDE DEF v, w, p
  <2> QED BY <1>1, <1>2
<1>8. CASE v.error
  <2> HIDE DEF v, w, p, Refused
  <2> QED BY <1>1, <1>4, <1>6, <1>8
<1>9. CASE ~v.error
  <2>1. Twins([Refused(v) EXCEPT !.routed = p], [Refused(w) EXCEPT !.routed = p])
        /\ [Refused(v) EXCEPT !.routed = p].phase = c.phase
    <3> HIDE DEF v, w, p, Refused
    <3> QED BY <1>3, <1>7
  <2> HIDE DEF v, w, p, Refused
  <2> QED BY <1>4, <1>6, <1>9, <2>1
<1> QED
  BY <1>8, <1>9

LEMMA FilledTwins ==
  ASSUME NEW c, NEW e, Twins(c, e), NEW d
  PROVE  Filled(c, d) = Filled(e, d)
<1>1. CASE HasNoRootForPage(c)
  BY <1>1, TwinFields, SamePhaseTwins DEF Filled, HasNoRootForPage
<1>2. CASE ~HasNoRootForPage(c)
  <2>1. ~HasNoRootForPage(e)
    BY <1>2, TwinFields DEF HasNoRootForPage
  <2>2. Twins(CreateHTTPHeaders(c, d), CreateHTTPHeaders(e, d))
    <3>1. {"page", "headers"} \subseteq Members
      BY DEF Members
    <3>2. FetchErrorPageContent(c, d) = FetchErrorPageContent(e, d)
      BY TwinFields DEF FetchErrorPageContent
    <3> DEFINE page == IF c.code >= 400 THEN FetchErrorPageContent(c, d) ELSE c.page
               headers == Append(c.headers, [code |-> c.code, length |-> Len(page), keep |-> c.keep])
    <3>4. /\ CreateHTTPHeaders(c, d) = [c EXCEPT !.page = page, !.headers = headers]
          /\ CreateHTTPHeaders(e, d) = [e EXCEPT !.page = page, !.headers = headers]
      BY <3>2, TwinFields DEF CreateHTTPHeaders, Members
    <3>5. Twins([c EXCEPT !.page = page, !.headers = headers],
                [e EXCEPT !.page = page, !.headers = headers])
      <4> HIDE DEF page, headers
      <4> QED BY <3>1 DEF Twins, IsConnection
    <3> HIDE DEF page, headers
    <3> QED BY <3>4, <3>5
  <2> QED
    BY <1>2, <2>1, <2>2, SamePhaseTwins DEF Filled
<1> QED
  BY <1>1, <1>2

LEMMA ServeErrorPageTwins ==
  ASSUME NEW c, NEW e, Twins(c, e), NEW d
  PROVE  ServeErrorPage(c, d) = ServeErrorPage(e, d)
  BY TwinsPut, FilledTwins DEF ServeErrorPage, Members

LEMMA ExecuteTwins ==
  ASSUME NEW c, NEW e, Twins(c, e), NEW d
  PROVE  ExecuteFile(c, d) = ExecuteFile(e, d)
  BY SamePhaseTwins DEF ExecuteFile

LEMMA GetTwins ==
  ASSUME NEW c, NEW e, Twins(c, e), NEW d
  PROVE  GetItemFromServer(c, d) = GetItemFromServer(e, d)
<1>1. c.route = e.route /\ c.routed = e.routed /\ c.page = e.page /\ DOMAIN c = Members
      /\ DOMAIN e = Members
  BY TwinFields
<1>2. \A content : Filled(AddToContent(c, content), d) = Filled(AddToContent(e, content), d)
  <2> SUFFICES ASSUME NEW content
               PROVE  Filled(AddToContent(c, content), d) = Filled(AddToContent(e, content), d)
    OBVIOUS
  <2> DEFINE page == c.page \o content
  <2>1. /\ AddToContent(c, content) = [c EXCEPT !.page = page]
        /\ AddToContent(e, content) = [e EXCEPT !.page = page]
    BY <1>1 DEF AddToContent
  <2>2. Twins([c EXCEPT !.page = page], [e EXCEPT !.page = page])
    <3> HIDE DEF page
    <3> QED BY TwinsPut DEF Members
  <2> HIDE DEF page
  <2>3. Twins(AddToContent(c, content), AddToContent(e, content))
    BY <2>1, <2>2
  <2> QED BY <2>3, FilledTwins
<1>3. ServeStatic(c, d) = ServeStatic(e, d)
  BY <1>1, <1>2, ServeErrorPageTwins DEF ServeStatic, ServeDirectoryListing
<1> QED
  BY <1>1, <1>3, ExecuteTwins DEF GetItemFromServer

LEMMA DeleteTwins ==
  ASSUME NEW c, NEW e, Twins(c, e), NEW d
  PROVE  DeleteItemFromServer(c, d) = DeleteItemFromServer(e, d)
<1>1. c.routed = e.routed
  BY TwinFields
<1>2. Filled(SetStatusCode(c, 204), d) = Filled(SetStatusCode(e, 204), d)
  BY StatusTwins, FilledTwins
<1> QED
  BY <1>1, <1>2, ServeErrorPageTwins DEF DeleteItemFromServer

\* What an upload leaves is the same, and both connections go on or neither does.
UploadTwins(u, v) ==
  /\ u.disk = v.disk
  /\ u.conn = v.conn \/ Twins(u.conn, v.conn)
  /\ u.conn.phase = "removed" <=> v.conn.phase = "removed"
  /\ u.conn.phase = "removed" => u.conn = v.conn

LEMMA WriteTwins ==
  ASSUME NEW c, NEW e, Twins(c, e), c.phase # "removed", e.phase # "removed",
         NEW d, NEW files, NEW ends
  PROVE  UploadTwins(WriteAll(c, d, files, ends), WriteAll(e, d, files, ends))
<1> DEFINE bad == {i \in DOMAIN files : ~CanCreate(d, files[i].path)}
           n   == IF bad = {} THEN Len(files) ELSE (CHOOSE i \in bad : \A j \in bad : i <= j) - 1
           w   == Write(d, SubSeq(files, 1, n))
<1>1. /\ WriteAll(c, d, files, ends) =
           [conn |-> IF bad = {} /\ ends THEN c ELSE [c EXCEPT !.phase = "removed"], disk |-> w]
      /\ WriteAll(e, d, files, ends) =
           [conn |-> IF bad = {} /\ ends THEN e ELSE [e EXCEPT !.phase = "removed"], disk |-> w]
  BY DEF WriteAll, Result
<1>2. [c EXCEPT !.phase = "removed"] = [e EXCEPT !.phase = "removed"]
      /\ [e EXCEPT !.phase = "removed"].phase = "removed"
  BY SamePhaseTwins, TwinFields DEF Members
<1> HIDE DEF bad, w
<1> QED
  BY <1>1, <1>2 DEF UploadTwins

LEMMA RefusalTwins ==
  ASSUME NEW c, NEW e, Twins(c, e), c.phase # "removed", e.phase # "removed", NEW d, NEW code
  PROVE  UploadTwins(Result(SetStatusCode(c, code), d), Result(SetStatusCode(e, code), d))
<1>1. Twins(e, c)
  BY DEF Twins
<1> QED
  BY <1>1, StatusTwins DEF UploadTwins, Result

LEMMA ParseTwins ==
  ASSUME NEW c, NEW e, Twins(c, e), c.phase # "removed", e.phase # "removed",
         NEW d, NEW name
  PROVE  UploadTwins(ParseBodyDataAndUpload(c, d, name), ParseBodyDataAndUpload(e, d, name))
<1>1. c.request = e.request /\ c.route = e.route /\ c.session = e.session /\ c.routed = e.routed
  BY TwinFields
<1>2. /\ UrlEncodedFiles(c) = UrlEncodedFiles(e) /\ MultiPartFiles(c) = MultiPartFiles(e)
      /\ TextFile(c, name) = TextFile(e, name)
  BY <1>1 DEF UrlEncodedFiles, MultiPartFiles, GenerateFilename, TextFile
<1>3. UploadTwins(ParseMultiPartBody(c, d), ParseMultiPartBody(e, d))
  <2> DEFINE parts == c.request.form.parts
             n == IF \E i \in DOMAIN parts : parts[i].key = ""
                  THEN (CHOOSE i \in DOMAIN parts :
                          /\ parts[i].key = ""
                          /\ \A j \in 1 .. i - 1 : parts[j].key # "") - 1
                  ELSE Len(parts)
             files == SubSeq(MultiPartFiles(c), 1, n)
             ends == n = Len(parts)
  <2>1. /\ ParseMultiPartBody(c, d) = IF ~c.request.form.opened THEN Result(SetStatusCode(c, 400), d)
                                      ELSE WriteAll(c, d, files, ends)
        /\ ParseMultiPartBody(e, d) = IF ~c.request.form.opened THEN Result(SetStatusCode(e, 400), d)
                                      ELSE WriteAll(e, d, files, ends)
    BY <1>1, <1>2 DEF ParseMultiPartBody
  <2> HIDE DEF files, ends
  <2> QED BY <2>1, WriteTwins, RefusalTwins
<1>4. UploadTwins(ParsePlainBody(c, d, name), ParsePlainBody(e, d, name))
  <2>1. UploadTwins(Result(c, Write(d, <<TextFile(c, name)>>)),
                    Result(e, Write(d, <<TextFile(c, name)>>)))
    BY DEF UploadTwins, Result
  <2> QED
    BY <1>2, <2>1, RefusalTwins DEF ParsePlainBody
<1> QED
  BY <1>1, <1>2, <1>3, <1>4, WriteTwins, RefusalTwins DEF ParseBodyDataAndUpload

IsResult(u) == u = Result(u.conn, u.disk)

LEMMA UploadIsResult ==
  ASSUME NEW c, NEW d, NEW name
  PROVE  IsResult(ParseBodyDataAndUpload(c, d, name))
<1>1. \A e, f : IsResult(Result(e, f))
  BY DEF IsResult, Result
<1>2. \A files, ends : IsResult(WriteAll(c, d, files, ends))
  BY <1>1 DEF WriteAll
<1>3. IsResult(ParseMultiPartBody(c, d))
  BY <1>1, <1>2 DEF ParseMultiPartBody
<1>4. IsResult(ParsePlainBody(c, d, name))
  BY <1>1 DEF ParsePlainBody
<1> QED
  BY <1>1, <1>2, <1>3, <1>4 DEF ParseBodyDataAndUpload

LEMMA PostTwins ==
  ASSUME NEW c, NEW e, Twins(c, e), c.phase # "removed", e.phase # "removed",
         NEW d, NEW name
  PROVE  PostItemFromServer(c, d, name) = PostItemFromServer(e, d, name)
<1> DEFINE u == ParseBodyDataAndUpload(c, d, name)
           v == ParseBodyDataAndUpload(e, d, name)
<1>1. UploadTwins(u, v)
  BY ParseTwins
<1>2. c.routed = e.routed /\ ExecuteFile(c, d) = ExecuteFile(e, d)
  BY TwinFields, ExecuteTwins
<1>3. u.conn = v.conn \/ Twins(u.conn, v.conn)
  BY <1>1 DEF UploadTwins
<1>4. Result(CreatePostResponsePage(u.conn, u.disk), u.disk)
        = Result(CreatePostResponsePage(v.conn, v.disk), v.disk)
  <2> HIDE DEF u, v
  <2>1. u.disk = v.disk
    BY <1>1 DEF UploadTwins
  <2>2. CASE u.conn = v.conn
    BY <2>1, <2>2
  <2>3. CASE Twins(u.conn, v.conn)
    BY <2>1, <2>3, StatusTwins, FilledTwins DEF CreatePostResponsePage
  <2> QED BY <1>3, <2>2, <2>3
<1>6. u.conn.phase = "removed" => u = v
  <2>1. IsResult(u) /\ IsResult(v)
    BY UploadIsResult
  <2> HIDE DEF u, v
  <2> QED BY <1>1, <2>1 DEF UploadTwins, IsResult
<1>7. u.conn.phase = "removed" <=> v.conn.phase = "removed"
  BY <1>1 DEF UploadTwins
<1> HIDE DEF u, v
<1>8. /\ PostItemFromServer(c, d, name) =
           CASE IsScript(c.routed) -> ExecuteFile(c, d)
             [] ~IsScript(c.routed) /\ u.conn.phase = "removed" -> u
             [] OTHER -> Result(CreatePostResponsePage(u.conn, u.disk), u.disk)
      /\ PostItemFromServer(e, d, name) =
           CASE IsScript(e.routed) -> ExecuteFile(e, d)
             [] ~IsScript(e.routed) /\ v.conn.phase = "removed" -> v
             [] OTHER -> Result(CreatePostResponsePage(v.conn, v.disk), v.disk)
  BY DEF PostItemFromServer, u, v
<1> QED
  BY <1>2, <1>4, <1>6, <1>7, <1>8

\* A handler does not look at the phase it is called in.
LEMMA FillTwins ==
  ASSUME NEW c, NEW e, Twins(c, e), c.phase # "removed", e.phase # "removed",
         MethodIsKnown(c), NEW d, NEW name
  PROVE  FillResponse(c, d, name) = FillResponse(e, d, name)
<1> DEFINE r == RouteRequest(c, d)
           s == RouteRequest(e, d)
<1>1. Twins(r, s) /\ r.phase # "removed" /\ s.phase # "removed"
  <2>1. Twins(e, c)
    BY DEF Twins
  <2> QED BY <2>1, RouteTwins
<1>2. r.error \/ r.request.method \in Known
  <2>1. DOMAIN c = Members
    BY TwinFields
  <2>2. c.error => r.error
    BY <2>1, RoutedErrorsStay
  <2>3. r.request = c.request
    BY <2>1 DEF RouteRequest, ValidateRequestWithRoute, SetStatusCode, Members
  <2> QED BY <2>2, <2>3 DEF MethodIsKnown
<1>3. r.error = s.error /\ r.request = s.request
  <2> HIDE DEF r, s
  <2> QED BY <1>1, TwinFields
<1>4. /\ Result(Filled(r, d), d) = Result(Filled(s, d), d)
      /\ GetItemFromServer(r, d) = GetItemFromServer(s, d)
      /\ PostItemFromServer(r, d, name) = PostItemFromServer(s, d, name)
      /\ DeleteItemFromServer(r, d) = DeleteItemFromServer(s, d)
  <2> HIDE DEF r, s
  <2> QED BY <1>1, FilledTwins, GetTwins, PostTwins, DeleteTwins
<1>5. /\ FillResponse(c, d, name) =
           CASE r.error -> Result(Filled(r, d), d)
             [] ~r.error /\ r.request.method = "GET" -> GetItemFromServer(r, d)
             [] ~r.error /\ r.request.method = "POST" -> PostItemFromServer(r, d, name)
             [] ~r.error /\ r.request.method = "DELETE" -> DeleteItemFromServer(r, d)
      /\ FillResponse(e, d, name) =
           CASE s.error -> Result(Filled(s, d), d)
             [] ~s.error /\ s.request.method = "GET" -> GetItemFromServer(s, d)
             [] ~s.error /\ s.request.method = "POST" -> PostItemFromServer(s, d, name)
             [] ~s.error /\ s.request.method = "DELETE" -> DeleteItemFromServer(s, d)
  BY DEF FillResponse
<1> HIDE DEF r, s
<1> QED
  BY <1>2, <1>3, <1>4, <1>5 DEF Known

\* A connection on which nothing has been asked yet, in a session.
Newly(session, phase) == [NewConnection EXCEPT !.session = session, !.phase = phase]

\* Before a request nothing is left of the one before it, and a request that has been
\* parsed is what the parser makes of it on a new connection.
FreshInv ==
  /\ conn.phase \in {"connected", "receiving"} /\ conn.request = NoRequest =>
       conn = Newly(conn.session, conn.phase)
  /\ conn.phase = "receiving" /\ conn.request # NoRequest =>
       Twins(conn, ParseHead(Newly(conn.session, "connected"), conn.request))

LEMMA SameConnection ==
  ASSUME NEW c, NEW e, IsConnection(c), IsConnection(e),
         c.phase = e.phase, c.request = e.request, c.route = e.route, c.session = e.session,
         c.code = e.code, c.error = e.error, c.headers = e.headers, c.page = e.page,
         c.routed = e.routed, c.keep = e.keep, c.timedOut = e.timedOut
  PROVE  c = e
<1>1. \A m \in Members : c[m] = e[m]
  BY DEF Members
<1> QED
  BY <1>1 DEF IsConnection

LEMMA AreTwins ==
  ASSUME NEW c, NEW e, IsConnection(c), IsConnection(e),
         c.request = e.request, c.route = e.route, c.session = e.session,
         c.code = e.code, c.error = e.error, c.headers = e.headers, c.page = e.page,
         c.routed = e.routed, c.keep = e.keep, c.timedOut = e.timedOut
  PROVE  Twins(c, e)
<1>1. \A m \in Members \ {"phase"} : c[m] = e[m]
  BY DEF Members
<1> QED
  BY <1>1 DEF Twins

\* It has the members of a new one, of which only the two are given.
Blank(c) ==
  /\ IsConnection(c)
  /\ c.request = NoRequest /\ c.route = NoRoute /\ c.code = 200 /\ c.error = FALSE
  /\ c.headers = <<>> /\ c.page = <<>> /\ c.routed = NoPath
  /\ c.keep = FALSE /\ c.timedOut = FALSE

LEMMA NewlyIsBlank ==
  ASSUME NEW session, NEW phase
  PROVE  /\ Blank(Newly(session, phase))
         /\ Newly(session, phase).session = session /\ Newly(session, phase).phase = phase
         /\ Coded(Newly(session, phase))
<1>1. IsConnection(NewConnection)
  <2>1. DOMAIN NewConnection = Members
    BY DEF NewConnection, Members
  <2>2. NewConnection = [m \in DOMAIN NewConnection |-> NewConnection[m]]
    BY DEF NewConnection
  <2> QED BY <2>1, <2>2 DEF IsConnection
<1>2. IsConnection(Newly(session, phase))
  BY <1>1 DEF Newly, IsConnection
<1>3. /\ NewConnection.request = NoRequest /\ NewConnection.route = NoRoute
      /\ NewConnection.code = 200 /\ NewConnection.error = FALSE
      /\ NewConnection.headers = <<>> /\ NewConnection.page = <<>>
      /\ NewConnection.routed = NoPath /\ NewConnection.keep = FALSE
      /\ NewConnection.timedOut = FALSE
  BY DEF NewConnection
<1>4. DOMAIN NewConnection = Members
  BY DEF NewConnection, Members
<1>5. Blank(Newly(session, phase))
  BY <1>2, <1>3, <1>4 DEF Newly, Blank, Members
<1>6. Newly(session, phase).session = session /\ Newly(session, phase).phase = phase
  BY <1>4 DEF Newly, Members
<1> QED
  BY <1>5, <1>6 DEF Blank, Coded

LEMMA BlankIsNewly ==
  ASSUME NEW c, Blank(c)
  PROVE  c = Newly(c.session, c.phase)
<1> DEFINE n == Newly(c.session, c.phase)
<1>1. Blank(n) /\ n.session = c.session /\ n.phase = c.phase
  BY NewlyIsBlank
<1> HIDE DEF n
<1>2. c = n
  BY <1>1, SameConnection DEF Blank
<1> QED
  BY <1>2 DEF n

\* The session before a request does not matter to one that brings its own.
LEMMA HeadTwins ==
  ASSUME NEW q, NEW s, NEW phase
  PROVE  LET t == IF q.cookie = 0 THEN s ELSE q.cookie
         IN Twins(ParseHead(Newly(s, phase), q), ParseHead(Newly(t, "connected"), q))
<1> DEFINE t == IF q.cookie = 0 THEN s ELSE q.cookie
           c == Newly(s, phase)
           e == Newly(t, "connected")
           c1 == [c EXCEPT !.request = q, !.route = FindMatchingRoute(q.url),
                           !.session = IF q.cookie = 0 THEN @ ELSE q.cookie, !.keep = q.keep]
           e1 == [e EXCEPT !.request = q, !.route = FindMatchingRoute(q.url),
                           !.session = IF q.cookie = 0 THEN @ ELSE q.cookie, !.keep = q.keep]
           c2 == SetRequestLine(c1)
           e2 == SetRequestLine(e1)
           c3 == CheckMethodIsAllowed(c2)
           e3 == CheckMethodIsAllowed(e2)
           c4 == IF q.fault = "size" THEN SetStatusCode(c3, 413) ELSE c3
           e4 == IF q.fault = "size" THEN SetStatusCode(e3, 413) ELSE e3
<1>1. Twins(c1, e1)
  <2>1. Blank(c) /\ Blank(e) /\ c.session = s /\ e.session = t
    BY NewlyIsBlank
  <2> HIDE DEF c, e
  <2>2. IsConnection(c1) /\ IsConnection(e1)
    BY <2>1 DEF Blank, IsConnection
  <2>3. /\ c1.request = q /\ c1.route = FindMatchingRoute(q.url) /\ c1.session = t
        /\ c1.code = 200 /\ c1.error = FALSE /\ c1.headers = <<>> /\ c1.page = <<>>
        /\ c1.routed = NoPath /\ c1.keep = q.keep /\ c1.timedOut = FALSE
    BY <2>1 DEF Blank, IsConnection, Members
  <2>4. /\ e1.request = q /\ e1.route = FindMatchingRoute(q.url) /\ e1.session = t
        /\ e1.code = 200 /\ e1.error = FALSE /\ e1.headers = <<>> /\ e1.page = <<>>
        /\ e1.routed = NoPath /\ e1.keep = q.keep /\ e1.timedOut = FALSE
    BY <2>1 DEF Blank, IsConnection, Members
  <2> HIDE DEF c1, e1, t
  <2> QED BY <2>2, <2>3, <2>4, AreTwins
<1> HIDE DEF c1, e1
<1>2. Twins(c2, e2)
  BY <1>1, TwinFields, StatusTwins DEF SetRequestLine
<1> HIDE DEF c2, e2
<1>3. Twins(c3, e3)
  BY <1>2, TwinFields, StatusTwins DEF CheckMethodIsAllowed
<1> HIDE DEF c3, e3
<1>4. Twins(c4, e4)
  BY <1>3, StatusTwins
<1>5. /\ ParseHead(c, q) = IF q.method = "POST" /\ q.form.kind = "none" THEN SetStatusCode(c4, 415) ELSE c4
      /\ ParseHead(e, q) = IF q.method = "POST" /\ q.form.kind = "none" THEN SetStatusCode(e4, 415) ELSE e4
  BY DEF ParseHead, c1, c2, c3, e1, e2, e3
<1> HIDE DEF c, e, c4, e4
<1>6. Twins(ParseHead(c, q), ParseHead(e, q))
  BY <1>4, <1>5, StatusTwins
<1> QED
  BY <1>6 DEF c, e

LEMMA FirstIsNewly ==
  /\ NewConnection = Newly(NewConnection.session, NewConnection.phase)
  /\ \A s : [NewConnection EXCEPT !.session = s] = Newly(s, "connected")
<1>1. /\ NewConnection.phase = "connected" /\ NewConnection.session = 0
      /\ DOMAIN NewConnection = Members
  BY DEF NewConnection, Members
<1>2. Blank(NewConnection)
  BY DEF Blank, IsConnection, NewConnection, Members
<1>3. ASSUME NEW s PROVE Blank([NewConnection EXCEPT !.session = s])
  BY <1>1, <1>2 DEF Blank, IsConnection, Members
<1>4. ASSUME NEW s
      PROVE  /\ [NewConnection EXCEPT !.session = s].session = s
             /\ [NewConnection EXCEPT !.session = s].phase = "connected"
  BY <1>1 DEF Members
<1>5. ASSUME NEW s
      PROVE  [NewConnection EXCEPT !.session = s] = Newly(s, "connected")
  <2> DEFINE e == [NewConnection EXCEPT !.session = s]
  <2>1. Blank(e) /\ e.session = s /\ e.phase = "connected"
    BY <1>3, <1>4
  <2> HIDE DEF e
  <2>2. e = Newly(s, "connected")
    BY <2>1, BlankIsNewly
  <2> QED BY <2>2 DEF e
<1> QED
  BY <1>2, <1>5, BlankIsNewly

LEMMA InitFreshInv == Init => FreshInv
<1> SUFFICES ASSUME Init PROVE FreshInv
  OBVIOUS
<1>1. conn = Newly(conn.session, conn.phase) /\ conn.request = NoRequest
  BY FirstIsNewly DEF Init, NewConnection
<1> QED
  BY <1>1 DEF FreshInv

LEMMA NextFreshInv == IInv /\ FreshInv /\ [Next]_vars => FreshInv'
<1> SUFFICES ASSUME IInv, FreshInv, [Next]_vars
             PROVE  FreshInv'
  OBVIOUS
<1>0. DOMAIN conn = Members /\ NoRequest \notin Requests
  BY RequestsAssumption DEF IInv
<1>1. CASE ReceivePart
  <2>1. conn = Newly(conn.session, "connected") /\ conn.request = NoRequest
    BY <1>1 DEF ReceivePart, IInv, FreshInv
  <2>2. conn' = [conn EXCEPT !.phase = "receiving"]
    BY <1>1 DEF ReceivePart
  <2>3. conn' = Newly(conn.session, "receiving") /\ conn'.session = conn.session
        /\ conn'.phase = "receiving" /\ conn'.request = NoRequest
    BY <1>0, <2>1, <2>2 DEF Newly, NewConnection, Members
  <2> QED BY <2>3 DEF FreshInv
<1>2. ASSUME NEW q \in Requests, ReceiveHead(q)
      PROVE  FreshInv'
  <2> DEFINE e == ParseHead(conn, q)
             t == IF q.cookie = 0 THEN conn.session ELSE q.cookie
  <2>1. conn = Newly(conn.session, conn.phase)
    BY <1>2 DEF ReceiveHead, FreshInv
  <2>2. conn' = [e EXCEPT !.phase = "receiving"]
    BY <1>2 DEF ReceiveHead
  <2>3. DOMAIN e = Members /\ e.session = t /\ e.request = q
    BY <1>0, HeadIsParsed
  <2>4. Twins(e, ParseHead(Newly(t, "connected"), q))
    BY <2>1, HeadTwins
  <2> HIDE DEF e, t
  <2>5. conn'.session = t /\ conn'.request = q /\ conn'.phase = "receiving"
    BY <2>2, <2>3 DEF Members
  <2>6. Twins(conn', ParseHead(Newly(t, "connected"), q))
    BY <2>2, <2>4 DEF Twins, IsConnection
  <2> QED BY <1>0, <2>5, <2>6 DEF FreshInv
<1>3. CASE ReceiveRest
  <2>1. PICK name \in GeneratedNames : Fill(FillResponse(conn, disk, name))
    BY <1>3 DEF ReceiveRest
  <2>2. Answered(conn, conn')
    BY <1>3, <2>1, FillResponseAnswers DEF ReceiveRest, Fill, IInv
  <2> QED BY <2>2 DEF Answered, FreshInv
<1>4. CASE ReadCGIOutput
  <2>1. conn'.phase = "filling"
    BY ZenonT(60), <1>0, <1>4 DEF ReadCGIOutput, AddToContent, SetStatusCode, Members
  <2> QED BY <2>1 DEF FreshInv
<1>5. CASE EndOfCGIOutput \/ TimeoutRequest \/ TimeoutCgi
  <2>1. \A c : DOMAIN c = Members => Filled(c, disk).phase \in {"filled", "crashed"}
    BY DEF Filled, CreateHTTPHeaders, Members
  <2>2. \A code : DOMAIN [SetStatusCode(ResetResponse(conn), code) EXCEPT
                            !.timedOut = TRUE, !.keep = FALSE] = Members
    BY <1>0 DEF SetStatusCode, ResetResponse
  <2>3. conn'.phase \in {"filled", "crashed"}
    BY ZenonT(60), <1>0, <1>5, <2>1, <2>2 DEF EndOfCGIOutput, TimeoutRequest, TimeoutCgi, Timeout
  <2> QED BY <2>3 DEF FreshInv
<1>8. CASE SendResponse
  <2>1. CASE conn.keep /\ ~conn.timedOut
    <3> DEFINE e == ResetContent(conn)
    <3>1. conn' = e
      BY <1>8, <2>1 DEF SendResponse
    <3>2. conn.timedOut = FALSE
      BY <1>8, <2>1 DEF IInv
    <3>3. IsConnection(e)
      BY <1>0 DEF ResetContent, ResetResponse, IsConnection
    <3>4. Blank(e) /\ e.phase = "connected"
      BY <1>0, <3>2, <3>3 DEF ResetContent, ResetResponse, Blank, Members
    <3> HIDE DEF e
    <3>5. e = Newly(e.session, e.phase)
      BY <3>4, BlankIsNewly
    <3> QED BY <3>1, <3>4, <3>5 DEF FreshInv
  <2>2. CASE ~(conn.keep /\ ~conn.timedOut)
    BY <1>0, <1>8, <2>2 DEF SendResponse, FreshInv, Members
  <2> QED BY <2>1, <2>2
<1>9. CASE RemoveConnection
  BY <1>0, <1>9 DEF RemoveConnection, FreshInv, Members
<1>10. CASE AcceptNewConnection
  <2>1. conn' = Newly(conn'.session, conn'.phase) /\ conn'.phase = "connected"
        /\ conn'.request = NoRequest
    BY <1>10, FirstIsNewly DEF AcceptNewConnection, NewConnection
  <2> QED BY <2>1 DEF FreshInv
<1>11. CASE UNCHANGED vars
  BY <1>11 DEF vars, FreshInv
<1> QED
  BY <1>1, <1>2, <1>3, <1>4, <1>5, <1>8, <1>9, <1>10, <1>11 DEF Next

THEOREM FreshInductive == Spec => [](IInv /\ FreshInv)
  BY Inductive, InitFreshInv, NextFreshInv, PTL DEF Spec

\* Only a handler that has the whole of a request answers it.
LEMMA AnswersAreGiven ==
  ASSUME IInv, [Next]_vars, Answering
  PROVE  ReceiveRest
<1>0. DOMAIN conn = Members
  BY DEF IInv
<1>1. ~TimeoutRequest
  <2> DEFINE c == [SetStatusCode(ResetResponse(conn), 408) EXCEPT
                     !.timedOut = TRUE, !.keep = FALSE]
  <2>1. InTheMaking(c, c) /\ c.timedOut
    BY <1>0 DEF InTheMaking, SameRequest, SetStatusCode, ResetResponse, Members
  <2>2. TimeoutRequest => conn' = Filled(c, disk)
    BY DEF TimeoutRequest, Timeout
  <2> HIDE DEF c
  <2> QED BY <2>1, <2>2, FilledAnswers DEF Answering, Answered, SameRequest
<1>2. ~(\E q \in Requests : ReceiveHead(q))
  BY DEF ReceiveHead, Answering
<1>3. ~(RemoveConnection \/ UNCHANGED vars)
  BY <1>0 DEF RemoveConnection, vars, Answering, Members
<1> QED
  BY <1>1, <1>2, <1>3 DEF Next, Answering, ReceivePart, ReadCGIOutput, EndOfCGIOutput, TimeoutCgi,
     SendResponse, AcceptNewConnection

\* FillResponse() gives a connection and a disk.
LEMMA FillIsResult ==
  ASSUME NEW c, NEW d, NEW name, DOMAIN c = Members, MethodIsKnown(c)
  PROVE  IsResult(FillResponse(c, d, name))
<1> DEFINE r == RouteRequest(c, d)
<1>1. r.error \/ r.request.method \in Known
  <2>1. c.error => r.error
    BY RoutedErrorsStay
  <2>2. r.request = c.request
    BY DEF RouteRequest, ValidateRequestWithRoute, SetStatusCode, Members
  <2> QED BY <2>1, <2>2 DEF MethodIsKnown
<1>2. \A e, f : IsResult(Result(e, f))
  BY DEF IsResult, Result
<1> HIDE DEF r
<1>3. IsResult(GetItemFromServer(r, d)) /\ IsResult(DeleteItemFromServer(r, d))
  BY <1>2 DEF GetItemFromServer, DeleteItemFromServer, ExecuteFile
<1>4. IsResult(PostItemFromServer(r, d, name))
  BY <1>2, UploadIsResult DEF PostItemFromServer, ExecuteFile
<1> QED
  BY <1>1, <1>2, <1>3, <1>4 DEF FillResponse, Known, r

\* What a request is answered and does to the disk is what it would be as the first
\* request of its connection, for any requests before it.
THEOREM AnswersAreTheirOwn == Spec => AnswersStandAlone
<1> DEFINE Alone ==
      Answering =>
        \E name \in GeneratedNames :
          LET first == [NewConnection EXCEPT !.session = conn.session]
          IN FillResponse(ParseHead(first, conn.request), disk, name) = Result(conn', disk')
<1>1. ASSUME IInv, FreshInv, [Next]_vars, Answering
      PROVE  Alone
  <2> DEFINE first == [NewConnection EXCEPT !.session = conn.session]
             e == ParseHead(first, conn.request)
  <2>1. PICK name \in GeneratedNames :
               conn' = FillResponse(conn, disk, name).conn
               /\ disk' = FillResponse(conn, disk, name).disk
    BY <1>1, AnswersAreGiven DEF ReceiveRest, Fill
  <2>2. conn.phase = "receiving" /\ conn.request # NoRequest
    BY <1>1 DEF Answering
  <2>3. first = Newly(conn.session, "connected")
    BY FirstIsNewly
  <2>4. Twins(conn, e)
    BY <1>1, <2>2, <2>3 DEF FreshInv
  <2>5. e.phase = "connected"
    <3>0. /\ IsConnection(Newly(conn.session, "connected"))
          /\ Newly(conn.session, "connected").phase = "connected"
      <4>1. /\ Blank(Newly(conn.session, "connected"))
            /\ Newly(conn.session, "connected").phase = "connected"
        BY NewlyIsBlank
      <4> QED BY <4>1 DEF Blank
    <3>1. first.phase = "connected" /\ DOMAIN first = Members
      <4> HIDE DEF first
      <4> QED BY <2>3, <3>0 DEF IsConnection
    <3> HIDE DEF first
    <3> QED BY <3>1, HeadIsParsed
  <2>6. MethodIsKnown(conn) /\ DOMAIN conn = Members
    BY <1>1, <2>2 DEF IInv
  <2> HIDE DEF e
  <2>7. FillResponse(conn, disk, name) = FillResponse(e, disk, name)
    BY <2>2, <2>4, <2>5, <2>6, FillTwins
  <2>8. FillResponse(conn, disk, name) = Result(conn', disk')
    BY <2>1, <2>6, FillIsResult DEF IsResult
  <2> QED BY <2>7, <2>8 DEF e
<1>2. IInv /\ FreshInv /\ [Next]_vars => [Alone]_vars
  BY <1>1
<1> QED
  BY <1>2, FreshInductive, PTL DEF Spec, AnswersStandAlone

-----------------------------------------------------------------------------
(* The disk follows the answer                                             *)

LEMMA Least ==
  ASSUME NEW B, B \subseteq Nat, B # {}
  PROVE  \E x \in B : \A y \in B : x <= y
<1> DEFINE R == {ss \in Nat \X Nat : ss[1] < ss[2]}
<1>1. IsWellFoundedOn(R, Nat)
  BY NatLessThanWellFounded DEF OpToRel
<1>2. PICK x \in B : \A y \in B : ~(<<y, x>> \in R)
  <2> HIDE DEF R
  <2> QED BY <1>1, WFMin
<1>3. ASSUME NEW y \in B PROVE x <= y
  <2>1. x \in Nat /\ y \in Nat /\ ~(y < x)
    BY <1>2
  <2> QED BY <2>1
<1> QED
  BY <1>3

\* What a GET or a DELETE is about is a file that is there, or a directory.
LEMMA GetFindsWhatIsThere ==
  ASSUME NEW d, NEW url, NEW r \in RouteType, NEW session
  PROVE  LET p == RouteFilePathForGet(d, url, r, session)
         IN p = NoPath \/ IsDirectory(p) \/ p \in DOMAIN d
<1>1. ASSUME NEW p
      PROVE  LET q == RouteFilePathForGetAsDirectory(d, p, r)
             IN q = NoPath \/ IsDirectory(q) \/ q \in DOMAIN d
  <2> DEFINE found == DefaultFiles(d, p, r)
             i == CHOOSE x \in found : \A y \in found : x <= y
             q == RouteFilePathForGetAsDirectory(d, p, r)
  <2>1. ASSUME found # {} PROVE Append(p, r.index[i]) \in DOMAIN d
    <3>1. found \subseteq Nat
      BY DEF DefaultFiles, RouteType
    <3>2. \E x \in found : \A y \in found : x <= y
      <4> HIDE DEF found
      <4> QED BY <2>1, <3>1, Least
    <3>3. i \in found
      <4> HIDE DEF found
      <4> QED BY <3>2
    <3> QED BY <3>3 DEF DefaultFiles, IsValidGetFilePath
  <2>2. \/ q = NoPath
        \/ IsDirectory(p) /\ found # {} /\ q = Append(p, r.index[i])
        \/ IsDirectory(p) /\ q = p
    BY DEF RouteFilePathForGetAsDirectory
  <2> HIDE DEF q, found, i
  <2>3. q = NoPath \/ IsDirectory(q) \/ q \in DOMAIN d
    BY <2>1, <2>2
  <2> QED BY <2>3 DEF q
<1> DEFINE p == ReplaceRoutePathByRootDirectory(url, r)
           own == AddSessionIdPrefixToGet(d, p, r, session)
           got == RouteFilePathForGet(d, url, r, session)
<1>2. \/ got = NoPath
      \/ got = p /\ IsValidGetFilePath(d, p)
      \/ got = own /\ IsValidGetFilePath(d, own)
      \/ got = RouteFilePathForGetAsDirectory(d, p, r)
  <2> HIDE DEF p, own
  <2> QED BY DEF RouteFilePathForGet, p, own
<1> HIDE DEF p, own, got
<1>3. got = NoPath \/ IsDirectory(got) \/ got \in DOMAIN d
  BY <1>1, <1>2 DEF IsValidGetFilePath
<1> QED
  BY <1>3 DEF got

LEMMA StatusIsCoded ==
  ASSUME NEW c, DOMAIN c = Members, Coded(c), NEW code \in {201, 204, 400, 403, 404, 405, 415, 500}
  PROVE  LET e == SetStatusCode(c, code)
         IN /\ DOMAIN e = Members
            /\ e.request = c.request /\ e.route = c.route /\ e.session = c.session
            /\ e.routed = c.routed /\ e.phase = c.phase
            /\ c.error => e = c
            /\ ~c.error => e.code = code /\ e.error = (code >= 400)
            /\ code >= 400 => Coded(e) /\ e.error
<1> DEFINE high == code >= 400
           e == [c EXCEPT !.code = code, !.error = high]
<1>1. SetStatusCode(c, code) = IF c.error THEN c ELSE e
  BY DEF SetStatusCode
<1>2. /\ DOMAIN e = Members /\ e.request = c.request /\ e.route = c.route
      /\ e.session = c.session /\ e.routed = c.routed /\ e.phase = c.phase
      /\ e.code = code /\ e.error = high
  <2> HIDE DEF high
  <2> QED BY DEF Members
<1>3. high \in BOOLEAN /\ (high => Coded(e) /\ e.error)
  <2>1. high \in BOOLEAN
    OBVIOUS
  <2> HIDE DEF e
  <2>2. high => code >= 400
    OBVIOUS
  <2> HIDE DEF high
  <2> QED BY <1>2, <2>1, <2>2 DEF Coded
<1> HIDE DEF e
<1>4. CASE c.error
  BY <1>1, <1>4 DEF Coded
<1>5. CASE ~c.error
  BY <1>1, <1>2, <1>3, <1>5
<1> QED
  BY <1>4, <1>5

\* What routeRequest() leaves: an error, or the file the URL stands for.
LEMMA RouteFinds ==
  ASSUME NEW c, DOMAIN c = Members, Coded(c), NEW d
  PROVE  LET r == RouteRequest(c, d)
         IN /\ DOMAIN r = Members /\ Coded(r) /\ r.phase = c.phase
            /\ r.request = c.request /\ r.route = c.route /\ r.session = c.session
            /\ ~r.error =>
                 /\ c.route # NoRoute
                 /\ r.routed = IF c.request.method = "POST"
                               THEN RouteFilePathForPost(c.request.url, c.route)
                               ELSE RouteFilePathForGet(d, c.request.url, c.route, c.session)
                 /\ c.request.method # "POST" => r.routed # NoPath
<1> DEFINE v == ValidateRequestWithRoute(c)
           p == IF c.request.method = "POST" THEN RouteFilePathForPost(c.request.url, c.route)
                ELSE RouteFilePathForGet(d, c.request.url, c.route, c.session)
           w == CASE c.request.method # "POST" /\ p = NoPath -> SetStatusCode(v, 404)
                  [] c.request.method = "DELETE" /\ p # NoPath /\ ~IsAllowedWrite(p) ->
                       SetStatusCode(v, 403)
                  [] c.request.method = "POST" /\ ~IsExisting(d, p) -> SetStatusCode(v, 403)
                  [] OTHER -> v
           r == RouteRequest(c, d)
           Kept(x) == /\ DOMAIN x = Members /\ Coded(x) /\ x.phase = c.phase
                      /\ x.request = c.request /\ x.route = c.route /\ x.session = c.session
<1>1. r = IF v.error THEN v ELSE [w EXCEPT !.routed = p]
  BY DEF RouteRequest
<1>2. Kept(v) /\ (v.error \/ c.route # NoRoute)
  <2>1. Kept(c)
    OBVIOUS
  <2>2. ASSUME NEW code \in {404, 405}
        PROVE  Kept(SetStatusCode(c, code)) /\ SetStatusCode(c, code).error
    BY StatusIsCoded
  <2> HIDE DEF Kept
  <2>3. (v = c /\ c.route # NoRoute) \/ v \in {SetStatusCode(c, 404), SetStatusCode(c, 405)}
    BY DEF ValidateRequestWithRoute
  <2> HIDE DEF v
  <2> QED BY <2>1, <2>2, <2>3
<1> HIDE DEF v, p
<1>3. Kept(w) /\ (w.error \/ (c.request.method # "POST" => p # NoPath))
  <2>2. ASSUME NEW code \in {403, 404}
        PROVE  Kept(SetStatusCode(v, code)) /\ SetStatusCode(v, code).error
    BY <1>2, StatusIsCoded
  <2> HIDE DEF Kept
  <2>3. \/ w = v /\ (c.request.method # "POST" => p # NoPath)
        \/ w \in {SetStatusCode(v, 403), SetStatusCode(v, 404)}
    OBVIOUS
  <2> HIDE DEF w
  <2> QED BY <1>2, <2>2, <2>3
<1> HIDE DEF w
<1>4. CASE v.error
  BY <1>1, <1>2, <1>4 DEF r
<1>5. CASE ~v.error
  <2> DEFINE e == [w EXCEPT !.routed = p]
  <2>1. Kept(e) /\ e.error = w.error /\ e.routed = p
    BY <1>3 DEF Members, Coded
  <2>2. r = e
    BY <1>1, <1>5
  <2> HIDE DEF e, r
  <2>3. Kept(r) /\ (~r.error => c.route # NoRoute /\ r.routed = p
                               /\ (c.request.method # "POST" => r.routed # NoPath))
    BY <1>2, <1>3, <1>5, <2>1, <2>2
  <2> QED BY <2>3 DEF r, p
<1> QED
  BY <1>4, <1>5

LEMMA FilledKeeps ==
  ASSUME NEW c, DOMAIN c = Members, NEW d
  PROVE  LET e == Filled(c, d)
         IN /\ e.code = c.code /\ e.routed = c.routed
            /\ c.code \in {200, 201, 204} => e.phase = "filled"
<1>1. CASE HasNoRootForPage(c)
  <2>1. c.code >= 400
    BY <1>1 DEF HasNoRootForPage
  <2>2. Filled(c, d) = [c EXCEPT !.phase = "crashed"]
    BY <1>1 DEF Filled
  <2>3. c.code \notin {200, 201, 204}
    BY <2>1
  <2> QED BY <2>2, <2>3 DEF Members
<1>2. CASE ~HasNoRootForPage(c)
  BY <1>2 DEF Filled, CreateHTTPHeaders, Members
<1> QED
  BY <1>1, <1>2

\* What an answer does to the disk: nothing, if it is an error; it removes the file
\* that a GET would serve, if it says so; and removes nothing otherwise.
Follows(c, d, R) ==
  LET got == RouteFilePathForGet(d, c.request.url, c.route, c.session)
  IN \/ /\ R.conn.code # 204 /\ DOMAIN d \subseteq DOMAIN R.disk
        /\ (R.conn.phase = "filled" /\ R.conn.code >= 400) => R.disk = d
     \/ /\ R.conn.code = 204 /\ R.conn.phase = "filled" /\ got \in DOMAIN d
        /\ R.disk = [p \in DOMAIN d \ {got} |-> d[p]]

LEMMA NothingChanges ==
  ASSUME NEW c, NEW d, NEW e, e.code # 204
  PROVE  Follows(c, d, Result(e, d))
  BY DEF Follows, Result

\* Nothing has gone wrong yet.
Untouched(c) == DOMAIN c = Members /\ c.code = 200 /\ c.error = FALSE

\* An answer with the code 200 is to a request whose objects it leaves.
LEMMA GetLeaves ==
  ASSUME NEW c, NEW d, DOMAIN c = Members, c.code = 200
  PROVE  LET R == GetItemFromServer(c, d)
         IN R.conn.code = 200 /\ R = Result(R.conn, d)
<1>1. \A content : AddToContent(c, content).code = 200
                   /\ DOMAIN AddToContent(c, content) = Members
  BY DEF AddToContent, Members
<1>2. [c EXCEPT !.error = TRUE].code = 200 /\ DOMAIN [c EXCEPT !.error = TRUE] = Members
  BY DEF Members
<1>3. ServeStatic(c, d).code = 200
  <2>1. \A content : Filled(AddToContent(c, content), d).code = 200
    BY <1>1, FilledKeeps
  <2>2. ServeErrorPage(c, d).code = 200
    <3> DEFINE f == [c EXCEPT !.error = TRUE]
    <3>1. ServeErrorPage(c, d) = Filled(f, d)
      BY DEF ServeErrorPage
    <3>2. f.code = 200 /\ DOMAIN f = Members
      BY <1>2
    <3> HIDE DEF f
    <3> QED BY <3>1, <3>2, FilledKeeps
  <2> QED BY <2>1, <2>2 DEF ServeStatic, ServeDirectoryListing
<1>4. ExecuteFile(c, d).conn.code = 200 /\ ExecuteFile(c, d) = Result(ExecuteFile(c, d).conn, d)
  BY DEF ExecuteFile, Result, Members
<1> QED
  BY <1>3, <1>4 DEF GetItemFromServer, Result

\* The answer R to a DELETE of the file of c: it is gone, or nothing has changed.
Removes(c, d, R) ==
  \/ R.conn.code = 200 /\ R = Result(R.conn, d)
  \/ /\ R.conn.code = 204 /\ R.conn.phase = "filled" /\ ~IsDirectory(c.routed)
     /\ R.disk = [p \in DOMAIN d \ {c.routed} |-> d[p]]

LEMMA DeleteRemoves ==
  ASSUME NEW c, NEW d, Untouched(c)
  PROVE  Removes(c, d, DeleteItemFromServer(c, d))
<1> USE DEF Untouched
<1>1. [c EXCEPT !.error = TRUE].code = 200 /\ DOMAIN [c EXCEPT !.error = TRUE] = Members
  BY DEF Members
<1>2. ServeErrorPage(c, d).code = 200
  <2> DEFINE f == [c EXCEPT !.error = TRUE]
  <2>1. ServeErrorPage(c, d) = Filled(f, d)
    BY DEF ServeErrorPage
  <2>2. f.code = 200 /\ DOMAIN f = Members
    BY <1>1
  <2> HIDE DEF f
  <2> QED BY <2>1, <2>2, FilledKeeps
<1>3. SetStatusCode(c, 204).code = 204 /\ DOMAIN SetStatusCode(c, 204) = Members
  <2>1. Coded(c)
    BY DEF Coded
  <2> QED BY <2>1, StatusIsCoded
<1>4. Filled(SetStatusCode(c, 204), d).code = 204 /\ Filled(SetStatusCode(c, 204), d).phase = "filled"
  BY <1>3, FilledKeeps
<1> QED
  BY <1>2, <1>4 DEF DeleteItemFromServer, Result, Removes

LEMMA WriteGrows ==
  ASSUME NEW d, NEW files
  PROVE  DOMAIN d \subseteq DOMAIN Write(d, files)
  BY DEF Write

\* An upload that is refused has written nothing.
Uploaded(c, d, u) ==
  /\ DOMAIN u.conn = Members /\ Coded(u.conn)
  /\ u.conn.routed = c.routed
  /\ u.conn.error => u.disk = d
  /\ DOMAIN d \subseteq DOMAIN u.disk

LEMMA UploadGrows ==
  ASSUME NEW c, NEW d, NEW name, Untouched(c)
  PROVE  Uploaded(c, d, ParseBodyDataAndUpload(c, d, name))
<1> USE DEF Untouched
<1>1. ASSUME NEW files, NEW ends
      PROVE  Uploaded(c, d, WriteAll(c, d, files, ends))
  <2>1. PICK n : WriteAll(c, d, files, ends).disk = Write(d, SubSeq(files, 1, n))
    BY DEF WriteAll, Result
  <2>2. WriteAll(c, d, files, ends).conn \in {c, [c EXCEPT !.phase = "removed"]}
    BY DEF WriteAll, Result
  <2>3. \A e \in {c, [c EXCEPT !.phase = "removed"]} :
          DOMAIN e = Members /\ e.code = 200 /\ e.error = FALSE /\ e.routed = c.routed
    BY DEF Members
  <2> DEFINE w == WriteAll(c, d, files, ends)
  <2>4. /\ DOMAIN w.conn = Members /\ w.conn.code = 200 /\ w.conn.error = FALSE
        /\ w.conn.routed = c.routed
    BY <2>2, <2>3
  <2>5. DOMAIN d \subseteq DOMAIN w.disk
    BY <2>1, WriteGrows
  <2> HIDE DEF w
  <2>6. Uploaded(c, d, w)
    BY <2>4, <2>5 DEF Uploaded, Coded
  <2> QED BY <2>6 DEF w
<1>2. ASSUME NEW code \in {400, 403, 415, 500}
      PROVE  Uploaded(c, d, Result(SetStatusCode(c, code), d))
  <2> DEFINE e == SetStatusCode(c, code)
  <2>1. DOMAIN e = Members /\ Coded(e) /\ e.routed = c.routed
    <3>1. Coded(c)
      BY DEF Coded
    <3>2. code >= 400
      OBVIOUS
    <3> QED BY <3>1, <3>2, StatusIsCoded
  <2>2. Result(e, d).conn = e /\ Result(e, d).disk = d
    BY DEF Result
  <2> DEFINE u == Result(e, d)
  <2>3. u.conn = e /\ u.disk = d
    BY <2>2
  <2> HIDE DEF e, u
  <2>4. Uploaded(c, d, u)
    BY <2>1, <2>3 DEF Uploaded
  <2> QED BY <2>4 DEF u, e
<1>3. Uploaded(c, d, Result(c, Write(d, <<TextFile(c, name)>>)))
  BY WriteGrows DEF Uploaded, Coded, Result
<1>4. Uploaded(c, d, ParseMultiPartBody(c, d))
  BY ZenonT(60), <1>1, <1>2 DEF ParseMultiPartBody
<1>5. Uploaded(c, d, ParsePlainBody(c, d, name))
  BY <1>2, <1>3 DEF ParsePlainBody
<1> QED
  BY <1>1, <1>2, <1>4, <1>5 DEF ParseBodyDataAndUpload

\* The answer to a POST.
LEMMA PostFollows ==
  ASSUME NEW c, NEW d, NEW name, Untouched(c)
  PROVE  LET R == PostItemFromServer(c, d, name)
             u == ParseBodyDataAndUpload(c, d, name)
         IN /\ R.conn.code # 204 /\ DOMAIN d \subseteq DOMAIN R.disk
            /\ (R.conn.phase = "filled" /\ R.conn.code >= 400) => R.disk = d
            /\ R.conn.code = 201 =>
                 /\ u.conn.phase # "removed" /\ ~u.conn.error
                 /\ R.disk = u.disk /\ R.conn.routed = c.routed
<1> DEFINE R == PostItemFromServer(c, d, name)
           u == ParseBodyDataAndUpload(c, d, name)
           e == SetStatusCode(u.conn, 201)
           f == Filled(e, u.disk)
<1>1. Uploaded(c, d, u)
  BY UploadGrows
<1>2. \/ R = ExecuteFile(c, d)
      \/ R = u /\ u.conn.phase = "removed"
      \/ R = Result(f, u.disk) /\ u.conn.phase # "removed"
  BY DEF PostItemFromServer, CreatePostResponsePage
<1>3. ExecuteFile(c, d).conn.code = 200 /\ ExecuteFile(c, d).disk = d
  BY DEF ExecuteFile, Result, Members, Untouched
<1> HIDE DEF R, u
<1>4. /\ u.conn.error => e.code >= 400
      /\ ~u.conn.error => e.code = 201
      /\ DOMAIN e = Members /\ e.routed = c.routed
  <2>1. DOMAIN u.conn = Members /\ Coded(u.conn) /\ u.conn.routed = c.routed
    BY <1>1 DEF Uploaded
  <2>2. /\ DOMAIN e = Members /\ e.routed = u.conn.routed
        /\ u.conn.error => e = u.conn
        /\ ~u.conn.error => e.code = 201
    BY <2>1, StatusIsCoded
  <2> HIDE DEF e
  <2> QED BY <2>1, <2>2 DEF Coded
<1> HIDE DEF e
<1>5. f.code = e.code /\ f.routed = e.routed
  BY <1>4, FilledKeeps
<1> HIDE DEF f
<1>6. CASE R = ExecuteFile(c, d)
  BY <1>3, <1>6 DEF R, u
<1>7. CASE R = u /\ u.conn.phase = "removed"
  <2>1. u.conn.code # 204 /\ u.conn.code # 201
    BY <1>1 DEF Uploaded, Coded
  <2> QED BY <1>1, <1>7, <2>1 DEF Uploaded, R, u
<1>8. CASE R = Result(f, u.disk) /\ u.conn.phase # "removed"
  <2>1. R.conn = f /\ R.disk = u.disk
    BY <1>8 DEF Result
  <2>2. /\ f.code # 204 /\ (f.code >= 400 => u.conn.error) /\ u.conn.error \in BOOLEAN
        /\ f.code = 201 => ~u.conn.error
    BY <1>1, <1>4, <1>5 DEF Uploaded, Coded
  <2>3. /\ R.conn.code # 204 /\ DOMAIN d \subseteq DOMAIN R.disk
        /\ (R.conn.phase = "filled" /\ R.conn.code >= 400) => R.disk = d
        /\ R.conn.routed = c.routed
    BY <1>1, <1>4, <1>5, <2>1, <2>2 DEF Uploaded
  <2> QED BY <1>8, <2>1, <2>2, <2>3 DEF R, u
<1> QED
  BY <1>2, <1>6, <1>7, <1>8

\* The route of a URL is one of the configuration, or none.
LEMMA RouteIsARoute ==
  ASSUME NEW url \in Seq(Names)
  PROVE  FindMatchingRoute(url) \in RouteType
<1> DEFINE matching == {i \in DOMAIN Routes : IsPathMatch(Routes[i], url)}
           longest  == {i \in matching : \A j \in matching : Len(Routes[j].url) <= Len(Routes[i].url)}
           first    == CHOOSE i \in longest : \A j \in longest : i <= j
<1>1. FindMatchingRoute(url) = IF matching = {} THEN NoRoute ELSE Routes[first]
  BY DEF FindMatchingRoute
<1>2. NoRoute \in RouteType
  BY DEF NoRoute, RouteType
<1>3. ASSUME matching # {}
      PROVE  first \in DOMAIN Routes
  <2> DEFINE Gap(i) == Len(url) - Len(Routes[i].url)
             gaps == {Gap(i) : i \in matching}
  <2>1. ASSUME NEW i \in matching
        PROVE  Len(Routes[i].url) \in Nat /\ Len(Routes[i].url) <= Len(url)
    <3>1. Routes[i].url \in Seq(Names)
      BY RoutesAssumption DEF RouteType
    <3>2. IsPathMatch(Routes[i], url)
      OBVIOUS
    <3> QED BY <3>1, <3>2 DEF IsPathMatch, IsPrefix
  <2>2. gaps \subseteq Nat /\ gaps # {}
    BY <1>3, <2>1
  <2>3. PICK i \in matching : \A j \in matching : Gap(i) <= Gap(j)
    <3>1. PICK g \in gaps : \A h \in gaps : g <= h
      <4> HIDE DEF gaps
      <4> QED BY <2>2, Least
    <3> HIDE DEF matching
    <3> QED BY <3>1
  <2>4. i \in longest
    <3>1. ASSUME NEW j \in matching PROVE Len(Routes[j].url) <= Len(Routes[i].url)
      <4>1. Gap(i) <= Gap(j) /\ Len(Routes[i].url) \in Nat /\ Len(Routes[j].url) \in Nat
        BY <2>1, <2>3
      <4> QED BY <4>1
    <3> QED BY <3>1
  <2>5. longest \subseteq Nat
    BY DEF RouteType
  <2>6. \E x \in longest : \A y \in longest : x <= y
    <3> HIDE DEF longest
    <3> QED BY <2>4, <2>5, Least
  <2>7. first \in longest
    <3> HIDE DEF longest
    <3> QED BY <2>6
  <2> QED BY <2>7
<1>4. ASSUME matching # {} PROVE Routes[first] \in RouteType
  <2> HIDE DEF first
  <2> QED BY <1>3, <1>4, RoutesAssumption
<1> HIDE DEF matching, first
<1> QED
  BY <1>1, <1>2, <1>4

LEMMA FillFollows ==
  ASSUME NEW c, NEW d, NEW name, DOMAIN c = Members, Coded(c), MethodIsKnown(c),
         c.route \in RouteType
  PROVE  Follows(c, d, FillResponse(c, d, name))
<1> DEFINE r == RouteRequest(c, d)
           R == FillResponse(c, d, name)
<1>1. /\ DOMAIN r = Members /\ Coded(r) /\ r.phase = c.phase
      /\ r.request = c.request /\ r.route = c.route /\ r.session = c.session
      /\ ~r.error =>
           /\ c.route # NoRoute
           /\ r.routed = IF c.request.method = "POST"
                         THEN RouteFilePathForPost(c.request.url, c.route)
                         ELSE RouteFilePathForGet(d, c.request.url, c.route, c.session)
           /\ c.request.method # "POST" => r.routed # NoPath
  BY RouteFinds
<1>2. r.error \/ r.request.method \in Known
  <2>1. c.error => r.error
    BY RoutedErrorsStay
  <2> HIDE DEF r
  <2> QED BY <1>1, <2>1 DEF MethodIsKnown
<1>3. R = CASE r.error -> Result(Filled(r, d), d)
            [] ~r.error /\ r.request.method = "GET" -> GetItemFromServer(r, d)
            [] ~r.error /\ r.request.method = "POST" -> PostItemFromServer(r, d, name)
            [] ~r.error /\ r.request.method = "DELETE" -> DeleteItemFromServer(r, d)
  BY DEF FillResponse
<1> HIDE DEF r, R
<1>4. CASE r.error
  <2>1. Filled(r, d).code # 204
    BY <1>1, <1>4, FilledKeeps DEF Coded
  <2> QED BY <1>3, <1>4, <2>1, NothingChanges DEF R
<1>5. CASE ~r.error /\ r.request.method = "GET"
  <2>1. R.conn.code = 200 /\ R = Result(R.conn, d)
    BY <1>1, <1>3, <1>5, GetLeaves DEF Coded
  <2>2. Follows(c, d, Result(R.conn, d))
    BY <2>1, NothingChanges
  <2> QED BY <2>1, <2>2 DEF R
<1>6. CASE ~r.error /\ r.request.method = "POST"
  <2>1. /\ R.conn.code # 204 /\ DOMAIN d \subseteq DOMAIN R.disk
        /\ (R.conn.phase = "filled" /\ R.conn.code >= 400) => R.disk = d
    <3>1. Untouched(r)
      BY <1>1, <1>6 DEF Coded, Untouched
    <3>2. R = PostItemFromServer(r, d, name)
      BY <1>3, <1>6
    <3> DEFINE G == PostItemFromServer(r, d, name)
    <3>3. /\ G.conn.code # 204 /\ DOMAIN d \subseteq DOMAIN G.disk
          /\ (G.conn.phase = "filled" /\ G.conn.code >= 400) => G.disk = d
      BY <3>1, PostFollows
    <3> HIDE DEF G
    <3> QED BY <3>2, <3>3 DEF G
  <2>2. Follows(c, d, R)
    BY <2>1 DEF Follows
  <2> QED BY <2>2 DEF R
<1>7. CASE ~r.error /\ r.request.method = "DELETE"
  <2> DEFINE got == RouteFilePathForGet(d, c.request.url, c.route, c.session)
  <2>1. \/ R.conn.code = 200 /\ R = Result(R.conn, d)
        \/ /\ R.conn.code = 204 /\ R.conn.phase = "filled" /\ ~IsDirectory(r.routed)
           /\ R.disk = [p \in DOMAIN d \ {r.routed} |-> d[p]]
    <3>1. Untouched(r)
      BY <1>1, <1>7 DEF Coded, Untouched
    <3>2. R = DeleteItemFromServer(r, d)
      BY <1>3, <1>7
    <3>3. Removes(r, d, DeleteItemFromServer(r, d))
      BY <3>1, DeleteRemoves
    <3> QED BY <3>2, <3>3 DEF Removes
  <2>2. r.routed = got /\ got # NoPath
    BY <1>1, <1>7
  <2>3. got = NoPath \/ IsDirectory(got) \/ got \in DOMAIN d
    BY GetFindsWhatIsThere
  <2>4. CASE R.conn.code = 200 /\ R = Result(R.conn, d)
    BY <2>4, NothingChanges DEF R
  <2>5. CASE /\ R.conn.code = 204 /\ R.conn.phase = "filled" /\ ~IsDirectory(r.routed)
             /\ R.disk = [p \in DOMAIN d \ {r.routed} |-> d[p]]
    <3>1. /\ R.conn.code = 204 /\ R.conn.phase = "filled" /\ got \in DOMAIN d
          /\ R.disk = [p \in DOMAIN d \ {got} |-> d[p]]
      BY <2>2, <2>3, <2>5
    <3>2. Follows(c, d, R)
      BY <3>1 DEF Follows
    <3> QED BY <3>2 DEF R
  <2> QED BY <2>1, <2>4, <2>5
<1> QED
  BY <1>2, <1>4, <1>5, <1>6, <1>7 DEF Known

\* A request that has been parsed has its route, and no status but that of an error.
LEMMA ParsedIsCoded ==
  ASSUME IInv, FreshInv, conn.phase = "receiving", conn.request # NoRequest
  PROVE  /\ DOMAIN conn = Members /\ MethodIsKnown(conn) /\ Coded(conn)
         /\ conn.route = FindMatchingRoute(conn.request.url)
<1> DEFINE n == Newly(conn.session, "connected")
           e == ParseHead(n, conn.request)
<1>1. DOMAIN conn = Members /\ MethodIsKnown(conn) /\ Twins(conn, e)
  BY DEF IInv, FreshInv
<1>2. DOMAIN n = Members /\ Coded(n)
  <2>1. Blank(n) /\ Coded(n)
    BY NewlyIsBlank
  <2> HIDE DEF n
  <2> QED BY <2>1 DEF Blank, IsConnection
<1> HIDE DEF n
<1>3. Coded(e) /\ e.route = FindMatchingRoute(conn.request.url)
  BY <1>2, HeadIsParsed
<1> HIDE DEF e
<1>4. conn.code = e.code /\ conn.error = e.error /\ conn.route = e.route
  BY <1>1, TwinFields
<1> QED
  BY <1>1, <1>3, <1>4 DEF Coded

\* A connection has a request of a client, or none.
Requested == conn.request \in Requests \cup {NoRequest}

LEMMA NextRequested == IInv /\ Requested /\ [Next]_vars => Requested'
<1> SUFFICES ASSUME IInv, Requested, [Next]_vars
             PROVE  Requested'
  OBVIOUS
<1>0. DOMAIN conn = Members
  BY DEF IInv
<1>1. CASE ReceivePart
  BY <1>0, <1>1 DEF ReceivePart, Requested, Members
<1>2. ASSUME NEW q \in Requests, ReceiveHead(q)
      PROVE  Requested'
  <2> DEFINE e == ParseHead(conn, q)
  <2>1. DOMAIN e = Members /\ e.request = q
    BY <1>0, HeadIsParsed
  <2>2. conn' = [e EXCEPT !.phase = "receiving"]
    BY <1>2 DEF ReceiveHead
  <2> HIDE DEF e
  <2> QED BY <2>1, <2>2 DEF Requested, Members
<1>3. CASE ReceiveRest
  <2>1. PICK name \in GeneratedNames : Fill(FillResponse(conn, disk, name))
    BY <1>3 DEF ReceiveRest
  <2>2. Answered(conn, conn')
    BY <1>3, <2>1, FillResponseAnswers DEF ReceiveRest, Fill, IInv
  <2> QED BY <2>2 DEF Answered, SameRequest, Requested
<1>4. CASE ReadCGIOutput
  BY ZenonT(60), <1>0, <1>4 DEF ReadCGIOutput, AddToContent, SetStatusCode, Requested, Members
<1>5. CASE EndOfCGIOutput \/ TimeoutRequest \/ TimeoutCgi
  <2>1. \A c : DOMAIN c = Members => Filled(c, disk).request = c.request
    BY DEF Filled, CreateHTTPHeaders, Members
  <2>2. ASSUME NEW code
        PROVE  Timeout(code) => conn'.request = conn.request
    <3> DEFINE c == [SetStatusCode(ResetResponse(conn), code) EXCEPT
                       !.timedOut = TRUE, !.keep = FALSE]
    <3>1. DOMAIN c = Members /\ c.request = conn.request
      BY <1>0 DEF SetStatusCode, ResetResponse, Members
    <3>2. Timeout(code) => conn' = Filled(c, disk)
      BY DEF Timeout
    <3> HIDE DEF c
    <3> QED BY <2>1, <3>1, <3>2
  <2>3. conn'.request = conn.request
    BY <1>0, <1>5, <2>1, <2>2 DEF EndOfCGIOutput, TimeoutRequest, TimeoutCgi
  <2> QED BY <2>3 DEF Requested
<1>8. CASE SendResponse
  BY <1>0, <1>8 DEF SendResponse, ResetContent, ResetResponse, Requested, Members
<1>9. CASE RemoveConnection
  BY <1>0, <1>9 DEF RemoveConnection, Requested, Members
<1>10. CASE AcceptNewConnection
  BY <1>10 DEF AcceptNewConnection, NewConnection, Requested
<1>11. CASE UNCHANGED vars
  BY <1>11 DEF vars, Requested
<1> QED
  BY <1>1, <1>2, <1>3, <1>4, <1>5, <1>8, <1>9, <1>10, <1>11 DEF Next

Inv == IInv /\ FreshInv /\ Requested

THEOREM InvIsInductive == Spec => []Inv
<1>1. Init => Requested
  BY DEF Init, NewConnection, Requested
<1> QED
  BY <1>1, FreshInductive, NextRequested, PTL DEF Spec, Inv

\* The handler that has the whole of a request, on a parsed request.
LEMMA RestFollows ==
  ASSUME Inv, ReceiveRest
  PROVE  Follows(conn, disk, Result(conn', disk'))
<1>1. PICK name \in GeneratedNames : Fill(FillResponse(conn, disk, name))
  BY DEF ReceiveRest
<1>2. /\ DOMAIN conn = Members /\ MethodIsKnown(conn) /\ Coded(conn)
      /\ conn.route = FindMatchingRoute(conn.request.url)
  BY ParsedIsCoded DEF ReceiveRest, Inv
<1>3. conn.request.url \in Seq(Names)
  BY RequestsAssumption DEF ReceiveRest, Inv, Requested
<1>4. Follows(conn, disk, FillResponse(conn, disk, name))
  BY <1>2, <1>3, RouteIsARoute, FillFollows
<1>5. FillResponse(conn, disk, name) = Result(conn', disk')
  BY <1>1, <1>2, FillIsResult DEF Fill, IsResult
<1> QED
  BY <1>4, <1>5

\* A file is removed by the DELETE that says so, the file that a GET would serve, and
\* an error has changed nothing.
THEOREM DiskIsAsAnswered == Spec => DiskFollowsTheAnswer
<1> DEFINE gone == DOMAIN disk \ DOMAIN disk'
           Follow ==
             /\ IF Answering /\ conn'.code = 204
                THEN /\ gone = {RouteFilePathForGet(disk, conn.request.url, conn.route, conn.session)}
                     /\ \A p \in DOMAIN disk \ gone : disk'[p] = disk[p]
                ELSE gone = {}
             /\ conn'.phase = "filled" /\ conn'.code >= 400 => disk' = disk
<1>1. ASSUME Inv, [Next]_vars, ReceiveRest
      PROVE  Follow
  <2> DEFINE got == RouteFilePathForGet(disk, conn.request.url, conn.route, conn.session)
  <2>1. \/ /\ conn'.code # 204 /\ DOMAIN disk \subseteq DOMAIN disk'
           /\ (conn'.phase = "filled" /\ conn'.code >= 400) => disk' = disk
        \/ /\ conn'.code = 204 /\ conn'.phase = "filled" /\ got \in DOMAIN disk
           /\ disk' = [p \in DOMAIN disk \ {got} |-> disk[p]]
    BY <1>1, RestFollows DEF Follows, Result
  <2>2. conn'.code = 204 /\ conn'.phase = "filled" => Answering
    <3>1. ~conn'.timedOut
      <4>1. PICK name \in GeneratedNames : Fill(FillResponse(conn, disk, name))
        BY <1>1 DEF ReceiveRest
      <4>2. Answered(conn, conn')
        BY <1>1, <4>1, FillResponseAnswers DEF ReceiveRest, Fill, Inv, IInv
      <4> QED BY <1>1, <4>2 DEF Answered, SameRequest, Inv, IInv, ReceiveRest
    <3> QED BY <1>1, <3>1 DEF ReceiveRest, Answering
  <2> HIDE DEF got
  <2>3. CASE /\ conn'.code # 204 /\ DOMAIN disk \subseteq DOMAIN disk'
             /\ (conn'.phase = "filled" /\ conn'.code >= 400) => disk' = disk
    BY <2>3
  <2>4. CASE /\ conn'.code = 204 /\ conn'.phase = "filled" /\ got \in DOMAIN disk
             /\ disk' = [p \in DOMAIN disk \ {got} |-> disk[p]]
    <3>1. gone = {got} /\ \A p \in DOMAIN disk \ gone : disk'[p] = disk[p]
      BY <2>4
    <3>2. ~(conn'.code >= 400)
      BY <2>4
    <3> HIDE DEF gone
    <3> QED BY <2>2, <2>4, <3>1, <3>2 DEF got
  <2> QED BY <2>1, <2>3, <2>4
<1>2. ASSUME Inv, [Next]_vars, ~ReceiveRest
      PROVE  Follow
  <2>1. ~Answering
    BY <1>2, AnswersAreGiven DEF Inv
  <2>2. disk' = disk
    BY <1>2 DEF Next, ReceivePart, ReceiveHead, ReadCGIOutput, EndOfCGIOutput, TimeoutRequest,
       TimeoutCgi, SendResponse, RemoveConnection, AcceptNewConnection, vars
  <2> QED BY <2>1, <2>2
<1>3. Inv /\ [Next]_vars => [Follow]_vars
  BY <1>1, <1>2
<1> QED
  BY <1>3, InvIsInductive, PTL DEF Spec, DiskFollowsTheAnswer

-----------------------------------------------------------------------------
(* What is uploaded                                                        *)

\* What is written, of an upload that is answered with 201.
StoredBy(c, d, name, R) ==
  LET r == RouteRequest(c, d)
      u == ParseBodyDataAndUpload(r, d, name)
  IN /\ Untouched(r)
     /\ r.request = c.request /\ r.route = c.route /\ r.session = c.session
     /\ r.routed = RouteFilePathForPost(c.request.url, c.route) /\ c.route # NoRoute
     /\ u.conn.phase # "removed" /\ ~u.conn.error
     /\ R.disk = u.disk /\ R.conn.routed = r.routed

LEMMA FillStores ==
  ASSUME NEW c, NEW d, NEW name, DOMAIN c = Members, Coded(c), MethodIsKnown(c),
         FillResponse(c, d, name).conn.code = 201
  PROVE  StoredBy(c, d, name, FillResponse(c, d, name))
<1> DEFINE r == RouteRequest(c, d)
           u == ParseBodyDataAndUpload(r, d, name)
           R == FillResponse(c, d, name)
<1>1. /\ DOMAIN r = Members /\ Coded(r)
      /\ r.request = c.request /\ r.route = c.route /\ r.session = c.session
      /\ ~r.error =>
           /\ c.route # NoRoute
           /\ c.request.method = "POST" => r.routed = RouteFilePathForPost(c.request.url, c.route)
  BY RouteFinds
<1>2. r.error \/ r.request.method \in Known
  <2>1. c.error => r.error
    BY RoutedErrorsStay
  <2> HIDE DEF r
  <2> QED BY <1>1, <2>1 DEF MethodIsKnown
<1>3. R = CASE r.error -> Result(Filled(r, d), d)
            [] ~r.error /\ r.request.method = "GET" -> GetItemFromServer(r, d)
            [] ~r.error /\ r.request.method = "POST" -> PostItemFromServer(r, d, name)
            [] ~r.error /\ r.request.method = "DELETE" -> DeleteItemFromServer(r, d)
  BY DEF FillResponse
<1>4. R.conn.code = 201
  OBVIOUS
<1> HIDE DEF r, R
<1>5. ~r.error
  <2>1. SUFFICES ASSUME r.error PROVE FALSE
    OBVIOUS
  <2>2. R.conn = Filled(r, d)
    BY <1>3, <2>1 DEF Result
  <2>3. Filled(r, d).code = r.code
    BY <1>1, FilledKeeps
  <2> QED BY <1>1, <1>4, <2>1, <2>2, <2>3 DEF Coded
<1>6. Untouched(r)
  BY <1>1, <1>5 DEF Coded, Untouched
<1>7. r.request.method # "GET"
  <2>1. SUFFICES ASSUME r.request.method = "GET" PROVE FALSE
    OBVIOUS
  <2>2. R = GetItemFromServer(r, d)
    BY <1>3, <1>5, <2>1
  <2> QED BY <1>4, <1>6, <2>2, GetLeaves DEF Untouched
<1>8. r.request.method # "DELETE"
  <2>1. SUFFICES ASSUME r.request.method = "DELETE" PROVE FALSE
    OBVIOUS
  <2>2. R = DeleteItemFromServer(r, d)
    BY <1>3, <1>5, <2>1
  <2>3. Removes(r, d, DeleteItemFromServer(r, d))
    BY <1>6, DeleteRemoves
  <2> QED BY <1>4, <2>2, <2>3 DEF Removes
<1>9. r.request.method = "POST"
  BY <1>2, <1>5, <1>7, <1>8 DEF Known
<1>10. /\ u.conn.phase # "removed" /\ ~u.conn.error
       /\ R.disk = u.disk /\ R.conn.routed = r.routed
  <2>1. R = PostItemFromServer(r, d, name)
    BY <1>3, <1>5, <1>9
  <2> QED BY <1>4, <1>6, <2>1, PostFollows
<1> QED
  BY <1>1, <1>5, <1>6, <1>9, <1>10 DEF StoredBy, r, R

\* The last file of a path is what the path has after an upload.
LEMMA LastIsWritten ==
  ASSUME NEW d, NEW n \in Nat, NEW files, DOMAIN files = 1 .. n, NEW i \in 1 .. n,
         \A j \in 1 .. n : files[j].path = files[i].path => j <= i
  PROVE  /\ files[i].path \in DOMAIN Write(d, files)
         /\ Write(d, files)[files[i].path] = files[i].content
<1> DEFINE p == files[i].path
           paths == {files[j].path : j \in DOMAIN files}
           Is(k) == k \in DOMAIN files /\ files[k].path = p
                    /\ \A j \in DOMAIN files : files[j].path = p => j <= k
           last == CHOOSE k \in DOMAIN files :
                     files[k].path = p /\ \A j \in DOMAIN files : files[j].path = p => j <= k
<1>1. p \in paths /\ DOMAIN Write(d, files) = DOMAIN d \cup paths
  BY DEF Write
<1>2. Write(d, files)[p] = files[last].content
  BY <1>1 DEF Write
<1>3. Is(i)
  OBVIOUS
<1>4. Is(last)
  BY <1>3
<1>5. last = i
  <2>1. i <= last /\ last <= i /\ last \in Nat /\ i \in Nat
    BY <1>3, <1>4
  <2> HIDE DEF last
  <2> QED BY <2>1
<1> HIDE DEF last, paths
<1> QED
  BY <1>1, <1>2, <1>5

\* An upload of which every file can be made.
LEMMA WholeUpload ==
  ASSUME NEW c, NEW d, NEW files, NEW ends, DOMAIN c = Members,
         WriteAll(c, d, files, ends).conn.phase # "removed"
  PROVE  /\ ends /\ \A i \in DOMAIN files : CanCreate(d, files[i].path)
         /\ WriteAll(c, d, files, ends).disk = Write(d, SubSeq(files, 1, Len(files)))
<1> DEFINE bad == {i \in DOMAIN files : ~CanCreate(d, files[i].path)}
<1>1. bad = {} /\ ends
  <2>1. SUFFICES ASSUME ~(bad = {} /\ ends) PROVE FALSE
    OBVIOUS
  <2>2. WriteAll(c, d, files, ends).conn = [c EXCEPT !.phase = "removed"]
    BY <2>1 DEF WriteAll, Result
  <2> QED BY <2>2 DEF Members
<1>2. WriteAll(c, d, files, ends).disk = Write(d, SubSeq(files, 1, Len(files)))
  BY <1>1 DEF WriteAll, Result
<1> QED
  BY <1>1, <1>2

LEMMA AppendParts ==
  ASSUME NEW s \in Seq(Names), NEW x, NEW y
  PROVE  /\ Append(s, x) # <<>> /\ Front(Append(s, x)) = s /\ Last(Append(s, x)) = x
         /\ Occurs(s, Append(s, x))
         /\ Append(s, x) = Append(s, y) => x = y
         /\ SubSeq(Append(s, x), Len(s) + 1, Len(Append(s, x))) = <<x>>
         /\ s \o <<x>> = Append(s, x)
<1> DEFINE S == Names \cup {x, y}
<1>1. s \in Seq(S) /\ x \in S /\ y \in S
  <2>1. Names \subseteq S
    OBVIOUS
  <2> HIDE DEF S
  <2>2. s \in Seq(S)
    BY <2>1, SeqMonotonic
  <2> QED BY <2>2 DEF S
<1> HIDE DEF S
<1> DEFINE t == Append(s, x)
<1>2. t \in Seq(S) /\ Len(t) = Len(s) + 1 /\ t[Len(s) + 1] = x
      /\ \A i \in 1 .. Len(s) : t[i] = s[i]
  BY <1>1
<1>3. t # <<>>
  BY <1>1, <1>2
<1>4. Len(s) \in Nat
  BY <1>1
<1>5. SubSeq(t, 1, Len(s)) = s
  <2> HIDE DEF t
  <2>1. SubSeq(t, 1, Len(s)) \in Seq(S) /\ Len(SubSeq(t, 1, Len(s))) = Len(s)
        /\ \A i \in 1 .. Len(s) : SubSeq(t, 1, Len(s))[i] = t[i]
    BY <1>1, <1>2, <1>4
  <2> QED BY <1>1, <1>2, <2>1, SeqEqual
<1>6. SubSeq(s, 1, Len(s)) = s
  BY <1>1, SubSeqFull
<1>7. Append(s, x) = Append(s, y) => x = y
  BY <1>1, AppendInjective
<1>8. SubSeq(t, Len(s) + 1, Len(t)) = <<x>>
  <2> HIDE DEF t
  <2> DEFINE w == SubSeq(t, Len(s) + 1, Len(t))
  <2>1. w \in Seq(S) /\ Len(w) = 1 /\ w[1] = x
    BY <1>1, <1>2, <1>4
  <2>2. <<x>> \in Seq(S) /\ Len(<<x>>) = 1 /\ <<x>>[1] = x
    BY <1>1
  <2> HIDE DEF w
  <2>3. \A i \in 1 .. Len(w) : w[i] = <<x>>[i]
    BY <2>1, <2>2
  <2>4. w = <<x>>
    BY <2>1, <2>2, <2>3, SeqEqual
  <2> QED BY <2>4 DEF w
<1>9. s \o <<x>> = Append(s, x)
  BY <1>1, AppendIsConcat
<1>10. Front(t) = s /\ Last(t) = x
  <2> HIDE DEF t
  <2> QED BY <1>2, <1>4, <1>5 DEF Front, Last
<1>11. IsPrefix(s, t)
  <2> HIDE DEF t
  <2> QED BY <1>2, <1>4, <1>5, <1>6 DEF IsPrefix
<1>12. Occurs(s, t)
  <2> HIDE DEF t
  <2>1. SubSeq(t, 0 + 1, Len(t)) = t
    BY <1>2, SubSeqFull
  <2>2. 0 \in 0 .. Len(t)
    BY <1>2, <1>4
  <2> QED BY <1>11, <2>1, <2>2 DEF Occurs
<1> QED
  BY <1>3, <1>7, <1>8, <1>9, <1>10, <1>12

\* A request that is answered with 201.
LEMMA StoredIsStoredBy ==
  ASSUME Inv, [Next]_vars, Stored
  PROVE  /\ \E name \in GeneratedNames : StoredBy(conn, disk, name, Result(conn', disk'))
         /\ conn.request \in Requests
         /\ conn.route \in RouteType /\ conn.route = FindMatchingRoute(conn.request.url)
<1>1. ReceiveRest /\ conn'.code = 201
  BY AnswersAreGiven DEF Stored, Inv
<1>2. PICK name \in GeneratedNames : Fill(FillResponse(conn, disk, name))
  BY <1>1 DEF ReceiveRest
<1>3. /\ DOMAIN conn = Members /\ MethodIsKnown(conn) /\ Coded(conn)
      /\ conn.route = FindMatchingRoute(conn.request.url)
  BY <1>1, ParsedIsCoded DEF ReceiveRest, Inv
<1>4. conn.request \in Requests
  BY <1>1 DEF ReceiveRest, Inv, Requested
<1>5. conn.route \in RouteType
  BY <1>3, <1>4, RouteIsARoute, RequestsAssumption
<1>6. FillResponse(conn, disk, name) = Result(conn', disk')
  BY <1>2, <1>3, FillIsResult DEF Fill, IsResult
<1>7. FillResponse(conn, disk, name).conn.code = 201
  BY <1>1, <1>2 DEF Fill
<1>8. StoredBy(conn, disk, name, FillResponse(conn, disk, name))
  BY <1>3, <1>7, FillStores
<1> QED
  BY <1>3, <1>4, <1>5, <1>6, <1>8

LEMMA PostIsRouted ==
  ASSUME NEW url \in Seq(Names), NEW r \in RouteType, r # NoRoute
  PROVE  RouteFilePathForPost(url, r) \in Seq(Names)
<1>1. r.upload \in Seq(Names) /\ r.url \in Seq(Names)
  BY DEF RouteType
<1>2. Rest(url, r) \in Seq(Names)
  BY <1>1 DEF Rest
<1> QED
  BY <1>1, <1>2 DEF RouteFilePathForPost, ReplaceRoutePathByUploadDirectory

\* A sequence that is written out by its places is all of it.
LEMMA WholeOf ==
  ASSUME NEW n \in Nat, NEW f, DOMAIN f = 1 .. n, f = [i \in 1 .. n |-> f[i]]
  PROVE  Len(f) = n /\ SubSeq(f, 1, Len(f)) = f
<1> DEFINE S == {f[i] : i \in 1 .. n}
<1>1. f \in [1 .. n -> S]
  <2>1. \A i \in 1 .. n : f[i] \in S
    OBVIOUS
  <2> HIDE DEF S
  <2> QED BY <2>1
<1> HIDE DEF S
<1>2. f \in Seq(S)
  BY <1>1, SeqDef
<1>3. Len(f) = n
  BY <1>2, LenProperties
<1> QED
  BY <1>2, <1>3, SubSeqFull

\* The value of a key of a form of at most two pairs is in the file of the key.
THEOREM FormsAreStored == Spec => FormIsStored
<1> DEFINE Form(i) ==
      LastOfItsKey(i) =>
        Holds(disk',
              Append(conn'.routed, [owner |-> NoOwner, key |-> PartOfStored(i).key, ext |-> ""]),
              <<PartOfStored(i).value>>)
           Forms ==
      Stored /\ conn.request.form.kind = "urlencoded" /\ Len(conn.request.form.parts) <= 2 =>
        \A i \in DOMAIN conn.request.form.parts : Form(i)
<1>1. ASSUME Inv, [Next]_vars, Stored, conn.request.form.kind = "urlencoded",
             Len(conn.request.form.parts) <= 2,
             NEW i \in DOMAIN conn.request.form.parts, LastOfItsKey(i)
      PROVE  Holds(disk',
                   Append(conn'.routed,
                          [owner |-> NoOwner, key |-> PartOfStored(i).key, ext |-> ""]),
                   <<PartOfStored(i).value>>)
  <2> DEFINE parts == conn.request.form.parts
             n == Len(parts)
             Named(k) == [owner |-> NoOwner, key |-> parts[k].key, ext |-> ""]
  <2>1. PICK name \in GeneratedNames : StoredBy(conn, disk, name, Result(conn', disk'))
    BY <1>1, StoredIsStoredBy
  <2> DEFINE r == RouteRequest(conn, disk)
             u == ParseBodyDataAndUpload(r, disk, name)
             files == UrlEncodedFiles(r)
             ends == parts # <<>>
  <2>2. /\ DOMAIN r = Members /\ r.request = conn.request /\ r.routed = conn'.routed
        /\ r.routed = RouteFilePathForPost(conn.request.url, conn.route) /\ conn.route # NoRoute
        /\ u.conn.phase # "removed" /\ disk' = u.disk
    BY <2>1 DEF StoredBy, Result, Untouched
  <2>3. /\ conn.request.url \in Seq(Names) /\ parts \in Seq(Parts) /\ conn.route \in RouteType
    BY <1>1, StoredIsStoredBy, RequestsAssumption
  <2>4. r.routed \in Seq(Names)
    BY <2>2, <2>3, PostIsRouted
  <2>5. u = WriteAll(r, disk, files, ends)
    BY <1>1, <2>2 DEF ParseBodyDataAndUpload
  <2>6. n \in Nat /\ n <= 2 /\ DOMAIN parts = 1 .. n
    BY <1>1, <2>3
  <2>7. /\ DOMAIN files = 1 .. n /\ files = [k \in 1 .. n |-> files[k]]
        /\ \A k \in 1 .. n : files[k].path = Append(r.routed, Named(k))
        /\ files[i].content = <<parts[i].value>>
    <3> DEFINE more == [k \in 1 .. n - 2 |-> <<parts[k + 2].key, parts[k + 2].value>>]
               rest == FlattenSeq(more)
    <3>1. (IF n > 2 THEN 2 ELSE n) = n
      BY <2>6
    <3>2. files = [k \in 1 .. (IF n > 2 THEN 2 ELSE n) |->
                     [path |-> Append(r.routed, Named(k)),
                      content |-> <<parts[k].value>> \o (IF k = 2 THEN rest ELSE <<>>)]]
      BY <2>2 DEF UrlEncodedFiles
    <3>3. <<parts[i].value>> \o <<>> = <<parts[i].value>>
      OBVIOUS
    <3>4. i = 2 => rest = <<>>
      <4>1. SUFFICES ASSUME i = 2 PROVE rest = <<>>
        OBVIOUS
      <4>2. 1 .. n - 2 = {}
        BY <2>6
      <4>3. 1 .. 0 = {}
        OBVIOUS
      <4>4. DOMAIN more = 1 .. 0 /\ more = [k \in 1 .. 0 |-> more[k]]
        BY <4>2, <4>3
      <4> HIDE DEF more
      <4>5. Len(more) = 0
        BY <4>4, WholeOf
      <4>6. more = <<>>
        BY <4>3, <4>4
      <4> QED BY <4>5, <4>6 DEF FlattenSeq
    <3>5. i \in 1 .. n
      BY <2>6
    <3> HIDE DEF rest, Named, files, n
    <3>6. files = [k \in 1 .. n |->
                     [path |-> Append(r.routed, Named(k)),
                      content |-> <<parts[k].value>> \o (IF k = 2 THEN rest ELSE <<>>)]]
      BY <3>1, <3>2
    <3> QED BY <3>3, <3>4, <3>5, <3>6
  <2>8. disk' = Write(disk, files)
    <3>1. u.disk = Write(disk, SubSeq(files, 1, Len(files)))
      <4> HIDE DEF r, files, ends
      <4>1. WriteAll(r, disk, files, ends).conn.phase # "removed"
        BY <2>2, <2>5
      <4> QED BY <2>2, <2>5, <4>1, WholeUpload
    <3>2. SubSeq(files, 1, Len(files)) = files
      <4> HIDE DEF files, n
      <4> QED BY <2>6, <2>7, WholeOf
    <3> QED BY <2>2, <3>1, <3>2
  <2>9. \A j \in 1 .. n : files[j].path = files[i].path => j <= i
    <3> SUFFICES ASSUME NEW j \in 1 .. n, files[j].path = files[i].path
                 PROVE  j <= i
      OBVIOUS
    <3>1. Append(r.routed, Named(j)) = Append(r.routed, Named(i))
      BY <2>6, <2>7
    <3>2. Named(j) = Named(i)
      <4> HIDE DEF Named
      <4> QED BY <2>4, <3>1, AppendParts
    <3>3. parts[j].key = parts[i].key
      BY <3>2
    <3>4. ~(j > i)
      BY <1>1, <2>6, <3>3 DEF LastOfItsKey, PartOfStored
    <3> QED BY <2>6, <3>4
  <2>10. /\ files[i].path \in DOMAIN Write(disk, files)
         /\ Write(disk, files)[files[i].path] = files[i].content
    <3>1. n \in Nat /\ DOMAIN files = 1 .. n /\ i \in 1 .. n
      BY <2>6, <2>7
    <3> HIDE DEF files, n
    <3> QED BY SMTT(30), <3>1, <2>9, LastIsWritten
  <2>11. files[i].path = Append(conn'.routed, Named(i)) /\ files[i].content = <<parts[i].value>>
    BY <2>2, <2>6, <2>7
  <2> HIDE DEF files
  <2> QED BY <2>8, <2>10, <2>11 DEF PartOfStored, Holds
<1>2. Inv /\ [Next]_vars => [Forms]_vars
  BY <1>1
<1> QED
  BY <1>2, InvIsInductive, PTL DEF Spec, FormIsStored

Named(s, k, e) == [owner |-> s, key |-> k, ext |-> e]
OwnedBy(n, s) == [n EXCEPT !.owner = s]

LEMMA NamedFields ==
  ASSUME NEW s, NEW k, NEW e
  PROVE  Named(s, k, e).owner = s /\ Named(s, k, e).key = k /\ Named(s, k, e).ext = e
  BY DEF Named

LEMMA BareNames ==
  ASSUME NEW s, NEW t, NEW k
  PROVE  /\ Named(s, k, "").owner = s /\ Named(s, k, "").key = k /\ Named(s, k, "").ext = ""
         /\ OwnedBy(Named(s, k, ""), t) = Named(t, k, "")
<1>1. Named(s, k, "").owner = s /\ Named(s, k, "").key = k /\ Named(s, k, "").ext = ""
  BY DEF Named
<1>2. OwnedBy(Named(s, k, ""), t) = Named(t, k, "")
  <2> DEFINE f == Named(s, k, "")
             g == Named(t, k, "")
  <2>1. /\ DOMAIN f = {"owner", "key", "ext"} /\ DOMAIN g = {"owner", "key", "ext"}
        /\ f = [x \in {"owner", "key", "ext"} |-> f[x]]
        /\ g = [x \in {"owner", "key", "ext"} |-> g[x]]
    BY DEF Named
  <2>2. f.key = k /\ f.ext = "" /\ g.owner = t /\ g.key = k /\ g.ext = ""
    BY DEF Named
  <2> HIDE DEF f, g
  <2>3. OwnedBy(f, t) = g
    BY <2>1, <2>2 DEF OwnedBy
  <2> QED BY <2>3 DEF f, g
<1> QED
  BY <1>1, <1>2

\* No directory and at most one file of the session or of nobody has the name.
IsAlone(d, r, session, key) ==
  LET same == {p \in DOMAIN d :
                 /\ p # NoPath /\ Front(p) = r.upload
                 /\ Last(p).key = key /\ Last(p).owner \in {NoOwner, session}}
  IN /\ \A p, q \in same : p = q
     /\ ~IsDirectory(Append(r.upload, Named(NoOwner, key, "")))

\* What a name gives under a root that is where uploads go, if it has a file there in
\* the session and is alone in that.
HasItsFile(d, r, session, k, e) ==
  /\ r \in RouteType /\ r # NoRoute /\ r.root = r.upload /\ r.upload # NoPath
  /\ Append(r.upload, Named(session, k, e)) \in DOMAIN d
  /\ IsAlone(d, r, session, k)
Finds(d, r, session, k, e) ==
  RouteFilePathForGet(d, Append(r.url, Named(NoOwner, k, "")), r, session)
    = Append(r.upload, Named(session, k, e))

LEMMA NameFindsItsFile ==
  ASSUME NEW d, NEW r, NEW session, NEW k, NEW e, HasItsFile(d, r, session, k, e)
  PROVE  Finds(d, r, session, k, e)
<1> USE DEF HasItsFile
<1> DEFINE nm   == Named(NoOwner, k, "")
           mine == Named(session, k, e)
           bare == Named(session, k, "")
           url  == Append(r.url, nm)
           p    == Append(r.upload, nm)
           file == Append(r.upload, mine)
           own1 == Append(r.upload, bare)
           same == {q \in DOMAIN d :
                      /\ q # NoPath /\ Front(q) = r.upload
                      /\ Last(q).key = k /\ Last(q).owner \in {NoOwner, session}}
           found == {q \in DOMAIN d :
                       /\ q # NoPath /\ Front(q) = r.upload
                       /\ Last(q).owner = session /\ Last(q).key = k /\ Last(q).ext # ""}
           mimed == IF found = {} THEN NoPath ELSE CHOOSE q \in found : TRUE
           own   == AddSessionIdPrefixToGet(d, p, r, session)
<1>0. /\ nm.owner = NoOwner /\ nm.key = k /\ nm.ext = ""
      /\ mine.owner = session /\ mine.key = k /\ mine.ext = e
      /\ bare.owner = session /\ bare.key = k /\ bare.ext = ""
      /\ OwnedBy(nm, session) = bare
  <2>1. nm.owner = NoOwner /\ nm.key = k /\ nm.ext = ""
    BY BareNames, Zenon
  <2>2. mine.owner = session /\ mine.key = k /\ mine.ext = e
    BY NamedFields
  <2>3. bare.owner = session /\ bare.key = k /\ bare.ext = ""
    BY BareNames, Zenon
  <2>4. OwnedBy(nm, session) = bare
    BY ZenonT(60), BareNames
  <2> QED BY <2>1, <2>2, <2>3, <2>4
<1>1. r.url \in Seq(Names) /\ r.upload \in Seq(Names)
  BY DEF RouteType
<1>2. \A x : /\ Append(r.upload, x) # NoPath /\ Front(Append(r.upload, x)) = r.upload
             /\ Last(Append(r.upload, x)) = x /\ Occurs(r.upload, Append(r.upload, x))
  BY <1>1, AppendParts DEF NoPath
<1>3. ReplaceRoutePathByRootDirectory(url, r) = p
  <2>1. Rest(url, r) = <<nm>>
    <3> HIDE DEF nm
    <3> QED BY <1>1, AppendParts DEF Rest
  <2>2. r.upload \o <<nm>> = p
    <3> HIDE DEF nm
    <3> QED BY <1>1, AppendParts
  <2> QED BY <2>1, <2>2 DEF ReplaceRoutePathByRootDirectory
<1>4. p # NoPath /\ Front(p) = r.upload /\ Last(p) = nm /\ Occurs(r.upload, p)
  <2> HIDE DEF nm
  <2> QED BY <1>2
<1>5. own1 # NoPath /\ Front(own1) = r.upload /\ Last(own1) = bare
  <2> HIDE DEF bare
  <2> QED BY <1>2
<1>6. file # NoPath /\ Front(file) = r.upload /\ Last(file) = mine
  <2> HIDE DEF mine
  <2> QED BY <1>2
<1>7. file \in same /\ \A q \in same : q = file
  <2>1. file \in same
    <3> HIDE DEF file
    <3> QED BY <1>0, <1>6 DEF file
  <2>2. \A q, s \in same : q = s
    BY DEF IsAlone
  <2> HIDE DEF same, file
  <2> QED BY <2>1, <2>2
<1>8. ~IsDirectory(p)
  BY DEF IsAlone
<1>9. p \in DOMAIN d => p = file
  <2>1. p \in DOMAIN d => p \in same
    <3> HIDE DEF p
    <3> QED BY <1>0, <1>4
  <2> HIDE DEF p, same, file
  <2> QED BY <1>7, <2>1
<1>10. own1 \in DOMAIN d => own1 = file
  <2>1. own1 \in DOMAIN d => own1 \in same
    <3> HIDE DEF own1
    <3> QED BY <1>0, <1>5
  <2> HIDE DEF own1, same, file
  <2> QED BY <1>7, <2>1
<1>11. own1 \notin DOMAIN d => mimed = file
  <2>1. SUFFICES ASSUME own1 \notin DOMAIN d PROVE mimed = file
    OBVIOUS
  <2>2. e # ""
    BY <2>1
  <2>3. file \in found
    <3> HIDE DEF file
    <3> QED BY <1>0, <1>6, <2>2 DEF file
  <2>4. mimed \in found
    <3> HIDE DEF found, file
    <3> QED BY <2>3
  <2>5. found \subseteq same
    OBVIOUS
  <2> HIDE DEF mimed, found, same, file
  <2> QED BY <1>7, <2>4, <2>5
<1>12. own = file
  <2>1. OwnedBy(nm, session) = bare
    BY <1>0
  <2>2. FindFileInDirectoryWithExtension(d, Front(p), session, Last(p).key) = mimed
    <3>1. Last(p).key = k
      <4> HIDE DEF p
      <4> QED BY <1>0, <1>4
    <3>2. FindFileInDirectoryWithExtension(d, r.upload, session, k) = mimed
      BY Zenon DEF FindFileInDirectoryWithExtension
    <3>3. Front(p) = r.upload
      BY <1>4
    <3> HIDE DEF p, mimed
    <3> QED BY <3>1, <3>2, <3>3
  <2>3. own = IF ~IsValidGetFilePath(d, own1) /\ Last(p).ext = "" /\ mimed # NoPath
              THEN mimed ELSE own1
    <3>1. Append(Front(p), OwnedBy(Last(p), session)) = own1
      <4> HIDE DEF p, bare, nm
      <4> QED BY <1>4, <2>1
    <3>2. Last(p).owner = NoOwner
      <4> HIDE DEF p
      <4> QED BY <1>0, <1>4
    <3>3. WithSessionId(p, session) = own1
      <4> HIDE DEF p, own1
      <4> QED BY <3>1, <3>2 DEF WithSessionId, OwnedBy
    <3>4. MayBeUpload(p, r)
      <4> HIDE DEF p
      <4> QED BY <1>4, <1>8 DEF MayBeUpload
    <3> HIDE DEF p, own1, mimed
    <3> QED BY <2>2, <3>2, <3>3, <3>4 DEF AddSessionIdPrefixToGet
  <2>4. Last(p).ext = ""
    <3> HIDE DEF p
    <3> QED BY <1>0, <1>4
  <2>5. file # NoPath /\ file \in DOMAIN d
    BY <1>6
  <2> HIDE DEF own, own1, mimed, file, p
  <2>6. CASE own1 \in DOMAIN d
    BY <1>10, <2>3, <2>6 DEF IsValidGetFilePath
  <2>7. CASE own1 \notin DOMAIN d
    BY <1>11, <2>3, <2>4, <2>5, <2>7 DEF IsValidGetFilePath
  <2> QED BY <2>6, <2>7
<1>13. file \in DOMAIN d
  OBVIOUS
<1> HIDE DEF url, p, own, file
<1>14. RouteFilePathForGet(d, url, r, session) = file
  <2>1. CASE p \in DOMAIN d
    BY <1>3, <1>9, <2>1 DEF RouteFilePathForGet, IsValidGetFilePath
  <2>2. CASE p \notin DOMAIN d
    <3>1. IsValidGetFilePath(d, own) /\ ~IsValidGetFilePath(d, p)
      BY <1>12, <1>13, <2>2 DEF IsValidGetFilePath
    <3>2. RouteFilePathForGet(d, url, r, session) = own
      BY <1>3, <3>1 DEF RouteFilePathForGet, own
    <3> QED BY <1>12, <3>2
  <2> QED BY <2>1, <2>2
<1> QED
  BY <1>14 DEF url, file, Finds

\* What a multipart form that is answered with 201 has left: the file of each part, with
\* what the last part of its name holds.
LEMMA PartsAreWritten ==
  ASSUME Inv, [Next]_vars, Stored, conn.request.form.kind = "multipart",
         NEW i \in DOMAIN conn.request.form.parts, LastOfItsKey(i)
  PROVE  LET part == PartOfStored(i)
             file == Append(conn.route.upload, Named(conn.session, part.key, part.ext))
         IN /\ file \in DOMAIN disk' /\ disk'[file] = <<part.value>>
            /\ IsDirectory(conn.route.upload) /\ conn.route # NoRoute
<1> DEFINE parts == conn.request.form.parts
           n == Len(parts)
           Mine(k) == Named(conn.session, parts[k].key, parts[k].ext)
<1>1. PICK name \in GeneratedNames : StoredBy(conn, disk, name, Result(conn', disk'))
  BY StoredIsStoredBy
<1> DEFINE r == RouteRequest(conn, disk)
           u == ParseBodyDataAndUpload(r, disk, name)
           files == MultiPartFiles(r)
<1>2. /\ DOMAIN r = Members /\ r.request = conn.request /\ r.route = conn.route
      /\ r.session = conn.session /\ conn.route # NoRoute /\ r.error = FALSE /\ r.code = 200
      /\ u.conn.phase # "removed" /\ ~u.conn.error /\ disk' = u.disk
  BY <1>1 DEF StoredBy, Result, Untouched
<1>3. parts \in Seq(Parts) /\ conn.route.upload \in Seq(Names)
  BY StoredIsStoredBy, RequestsAssumption DEF RouteType
<1>4. n \in Nat /\ DOMAIN parts = 1 .. n
  BY <1>3
<1>5. /\ DOMAIN files = 1 .. n /\ files = [k \in 1 .. n |-> files[k]]
      /\ \A k \in 1 .. n : /\ files[k].path = Append(conn.route.upload, Mine(k))
                           /\ files[k].content = <<parts[k].value>>
  <2> HIDE DEF r
  <2>1. \A part : GenerateFilename(r, part)
                    = Append(conn.route.upload, Named(conn.session, part.key, part.ext))
    BY <1>2 DEF GenerateFilename, Named
  <2>2. files = [k \in 1 .. n |-> [path |-> GenerateFilename(r, parts[k]),
                                   content |-> <<parts[k].value>>]]
    BY <1>2, <1>4 DEF MultiPartFiles
  <2> HIDE DEF files, n
  <2> QED BY <2>1, <2>2
<1>6. SubSeq(files, 1, n) = files /\ Len(files) = n
  <2> HIDE DEF files, n
  <2> QED BY <1>4, <1>5, WholeOf
<1>7. \E m, ends : u = WriteAll(r, disk, SubSeq(files, 1, m), ends) /\ (ends => m = n)
  <2>1. u = ParseMultiPartBody(r, disk)
    BY <1>2 DEF ParseBodyDataAndUpload
  <2>2. r.request.form.opened
    <3>1. SUFFICES ASSUME ~r.request.form.opened PROVE FALSE
      OBVIOUS
    <3>2. u.conn = SetStatusCode(r, 400)
      BY <2>1, <3>1 DEF ParseMultiPartBody, Result
    <3>3. Coded(r)
      BY <1>2 DEF Coded
    <3>4. SetStatusCode(r, 400).error
      <4>1. 400 >= 400
        OBVIOUS
      <4> HIDE DEF r
      <4> QED BY <1>2, <3>3, <4>1, StatusIsCoded
    <3> QED BY <1>2, <3>2, <3>4
  <2> DEFINE m == IF \E j \in DOMAIN parts : parts[j].key = ""
                  THEN (CHOOSE j \in DOMAIN parts :
                          /\ parts[j].key = ""
                          /\ \A k \in 1 .. j - 1 : parts[k].key # "") - 1
                  ELSE Len(parts)
             ends == m = Len(parts)
  <2>3. ParseMultiPartBody(r, disk) = WriteAll(r, disk, SubSeq(files, 1, m), ends)
    BY <1>2, <2>2 DEF ParseMultiPartBody
  <2>4. u = WriteAll(r, disk, SubSeq(files, 1, m), ends) /\ (ends => m = n)
    BY <2>1, <2>3
  <2> HIDE DEF m, ends, u, files
  <2> QED BY <2>4
<1> HIDE DEF r, u
<1>8. /\ disk' = Write(disk, files)
      /\ \A k \in 1 .. n : CanCreate(disk, files[k].path)
  <2> HIDE DEF files, n
  <2>1. PICK m, ends : u = WriteAll(r, disk, SubSeq(files, 1, m), ends) /\ (ends => m = n)
    BY <1>7
  <2>2. ends
    <3>1. WriteAll(r, disk, SubSeq(files, 1, m), ends).conn.phase # "removed"
      BY <1>2, <2>1
    <3> QED BY <1>2, <3>1, WholeUpload
  <2>3. u = WriteAll(r, disk, files, ends)
    BY <1>6, <2>1, <2>2
  <2>4. WriteAll(r, disk, files, ends).conn.phase # "removed"
    BY <1>2, <2>3
  <2>5. /\ \A k \in DOMAIN files : CanCreate(disk, files[k].path)
        /\ WriteAll(r, disk, files, ends).disk = Write(disk, SubSeq(files, 1, Len(files)))
    BY <1>2, <2>4, WholeUpload
  <2> QED BY <1>2, <1>5, <1>6, <2>3, <2>5
<1>9. \A j \in 1 .. n : files[j].path = files[i].path => j <= i
  <2> SUFFICES ASSUME NEW j \in 1 .. n, files[j].path = files[i].path
               PROVE  j <= i
    OBVIOUS
  <2> HIDE DEF files
  <2>1. Append(conn.route.upload, Mine(j)) = Append(conn.route.upload, Mine(i))
    BY <1>4, <1>5
  <2>2. Mine(j) = Mine(i)
    <3> HIDE DEF Mine
    <3> QED BY <1>3, <2>1, AppendParts
  <2>3. parts[j].key = parts[i].key
    BY <2>2, NamedFields
  <2>4. ~(j > i)
    BY <1>4, <2>3 DEF LastOfItsKey, PartOfStored
  <2> QED BY <1>4, <2>4
<1>10. /\ files[i].path \in DOMAIN Write(disk, files)
       /\ Write(disk, files)[files[i].path] = files[i].content
  <2>1. n \in Nat /\ DOMAIN files = 1 .. n /\ i \in 1 .. n
    BY <1>4, <1>5
  <2> HIDE DEF files, n
  <2> QED BY <1>9, <2>1, LastIsWritten
<1>11. files[i].path = Append(conn.route.upload, Mine(i)) /\ files[i].content = <<parts[i].value>>
  <2> HIDE DEF files
  <2> QED BY <1>4, <1>5
<1>12. IsDirectory(conn.route.upload)
  <2>1. CanCreate(disk, Append(conn.route.upload, Mine(i)))
    <3> HIDE DEF files
    <3> QED BY <1>4, <1>8, <1>11
  <2>2. Front(Append(conn.route.upload, Mine(i))) = conn.route.upload
    BY <1>3, AppendParts
  <2> QED BY <2>1, <2>2 DEF CanCreate
<1> HIDE DEF files
<1> QED
  BY <1>2, <1>8, <1>10, <1>11, <1>12 DEF PartOfStored

\* A session gets back under its name what it has uploaded to where a route serves from.
THEOREM UploadsAreServed == Spec => UploadIsServed
<1> DEFINE Served(i) ==
      LET part == PartOfStored(i)
          url  == Append(conn.route.url, [owner |-> NoOwner, key |-> part.key, ext |-> ""])
          same == {p \in DOMAIN disk' :
                     /\ p # NoPath /\ Front(p) = conn.route.upload
                     /\ Last(p).key = part.key /\ Last(p).owner \in {NoOwner, conn.session}}
          got  == RouteFilePathForGet(disk', url, conn.route, conn.session)
          alone == (\A p, q \in same : p = q) /\ ~IsDirectory(Append(conn.route.upload, Last(url)))
      IN LastOfItsKey(i) /\ alone /\ FindMatchingRoute(url) = conn.route =>
           got # NoPath /\ Holds(disk', got, <<part.value>>)
<1>1. ASSUME Inv, [Next]_vars, Stored, conn.request.form.kind = "multipart",
             conn.route.root = conn.route.upload,
             NEW i \in DOMAIN conn.request.form.parts
      PROVE  Served(i)
  <2> DEFINE part == PartOfStored(i)
             nm   == Named(NoOwner, part.key, "")
             url  == Append(conn.route.url, nm)
             same == {p \in DOMAIN disk' :
                        /\ p # NoPath /\ Front(p) = conn.route.upload
                        /\ Last(p).key = part.key /\ Last(p).owner \in {NoOwner, conn.session}}
             got  == RouteFilePathForGet(disk', url, conn.route, conn.session)
             file == Append(conn.route.upload, Named(conn.session, part.key, part.ext))
  <2>1. SUFFICES ASSUME LastOfItsKey(i), \A p, q \in same : p = q,
                        ~IsDirectory(Append(conn.route.upload, Last(url)))
                 PROVE  got # NoPath /\ Holds(disk', got, <<part.value>>)
    BY DEF Named
  <2>2. /\ file \in DOMAIN disk' /\ disk'[file] = <<part.value>>
        /\ IsDirectory(conn.route.upload) /\ conn.route # NoRoute
    BY <1>1, <2>1, PartsAreWritten
  <2>3. conn.route \in RouteType /\ conn.route.url \in Seq(Names) /\ conn.route.upload \in Seq(Names)
    BY <1>1, StoredIsStoredBy DEF RouteType
  <2>4. conn.route.upload # NoPath
    BY <2>2, DirsAssumption DEF IsDirectory
  <2>5. Last(url) = nm
    BY <2>3, AppendParts
  <2>6. IsAlone(disk', conn.route, conn.session, part.key)
    <3> HIDE DEF url
    <3> QED BY <2>1, <2>5 DEF IsAlone
  <2>7. got = file
    <3>1. conn.route.root = conn.route.upload
      BY <1>1
    <3>2. /\ conn.route \in RouteType /\ conn.route # NoRoute /\ conn.route.upload # NoPath
          /\ Append(conn.route.upload, Named(conn.session, part.key, part.ext)) \in DOMAIN disk'
      BY <2>2, <2>3, <2>4
    <3> HIDE DEF part
    <3>3. HasItsFile(disk', conn.route, conn.session, part.key, part.ext)
      BY <2>6, <3>1, <3>2 DEF HasItsFile
    <3>4. Finds(disk', conn.route, conn.session, part.key, part.ext)
      BY <3>3, NameFindsItsFile
    <3> QED BY <3>4 DEF Finds
  <2>8. file # NoPath
    BY <2>3, AppendParts DEF NoPath
  <2> HIDE DEF got, file
  <2> QED BY <2>2, <2>7, <2>8 DEF Holds
<1> DEFINE Serve ==
      Stored /\ conn.request.form.kind = "multipart" /\ conn.route.root = conn.route.upload =>
        \A i \in DOMAIN conn.request.form.parts : Served(i)
<1>2. Inv /\ [Next]_vars => [Serve]_vars
  <2> HIDE DEF Served
  <2> QED BY <1>1
<1> QED
  BY <1>2, InvIsInductive, PTL DEF Spec, UploadIsServed
=============================================================================
