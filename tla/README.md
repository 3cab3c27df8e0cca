# TLA+ models of miniServ

miniServ is an HTTP/1.1 server in one process and one thread: an epoll loop
serves every connection and reads the output of the CGI scripts it starts. This
directory holds TLA+ modules of its core, TLC configurations that model-check
them, and proofs that TLAPS checks. Paths below are relative to the repository.

## The system

| Part | Code | State it keeps | Operations |
|---|---|---|---|
| Event loop | `src/polling/Poller.cpp` | epoll instance, events of the last `epoll_wait`, servers | wait, dispatch, polling modes, add and remove sockets and pipes |
| Server socket | `src/polling/ServerSocket.cpp` | clients by descriptor | accept, receive, send, time out, keep alive, remove |
| Client socket | `src/polling/ClientSocket.cpp` | client state, last event time, CGI pipe, timed-out flag, Request, Response, Status | read, send, start and stop a pipe, reset |
| Signals, `main` | `src/main.cpp`, `src/signal/signal.cpp` | `g_running` | SIGINT |
| Request parser | `src/request/Request.cpp` | parsing state, unparsed leftover, headers, body buffer, route | add a piece, reset |
| Response, status | `src/response/Response.cpp`, `Status.cpp` | headers, page buffer, status code, error flag | build headers, error pages, reset |
| CGI output parser | `src/response/cgiParsing.cpp` | parsing state, leftover, page | add a piece |
| Content fetcher | `src/filling/*.cpp` | executors | GET, POST (uploads), DELETE, listings, read a CGI chunk |
| Executors | `src/execution/*.cpp` | environment strings | fork, redirect, execve |
| Body buffer | `src/buffer/*.cpp` | memory string or temporary file, streams | write (spills over a threshold), read, clear |
| Sessions | `src/polling/Session.cpp`, `Request.cpp:312-358`, `ServerConf::getSessionMap` | cookies by session id, in the configuration of the server | create, look up, add cookies |
| Router, routes | `src/routing/Router.cpp`, `src/config/Route.cpp` | routes of a server | find the route, find the file |
| Configuration | `src/parsing/ConfigParser.cpp`, `src/config/ServerConf.cpp` | server blocks | parse, default route, drop conflicting servers |
| Sockets | `src/polling/Sockette.cpp` | descriptor | create, bind, listen, close |

How they interact: the loop calls a socket object through the pointer stored in
each epoll event; a server socket accepts; a client socket hands the event back
to its server, which reads from the socket into the request parser, or from the
CGI pipe into the CGI output parser. A finished request goes through the router
to the content fetcher, which fills the response at once or starts a script. The
answer goes out when the socket is writable, and a kept-alive connection starts
again with the same Request, Response and Status objects. After each batch the
servers visit their clients for timeouts. There are no threads; what makes the
code hard is that everything is cut into events:

- a socket and the CGI pipe of one client carry the *same* pointer, so one batch
  may hold two events for one object, and the first may delete it;
- epoll mask, client state, pipe flag and child are four pieces of state that
  are changed in different functions;
- peers, scripts and the clock move between `epoll_wait` and the handling of an
  event, so an event may be stale;
- TCP and pipes cut requests and CGI output anywhere;
- exceptions of handlers delete the client; some failures are not exceptions at
  all (SIGPIPE), and some are caught in the wrong process;
- a forked child shares descriptors and the epoll instance with the server until
  `execve`, and nothing waits for it afterwards;
- objects are reused over the requests of a connection.

What makes each part correct: the loop never dispatches to a deleted client, never
loses a client (each has an event or a timeout to look forward to), executes a
request once, kills the scripts it gives up on, and stops on SIGINT. The parsers
give the same result for every way of cutting their input. The buffer gives back
what was written. A session id belongs to one user. The router picks the longest
route, and a configuration keeps one server per port.

## Modules

| Module | Models | Instance and runs |
|---|---|---|
| `HttpConnection` | what the server promises each connection (abstract) | refined by `EventLoop` |
| `EventLoop` | Poller, ServerSocket, ClientSocket, signals, life of CGI children | `MCEventLoop`, `EventLoop_*.cfg` |
| `EventLoopProofs` | type correctness, inductive invariant, safety theorems, action properties, refinement of `HttpConnection` | TLAPS |
| `RequestParser` | `Request::addRequestChunk`, reset and keep-alive | `MCRequestParser`, `RequestParser.cfg` |
| `RequestParserProofs` | type correctness, requests parsed as they were sent and in full | TLAPS |
| `CgiOutput` | `Response::addCGIChunk`, `readCGIChunk` | `MCCgiOutput`, `CgiOutput.cfg` |
| `CgiOutputProofs` | type correctness, the page that is served | TLAPS |
| `CgiProcess` | `Executor` and its two kinds, the children, descriptors, what epoll watches | `MCCgiProcess`, `CgiProcess*.cfg` |
| `CgiProcessProofs` | type correctness, who holds which descriptor | TLAPS |
| `Site` | `Router`, `Route`: operators on URLs, routes and files | extended by `Exchange` |
| `Exchange` | what a connection answers to its requests and does to the disk | `MCExchange`, `Exchange.cfg` |
| `ExchangeProofs` | headers, announced connections, error pages, answers that stand alone, the disk, forms and uploads | TLAPS |
| `Sessions` | session ids, the session map and cookies of several connections | `MCSessions`, `Sessions.cfg` |
| `SessionsProofs` | its inductive invariant and all its properties | TLAPS |
| `BodyBuffer` | `Buffer`, `FileHandler`, the files of `tmp/` | `MCBodyBuffer`, `BodyBuffer.cfg` |
| `BodyBufferProofs` | its inductive invariant and safety theorems | TLAPS |
| `Configuration` | `ConfigParser`, `ServerConf`, `Route`: operators on files and servers | extended by `Startup` |
| `Startup` | `main` from the file to the loop, and the exit | `MCStartup`, `Startup.cfg` |
| `StartupProofs` | files and what is read of them, servers, those that are dropped, listeners and port conflicts | TLAPS |

`EventLoop` is the hub: its `HandleRecv` says only that a request is finished and
is answered at once or by a script. `RequestParser` and `CgiOutput` open the
parsing, `Exchange` and `Site` the answer, `Sessions` one header of it,
`CgiProcess` the start and end of a script, `BodyBuffer` the storage, and
`Startup` what happens before and after the loop.

### EventLoop

`conn[c]` is the ClientSocket object in slot `c` with the epoll mask of its
socket; `net[c]` the TCP connection in the kernel; `cgi[c]` the child and the
pipe; `batch` the events of the last `epoll_wait` that are still to be handled;
`phase` where control is in `launchEpollListenLoop`; `running` is `g_running`.

| Actions | Code |
|---|---|
| `WaitForEvents`, `WaitInterrupted` | `Poller::waitForEvents` |
| `HandleListen` | `ServerSocket::handleConnection`, `acceptNewConnection` |
| `HandleRecv`, `HandlePipe` | `processEvents` to `handleExistingConnection` to `receiveAndParseData`, with everything it calls: `readCGIChunk`, `readRequest`, `fillResponse`, `executeFile` and the two `catch` blocks |
| `HandleSend` | `sendDataIfComplete`, `sendResponse`, `closeConnectionOrCleanAndKeepAlive` |
| `TimeoutIdleClients` | `timeoutIdleClients`, all clients in one step, then the test of `g_running` |
| `CloseServers` | `~Poller`, `~ServerSocket`, `~ClientSocket` |
| `Connect`, `PeerSends`, `PeerReads`, `PeerShutsDown`, `PeerResets` | the peer (external) |
| `ChildWrites`, `ChildClosesOutput`, `ChildExits` | the script (external) |
| `Tick`, `Sigint` | the clock, the user |

Modelling decisions:

- An event is filed under the branch of `handleExistingConnection` it takes.
  `socketIsReadyToReceiveData` includes a hang-up, so a reset peer goes to
  `recv` in every polling mode, and the branch that tests for a hang-up is
  never taken. EPOLLERR of a TCP socket never comes without EPOLLHUP, so the
  last branch is not taken either. A FIN alone is plain input.
- Events of a batch may come in any order; epoll promises none.
- Request bytes are segments and a piece may leave the request unfinished or
  finish it, with or without keep-alive, or throw (a bad URL, a failed fork);
  `RequestParser` looks inside. `fillResponse` answers at once or starts a
  script.
- `recv` that returns 0, an error or EAGAIN ends in the same place: EAGAIN makes
  `std::string(_buffer, -1)` throw (`ClientSocket.cpp:223`). `read` on the pipe
  has its test of `errno` inverted (`ContentGETter.cpp:89`), so EAGAIN throws.
- `StorageFails` lets the write of a spilled CGI page throw, `ResetAfterFin`
  lets a peer reset after its FIN, after which `send` raises SIGPIPE and `phase`
  becomes `"dead"`. No run sets them; see "What the code does".
- A slot is used again after its connection is removed, though not while an
  orphaned script of it lives; `child = "none"` also stands for a zombie, since
  no child is ever waited for.
- `net[c].wire` (what the peer got of the current answer) and `conn[c].fills` (calls
  of `fillResponse` for the current request) are history: no guard reads them.
- Clocks count whole seconds like `std::time` and saturate one above their
  limit; the code only compares them with the limit.
- A failed `accept`, `fork`, `pipe` or `execve` is in `CgiProcess`, the opening of
  several servers in `Startup`. Not modelled: failures of `epoll_ctl` on a new
  connection and of `epoll_wait` other than EINTR, events of two servers in one
  batch, `MAX_EVENTS`.

### RequestParser and CgiOutput

Input is a sequence of tokens: a line is one token, CR and LF are tokens of
their own, a byte of a body is one token. `Receive` and `Read` take any prefix
of what is still to come. The functions of the code are operators on the record
of its members, and the loops of `addRequestChunk`, `assembleChunkedBody` and
`addCGIChunk` are recursive functions of the number of turns. `KeepAlive` resets
the parser and appends the next request to what the connection still holds;
`clean` says that it held whole requests only. Two constants exclude two kinds of cut
that the code cannot take, so that the passing runs say what holds for all others:
`CutCrLf`, a piece that ends between CR and LF, and `CutLine`, a read of a script's
output that ends where a header line ends (`addCGIChunk` takes the empty rest for the
end of the output, `cgiParsing.cpp:59`).

Scope of the properties: no pipelining (clients wait for an
answer), no chunked bodies (`InScope`), scripts that write CR LF (a script that writes LF
alone has no headers for this parser). A body over half the limit that comes in
pieces may be refused with 413, since the code counts twice what it has
(`Request.cpp:619`); it is in scope, and `ParsedAsSent` says that it is refused or
taken whole.

### Site and Exchange

`EventLoop` knows that a request is answered at once or by a script; `Exchange`
says with what. `conn` is one ClientSocket with its Request, Response and Status,
`disk` maps the paths of the files of the site to what is in them. A URL and a path are sequences of names without
slashes; a name is an owner (the session prefix of an upload), a key and an
extension; a page is a sequence of contents, so that its length is what
`Content-Length` is made of. `Site` holds the functions of the router as operators on
URLs and the disk.

| Actions | Code |
|---|---|
| `ReceivePart`, `ReceiveHead` | `readRequest`; request line and headers with `validateRequestLine` and the errors of `setIfAssemblingBody` |
| `ReceiveRest` | the rest of the request and all of `fillResponse`: `routeRequest`, `getItemFromServer`, `postItemFromServer`, `deleteItemFromServer`, the uploads, status, error page and headers |
| `ReadCGIOutput`, `EndOfCGIOutput` | `readCGIChunk`: the output, with the limit of `assembleCGIBody`, and its end |
| `TimeoutRequest`, `TimeoutCgi` | `timeoutRequest`, `timeoutCgi`, also when an answer is ready |
| `SendResponse` | `closeConnectionOrCleanAndKeepAlive` after the answer is out |
| `RemoveConnection`, `AcceptNewConnection` | the peer hangs up, and comes back |

Modelling decisions:

- One connection: connections share only the disk, and a handler is one step, so
  what another does between two requests is an initial disk.
- The head and the rest of a request are two steps, since a timeout may come
  between them. `ReceivePart` is a first piece that completes no line.
- `RoutesAssumption` and `RequestsAssumption` say that the URLs of routes and requests are
  made of names and the parts of a form of a key, a value and an extension;
  `DirsAssumption` that the empty path, which the router returns for "no file", is no
  directory.
- Every file can be read, so the 403 of an unreadable one is left out; the
  directories of a site do not change. The page of a script is one token or nothing: `CgiOutput` looks inside.
- A multipart form is `opened` if its first line holds the boundary. It never
  does if the boundary has upper-case letters: `addAsHeaderVar` puts the value of
  `Content-Type` in lower case (`Request.cpp:347`) and the body is compared with
  that. The headers of a part end with an empty line; the code loops for ever if
  the body stops inside one (`ContentPOSTer.cpp:71`), and the forms leave this out.
- Error pages are those of `ErrorPages`, looked for in the root of the request's
  route (`Response.cpp:287`). Without a route that is a null pointer:
  `phase = "crashed"`. Every request with a head has a route, since `DefaultRoute`
  of `Configuration` is the last of every server; a timeout before the head has
  none, so that no run has a page for 408.
- `NoOwner`: a name without a session prefix. A request without a session
  uploads as session 0, as in the code. Sessions come from cookies here, and
  `Sessions` has the rest.
- The upload directory is looked for anywhere in a path (`Occurs`, `Router.cpp:152`), by
  whole names: a directory whose name only begins with it is left out. A name that has an
  owner already gets a second one, and no file has such a name (`WithSessionId` is `NoPath`).
- Generated names are new (`BodyBuffer` says when they are).

What the code does and no property of a passing run claims: `parseUrlEncodedBody` looks
for `&` from the beginning of the body (`ContentPOSTer.cpp:57`), so a form of three
pairs gives two files, the second with the rest of the body in it; `FormIsStored`
is about two pairs, and violated if its `Len(...) <= 2` is taken away.
`serveErrorPage` raises the flag without the code (`ContentFetcher.cpp:183`), so the
DELETE of a directory is answered 200 with an empty page, not 403. An upload that
throws half way keeps the files it has written and closes the connection.

### BodyBuffer

`buffer[b]` is a Buffer with its FileHandler; `file` what is in `tmp/`; `counter`
and `made` the static counter of `generateRandomFileName` and how many names it
gave in this second; `left` the files of servers that were killed; `script[b]`
a child that has been forked for the request of `b` and has not opened its body yet.
`written` and `streamed` are history.

| Actions | Code |
|---|---|
| `Create`, `Destroy` | constructors, `~FileHandler` |
| `WriteToBuffer` (`WriteToMemory`, `Spill`, `WriteToFile`) | `Buffer::writeToBuffer`, `createFile`, `writeToFile` |
| `WriteFails` (`OpenFails`, `SpillFails`, `AppendFails`) | the exceptions of the two; the buffer goes with its client |
| `ClearBuffer` | `clearBuffer`, `clearFile` |
| `GetStream` | `getStream`, read to its end by an upload |
| `ForkScript`, `ScriptOpens` | `executeFile`, `getReadableFd` in the child |
| `NameUpload` | an upload to a directory, whose name takes the counter on |
| `Crash`, `Tick` | the process is killed and started again; the clock |

Modelling decisions: a request that is being answered is not written to
(`sealed`), since `hasParsedRequest` stops the reading; a failed write removes the
client, so what part of a piece reached the file is not followed after
`AppendFails`; scripts of a killed server are not followed. `NamesAssumption` says
that fewer than `__INT16_MAX__` files are made in one second. The server never
copies a Buffer, and the copy constructors are left out. The process that opens
the body is modelled for its input only.

### CgiProcess

`EventLoop` starts a script in one step; here the server and its children are
interleaved call by call. `conn[c]` is the ClientSocket with its pipe and pid; `fds`
and `cloexec` the descriptors of the server; `epoll` the files the epoll instance
watches; `proc` the process table, each entry with descriptors of its own; `forking`
the connection whose `executeFile` has forked and not returned.

| Actions | Code |
|---|---|
| `AcceptNewConnection`, `AcceptFails` | `acceptNewConnection`; its failure is outside every `try` |
| `Fork`, `ForkFails`, `PipeFails` | `executeFile` up to `fork`, and the exceptions that remove the connection |
| `StartReadingPipe` | the rest of `executeFile`, `startReadingPipe`, `addPipe` |
| `ReadEndOfFile`, `TimeoutCgi` | `stopReadingPipe`: remove, close, `kill` |
| `KeepAlive`, `RemoveConnection` | the answer is out, or the client goes |
| `Redirect`, `Exec`, `ExecFails` | the child in `execFileWithFork`, in both executors |
| `ScriptClosesOutput`, `ScriptExits` | the script (external) |

Modelling decisions:

- A descriptor stands for its open file, and the kernel watches a file until it is
  removed or the last descriptor of *any* process for it is closed (`Watched`). That is
  how a pipe the server has closed without `removePipe` can go on being watched.
- Children are never waited for: an entry that is used stays a zombie, and the table is
  full after `Pids` scripts. A `kill` of a zombie does nothing.
- A failed `fork` leaves both ends of its pipe open (`Leaked`), in the server and in
  later children. They are the exception in two properties; with the real limits it
  takes as many failed forks as there are descriptors to stop `accept` by them.
- When `execve` of `php-cgi` fails, the exception unwinds into the loop of the *child*
  (`state = "serving"`). What it does to the epoll instance at once is modelled; that it
  then serves connections of its own is not followed.
- Contents, timers and peers are in `EventLoop`; here a timeout or a hang-up may come
  at any time.

### Sessions

`sessions` is the session map of a server's `ServerConf`, where requests and answers look
(`ServerConf.cpp:109`; the maps of `ServerSocket` and `ClientSocket` are used by nothing),
`conn[c]` the session of the Request in slot
`c`, `jar[u]` the `session_id` a browser has. `given` (for whom a session was made in
which second) and `presented` are history.

| Actions | Code |
|---|---|
| `ReceiveHeaders` | `addAsHeaderVar` on `Cookie` and `Session` headers in their order, `addCookie`, `createNewSession` |
| `Answer` | the `Set-Cookie` headers of `createHTTPHeaders`, then the reset, which keeps the session |
| `AcceptNewConnection`, `RemoveConnection`, `Restart` | connections come and go; the map is in memory only |
| `ForgetCookies`, `Tick` | the user, the clock (external) |

Modelling decisions: `std::map::insert` and `operator[]` are modelled by what they do to
keys that are and are not there (`Insert`, `Find`). The generator is seeded with the
second at every call (`Session.cpp:22`), so its number is a function `Rand` of the
second. A browser sends all its cookies in one header, and the server reads the number
after the first `=` of any header that holds `session_id` (`Request.cpp:333`): with
`SessionFirst`, that is the right one.

### Configuration and Startup

A line of a file is its kind, its key and its value, so that what a word is trimmed to
is left out and what a line does to the parser is not. `Startup` is `main`: `file`,
`at`, `open` and `configs` are the parser (a stack of blocks that are open); `kept`,
`used` and `checked` are `removeInvalidServerConf`; `tried`, `sock`, `serverList` and
`listeners` the opening of servers; `foreign` the ports of other programs.

| Actions | Code |
|---|---|
| `SkipLine`, `ParseServerBlock`, `ParseLocationBlock`, `AddLineAsKeyValue`, `CloseLocationBlock`, `CloseServerBlock`, `EndOfFile` | `ConfigParser`, one line each |
| `RemoveInvalidServerConf` | one server each |
| `CreateSocket`, `BindToIPAddress`, `SetListenMode`, `AddServerSocket` | the constructor of `ServerSocket`, call by call |
| `PortIsTaken`, `CallFails` | an exception of these, caught in `openServersAndAddToWatchList` |
| `LaunchEpollListenLoop`, `SingalHandler`, `CloseServers` | the loop (in `EventLoop`), SIGINT, `~Poller` |
| `OtherProcessListens`, `OtherProcessEnds` | other programs (external) |

Modelling decisions: `Configuration` says what a file means by the depth of its lines
(`Written`, `IsValidFile`), without a stack, and `ParsedAsWritten` compares the parser
with that. The address of `listen` is checked and never used: a server listens on all of
them, so that two servers of one port conflict whatever their addresses. The locations
inside a location are parsed and kept where nobody looks for them, and a location does not
inherit the root of its server.

## Runs

| Run | Expect | Shows |
|---|---|---|
| `eventloop_safety` | pass | two connections, all interleavings: `PollingModeMatchesState`, `NoDanglingEvent`, `EventsAreSound`, `NoStrayScript`, `FilledOnce`, `TimedOutIsFinal`, `LivePeerIsKept`, and that the loop implements `HttpConnection` |
| `eventloop_liveness` | pass | one connection, fair loop: `CgiEventuallyStops`, `HangUpIsCleanedUp`, `StalledRequestIsAnswered`, `SigintStops` |
| `request_parser` | pass | `ParsedAsSent`, `ParsedInFull`: the result does not depend on how the request was cut, nor on the requests before it |
| `cgi_output` | pass | `PageIsServed`: the page is what the script wrote, in however many pieces it was read |
| `cgi_process` | pass | two connections and their children, with every call that can fail: `OnlyItsScriptWrites`, `HoldsWhatItNeeds`, `ScriptsHoldTheirOutput`, `WatchedIsOwnedOrHeld`, `KillHitsItsOwn`, and, with children scheduled fairly, `StaleRegistrationsEnd` |
| `exchange` | pass | requests of all kinds one after the other: `HeadersFitThePage`, `ErrorPagesHaveARoot`, `AnswersStandAlone`, `ConnectionIsAsAnnounced`, `DiskFollowsTheAnswer`, `FormIsStored`, `UploadIsServed` |
| `sessions` | pass | two browsers on three connections over restarts: `SessionIsKnown`, `PresentedSessionIsKept`, `SharedOnlyWithinASecond` |
| `body_buffer` | pass | two buffers: `ContentIsWhatWasWritten`, `FilesAreDistinct`, `NoFileOutlivesItsBuffer`, `ScriptReadsItsBody` |
| `startup` | pass | some 770 files, up to the loop and down to the exit: `ParsedAsWritten`, `UniqueServers`, `DropsOnlyDuplicates`, `ListenersAreWatched`, `PortConflictsAreForeign` |
| `timedout_hangup` | violation | a timed-out client whose peer resets is never removed (`ServerSocket.cpp:121`) |
| `partial_send` | violation | a response that needs two calls is sent again from its start (`ClientSocket.cpp:246`) |
| `second_server` | violation | a `php-cgi` that cannot be executed ends the server: `ServerSurvives` (`PHPExecutor.cpp:87`) |

Every property of a passing run has a mutant in `PROJECT.json`: a definition
changed as a plausible bug would change it, for which TLC finds the property
violated. The mutated forms stand before the definitions they replace.

### What the code does, and no run claims

The constants that restrict the passing runs are there because the code does not
behave well outside of them. To see each, change the `.cfg` as said; TLC finds the
property violated at once.

| Change | Violated | Because |
|---|---|---|
| `ResetAfterFin = TRUE`, invariant `SendFailureIsContained` in `EventLoop_partial_send.cfg` | `SendFailureIsContained` | a peer that resets after its FIN raises SIGPIPE in `send` (`ClientSocket.cpp:248`) |
| `StorageFails = TRUE` in `EventLoop_safety.cfg` | `NoDanglingEvent` | a CGI page that cannot be written deletes the client of a later event (`FileHandler.cpp:186`) |
| `CutCrLf = TRUE` in `RequestParser.cfg` | `ParsedInFull` | what ends between CR and LF is never parsed to the end (`Request.cpp:421`) |
| invariant `BodyReceivedInFull` in `RequestParser.cfg` | `BodyReceivedInFull` | chunked bodies are lost (`Request.cpp:586`, `:597`) |
| `CutLine = TRUE` or `CutCrLf = TRUE` in `CgiOutput.cfg` | `PageIsServed` | an empty rest is taken for the end of the output (`cgiParsing.cpp:59`) |
| invariant `StreamGivesTheBuffer` in `BodyBuffer.cfg` | `StreamGivesTheBuffer` | a second spilled body of a connection cannot be read as a stream (`Buffer.cpp:72`) |
| `Missing = {}`, invariant `NothingStaleIsWatched` in `CgiProcess.cfg` | `NothingStaleIsWatched` | `~ClientSocket` closes its pipe while the child still has it, and epoll keeps it (`ClientSocket.cpp:38`) |
| `SessionFirst = FALSE` in `Sessions.cfg` | `SessionIsKnown`, `PresentedSessionIsKept` | the first cookie of the header is taken for the session (`Request.cpp:333`) |
| a page for 408 in `MCErrorPages` | `ErrorPagesHaveARoot` | a timeout before the head has no route (`Response.cpp:287`) |

Of the seventh, `StaleRegistrationsEnd` says that it ends as soon as the child reaches
`execve`; until then the loop may be handed a pointer to a client that is gone.

### Bounds, and why they are enough

- Clients: connections share nothing but the batch, the clock and the listening
  queue; two of them exercise every order of events, with symmetry. Liveness
  runs with one client, where symmetry is not needed; it does not depend on
  other connections, since a batch is finite and each event is handled once.
- `TIMEOUT_CONNECTION` and `TIMEOUT_CGI` are 5 in the code and 0 or 1 in the
  runs: the clocks are only compared with them, and the liveness run takes 1 so
  that both an early and a late second exist. The theorems are for all values.
- `MaxInbox`, `MaxOutput`: 1 or 2 pieces waiting. A read takes any number of
  segments, so that a longer queue adds no new handler behaviour.
- Parsers: the messages in `MCRequestParser` and `MCCgiOutput`, with limits
  (`MaxBody = 4`) that some bodies and pages are under, at and over.
- `Exchange`: the routes of `confs/basic.conf` in small (an upload route, a default
  route) and one whose directory is not writable; about eighty requests, good and
  bad, with and without a session; error pages that exist and that do not; at most
  twelve files. Answers depend on earlier requests through the reused objects and
  the disk only, and any sequence of requests is explored.
- `CgiProcess`: two connections, two entries of the process table, four pipes, seven
  descriptors. Two scripts fill the table, the next `fork` fails, one such failure
  with both connections open leaves too little for a `pipe`, and two leave nothing
  for `accept`. The theorems are for all values.
- `Sessions`: two users, one with two connections, three seconds, a number for each of
  them and a foreign cookie that holds one of the three. The map only grows between
  restarts, and whom a session is shared with shows with two users.
- `Startup`: blocks with every kind of line, every error of a block, all pairs of
  these and all triples of the plain servers, which have three ports and three names.
- `BodyBuffer`: two buffers, a threshold of one byte, contents of at most two,
  two seconds and a counter that wraps at 2 with up to two names a second, so
  that names come back in a later second and the counter wraps within one. What
  one buffer meets in others is their files, and two show it; the theorems are
  for all values.

### Fairness

`FairSpec` of `EventLoop` adds `WF_vars(Loop)` and nothing else: the kernel keeps scheduling the
server, and `epoll_wait` returns after a millisecond at the latest. Peers, scripts
and users promise nothing. The properties about timeouts have `TimePasses`, weak
fairness of `Tick`, as a hypothesis of the formula. Two limits follow from the code:
a peer that keeps sending a byte now and then keeps its request alive for ever, and
so does one that keeps draining a large answer, hence `StalledRequestIsAnswered` is
about requests that stop arriving. `HangUpIsCleanedUp` excepts connections that
have timed out (that is the finding of `timedout_hangup`) and scripts that keep
writing, which the CGI timeout ends.

`FairSpec` of `CgiProcess` has `WF_vars(ChildStep(q))` for each child: the kernel
schedules it until `execve` has been called, which blocks on nothing. What a script does
after that is not assumed.

Four modules stop where their bounds do, and their runs do not check deadlock:
`EventLoop` after SIGINT, `CgiProcess` when an exception ends the server, `BodyBuffer`
when the server is dead and time is up, `RequestParser` in a request that cannot be
finished. The other runs check it.

## Proofs

All theorems are for every value of the constants, under the assumptions that the
modules declare and TLC evaluates. Each proof module finds an invariant that is
inductive and contains what the properties need.

`EventLoopProofs` proves:

- `TypeCorrect`: `Spec => []TypeOK`, storage failures included;
- assuming `StorageFails = FALSE`: `Inductive` (`[]IInv`) and from it
  `EventsNameLiveClients`, `EventsStaySound`, `PollingModesAgree`, `NoScriptStrays`,
  `RequestsAreFilledOnce`; `TimedOutStaysFinal` and `LivePeersAreKept`; and
  `Implementation`, that `EventLoop` implements `HttpConnection`.

The assumption is needed: a CGI page that cannot be written to its file throws out of
`readCGIChunk` and deletes the client, and when its peer has also reset, a later event
of the batch still points to it. That no event dangles depends on what
the events still mean when their turn comes: if a socket and a pipe event of one
client wait together, the peer has reset and the pipe has something to read
(`EventsAreSound`), so the first of them neither finds EAGAIN nor deletes the
client. That in turn depends on a client being watched on one descriptor only,
except for hang-ups (`ModeMatches`), and `FilledOnce` on `fills` being 0 in
a client that waits for a request (`ConnectionInv`). `IInv` is the conjunction,
with the batch empty outside `processEvents`. Its proof has one step per action;
what a handler does to the client it was called for is in lemmas
(`ReceiveKeepsInv`, `SendKeepsInv`), and `OneClientStep` lifts them to all clients.

`BodyBufferProofs` proves from `NamesAssumption` alone: `TypeCorrect`, `Inductive`,
`ContentKept`, `FilesOwned`, `FilesEnd` and `ScriptsReadTheirBody`. Contents are right only as
long as no two buffers share a file, and that rests on names: `Recent(n)` says that a
name in use is of an earlier second or one of the last `made` values of the counter,
and `NewNameIsNew` that the next name is neither (this is where the counter must not
wrap past `made`). `ScriptInv` adds that the file a script is about to open
belongs to its buffer, which is sealed, or is gone. `OneBufferStep` reduces
each action to the one buffer and the one file it changes.

`CgiProcessProofs` proves `TypeCorrect`, `WritersAreOwn`, `NothingElseIsHeld`,
`ScriptsHoldNoSocket` and `KillsAreOwn`, for any table of processes, limits and missing
interpreters. `ServerInv` and `ChildInv` say of each descriptor of each process why it
is there: a descriptor is for a connection, leaked, or closed by the coming `execve`,
and a child that is not at its `execve` yet may hold the read ends of others but never a
write end. `Distinct`, one pipe for one connection and one child, gives the rest. `WatchedIsOwned` needs `"php" \notin Missing` as well (`EInv`:
what is watched is held by a connection or a child that was forked with it). Without it
the child that goes on serving removes the socket, and a server that ends by that leaves
registrations to its children.

`RequestParserProofs` proves `TypeCorrect` for any messages and limit, chunked bodies
included, and, with `CutCrLf = FALSE`, `RequestsParsedAsSent` and `RequestsParsedInFull` for
every message in scope, cut into any other pieces, after any number of other requests. `IInv`
says that some place `k` in the encoded message separates what was parsed from what is still
to come (`InStep`), and `HasParsed` what the members of the Request are when `k` tokens are
parsed: in the head (`InHead`, the fields of the lines before the current one and a
leftover without a line end), in the body (`InBody`), or finished. `TurnStep` is one turn of
the loop of `addRequestChunk`, and `ParsesPiece` the whole loop. `CgiOutputProofs` proves
`TypeCorrect` and, when no read ends between CR and LF or where a header line does
(`ReadsEndWithinLines`), `PagesAreServed`, along the same argument: it is about the page
only, as no answer has the headers of a script. The loops are recursive
functions of the number of turns. The library's induction rules take an operator, which no
prover here can instantiate; the proofs use the least element of a set of naturals instead
(`Least`, from `WFMin` and `NatLessThanWellFounded`), and from it `Induction` over sets and
`Iteration`: a function that repeats a step exists and satisfies its equations
(`TurnsExist`).

`ExchangeProofs` proves, for any site, routes and requests:

- `HeadersFitItsPage` and `ConnectionIsKeptAsSaid`. At every step of an answer the header
  block is still empty (`InTheMaking`), and each end of one adds exactly one (`Answered`),
  also when a timeout resets an answer that was ready.
- `ErrorPagesAreRouted`, assuming `RoutesAndPages`: every request has a route, which
  `DefaultRoute` gives to every server, and there is no page for 408.
- `AnswersAreTheirOwn`: `AnswersStandAlone`. `FreshInv` says that a connection between two
  requests is a new one but for its session, and that a parsed request is what the parser
  makes of it on a new connection. The two differ in their phase at most (`Twins`), which
  every step of an answer keeps.
- `DiskIsAsAnswered`, `FormsAreStored` and `UploadsAreServed`. `Follows` says what every
  branch of `fillResponse` does to the disk together with the code it sets, `StoredBy` what is
  on it after the last part of a form, and `HasItsFile` and `Finds` that the router goes from
  the URL of a file back to it. `UploadIsServed` needs one condition more than was first
  modelled, which the proof found: there must be no directory of the name of the upload. A GET
  looks for the directory before it looks for the file of the session (`Router.cpp:151`), so
  that an upload called like a directory of its route is stored and not served.

`SessionsProofs` proves `TypeCorrect` and, assuming `SessionFirst`, all three properties. Their
invariant says that the map names every session by its own cookie (`MapOK`), that a session
in use is in the map (`KnownIn`), and that a browser's cookie was made for it (`MadeFor`),
which a restart does not change; `Keeps` says that a parsed header takes nothing out of
the map.

`StartupProofs` proves `FilesAreReadAsWritten`, `ServersAreUnique`, `WatchedListeners`,
`ConflictsAreForeign` and `DroppedAreDuplicates` for any ports and any files, of any length
and with blocks of any depth (`FilesAssumption`: a file is a finite sequence of lines).
`Read` says what the stack of the parser is before a line: as many blocks are open as the
depth of the line says, one line has opened each of them and none has closed it since
(`IsOpenAt`, `OneOpens`), each holds the last values of its own lines so far and a server
the locations that have closed in it (`BlockAt`), and the servers read are those of the
blocks that are shut (`Shut`). One lemma for each kind of line says what it does to the stack
(`StackStays`, `StackGrows`, `StackTakesPair`, `StackCloses`) and one what it does to the
servers (`ReadOn`, `ReadServer`). That depths exist and what they are (`DepthIs`) is by
`Least` again, which the module has for itself. Servers are opened and closed in their order,
so that those in the list are different, have different ports (`SieveInv`) and are not the
one that is being opened (`OpenerInv`): the proof that a port in use is foreign rests on both.
That only duplicates are dropped rests on `ReadInv`: every port of the servers checked so far
is reserved, also that of a server dropped for its name, while the reserved names are
those of the kept; so a server can only go for a name or a port the file gives twice.

Only model-checked: liveness (fairness is out of the prover's reach), with
`StaleRegistrationsEnd`. Every other property of a passing run is a theorem, under the
assumptions named above. Chunked bodies are typed and no
more, since the code loses them. The type invariants are in no run, since every other
property there would fail with them; those of `Exchange` and `Startup` hold in
their instances and are not proved.

## Not modelled, and what is left

Not modelled: pages and sample sites, MIME tables, HTML of listings, environment
strings of scripts, the words of a configuration line, query strings,
`HEAD` (the code never calls it), files that may not be read, and the loop
over the headers of a form part that do not end (`ContentPOSTer.cpp:71`), which never
returns.

What could follow:

1. Events of two servers in one batch, and failures of `epoll_ctl` and `epoll_wait`, in
   `EventLoop`.
2. The child that goes on serving, as a second process with a loop of its own.
3. That a request never leaves the directory of its route.
