------------------------------ MODULE EventLoop ------------------------------
(***************************************************************************)
(* The single-threaded epoll loop of miniServ: Poller, ServerSocket,       *)
(* ClientSocket and the life of the CGI children they start.               *)
(*                                                                         *)
(* conn[c] is the ClientSocket object in slot c together with the epoll    *)
(* mask of its socket, net[c] the TCP connection as the kernel sees it,    *)
(* cgi[c] the child process and the pipe it writes to, batch the events    *)
(* returned by the last epoll_wait() that processEvents() has not handled  *)
(* yet.  A socket and the CGI pipe of the same client carry the same       *)
(* pointer in their epoll_event, so one client may appear twice.           *)
(*                                                                         *)
(* Request bytes are counted in segments, CGI output in chunks, time in    *)
(* whole seconds (std::time).  What a request or a chunk contains is left  *)
(* to RequestParser and CgiOutput.                                         *)
(***************************************************************************)
EXTENDS Naturals, FiniteSets

CONSTANTS
  Clients,             \* slots for connections; bounds how many are open at once
  TIMEOUT_CONNECTION,  \* ServerSocket.hpp:14
  TIMEOUT_CGI,         \* ServerSocket.hpp:15
  MaxInbox,            \* bound: request segments waiting in a socket
  MaxOutput,           \* bound: output chunks waiting in a CGI pipe
  StorageFails,        \* whether writing a spilled CGI body to disk may fail
  ResetAfterFin        \* whether a peer that has shut down may still reset

ASSUME TimeoutsAssumption ==
  TIMEOUT_CONNECTION \in Nat /\ TIMEOUT_CGI \in Nat
ASSUME BoundsAssumption ==
  MaxInbox \in Nat \ {0} /\ MaxOutput \in Nat \ {0}
ASSUME FaultsAssumption ==
  StorageFails \in BOOLEAN /\ ResetAfterFin \in BOOLEAN

VARIABLES running, phase, batch, conn, net, cgi
vars == <<running, phase, batch, conn, net, cgi>>

-----------------------------------------------------------------------------
(* The state of a connection                                               *)

\* e_clientState; CLIENT_PARSING and CLIENT_SENDING are never assigned.
ClientStates == {"CONNECTED", "HAS_PARSED", "FILLING", "HAS_FILLED", "HAS_SENT"}
\* e_requestState, the three states before PARSING_DONE taken together.
ParsingStates == {"EMPTY", "PARTIAL", "DONE"}
PollingModes == {"READING", "WRITING", "ONLY_ERROR"}

\* A clock saturates one second past the limit it is compared with.
Clock(limit) == 0 .. limit + 1
Later(t, limit) == IF t > limit THEN t ELSE t + 1

\* fills counts calls of fillResponse() for the current request, up to 2.
Connection ==
  [open : BOOLEAN, state : ClientStates, parsing : ParsingStates,
   mode : PollingModes, fromPipe : BOOLEAN, timedOut : BOOLEAN,
   keepAlive : BOOLEAN, idle : Clock(TIMEOUT_CONNECTION), fills : 0 .. 2]

\* "reset" is RST from an established peer, "broken" RST after its FIN, which
\* makes the next send() raise SIGPIPE.  room: the send buffer accepts bytes.
\* wire: what the peer has been sent of the current response.
Peers == {"none", "open", "fin", "reset", "broken"}
Stream ==
  [peer : Peers, inbox : 0 .. MaxInbox, room : BOOLEAN,
   wire : {"whole", "prefix", "garbled"}]

\* "none" is no live process, a zombie counting as none; "closed" runs on after
\* closing its standard output.
Children == {"none", "running", "closed"}
Script == [child : Children, out : 0 .. MaxOutput, age : Clock(TIMEOUT_CGI)]

NoConnection ==
  [open |-> FALSE, state |-> "CONNECTED", parsing |-> "EMPTY", mode |-> "READING",
   fromPipe |-> FALSE, timedOut |-> FALSE, keepAlive |-> FALSE, idle |-> 0, fills |-> 0]
NoStream == [peer |-> "none", inbox |-> 0, room |-> TRUE, wire |-> "whole"]
NoScript == [child |-> "none", out |-> 0, age |-> 0]

Open == {c \in Clients : conn[c].open}
Alive(g) == g.child # "none"
AtEof(g) == g.out = 0 /\ g.child # "running"
Readable(g) == g.out > 0 \/ AtEof(g)
HungUp(n) == n.peer \in {"reset", "broken"}
Backlog == {c \in Clients : net[c].peer # "none" /\ ~conn[c].open}

NoEvents == [listen |-> FALSE, recv |-> {}, send |-> {}, pipe |-> {}]

Init ==
  /\ running = TRUE
  /\ phase = "wait"
  /\ batch = NoEvents
  /\ conn = [c \in Clients |-> NoConnection]
  /\ net = [c \in Clients |-> NoStream]
  /\ cgi = [c \in Clients |-> NoScript]

-----------------------------------------------------------------------------
(* ClientSocket and Poller members, as functions of the connection         *)

SetPollingMode(r, mode) == [r EXCEPT !.mode = mode]
SetClientState(r, state) == [r EXCEPT !.state = state, !.idle = 0]

HasStartedRequest(r) == r.parsing # "EMPTY"
HasFilledResponse(r) == HasStartedRequest(r) /\ r.state = "HAS_FILLED"

\* Mutant: the socket is still polled for input while the script runs.
StartReadingPipeStillReading(r) == [r EXCEPT !.fromPipe = TRUE]
StartReadingPipe(r) == [SetPollingMode(r, "ONLY_ERROR") EXCEPT !.fromPipe = TRUE]
\* Mutant: the socket is left in ONLY_ERROR mode.
StopReadingPipeMuted(r) == [r EXCEPT !.fromPipe = FALSE]
StopReadingPipe(r) == [SetPollingMode(r, "WRITING") EXCEPT !.fromPipe = FALSE]

\* Mutant: the pipe is closed and the child left alone.
KillScriptNot(g) == [g EXCEPT !.out = 0, !.age = 0]
\* The other half of stopReadingPipe(): the pipe is closed, the child killed.
KillScript(g) == NoScript

ResetContent(r) ==
  [r EXCEPT !.parsing = "EMPTY", !.state = "CONNECTED", !.keepAlive = FALSE, !.fills = 0]

CountFill(r) == [r EXCEPT !.fills = IF @ < 2 THEN @ + 1 ELSE @]
\* Mutant: WRITING is forgotten after filling.
FillAtOnceStillReading(r) == CountFill(SetClientState(r, "HAS_FILLED"))
\* fillResponse() answers at once (a file, a listing, an upload, an error page).
FillAtOnce(r) ==
  SetPollingMode(CountFill(SetClientState(r, "HAS_FILLED")), "WRITING")
\* fillResponse() starts a CGI script (Executor::executeFile).
FillFromScript(r) ==
  SetClientState(StartReadingPipe(CountFill(r)), "FILLING")

TimeoutRequest(r) ==
  LET answered == SetClientState([r EXCEPT !.timedOut = TRUE, !.keepAlive = FALSE],
                                 "HAS_FILLED")
  IN IF r.fromPipe THEN StopReadingPipe(answered)
                   ELSE SetPollingMode(answered, "WRITING")
TimeoutCgi(r) ==
  SetClientState([StopReadingPipe(r) EXCEPT !.timedOut = TRUE, !.keepAlive = FALSE],
                 "HAS_FILLED")

\* Mutant: only a script that has closed its output can be late.
CgiIsLateAtEof(c) ==
  conn[c].open /\ conn[c].fromPipe /\ AtEof(cgi[c]) /\ cgi[c].age > TIMEOUT_CGI
\* The guards of timeoutIdleClients().
CgiIsLate(c) == conn[c].open /\ conn[c].fromPipe /\ cgi[c].age > TIMEOUT_CGI
\* Mutant: hasParsedRequest() in the place of hasStartedRequest().
ParsedRequestIsLate(c) ==
  /\ conn[c].open /\ ~conn[c].fromPipe
  /\ conn[c].parsing = "DONE" /\ conn[c].idle > TIMEOUT_CONNECTION
RequestIsLate(c) ==
  /\ conn[c].open /\ ~conn[c].fromPipe
  /\ HasStartedRequest(conn[c]) /\ conn[c].idle > TIMEOUT_CONNECTION

-----------------------------------------------------------------------------
(* The handlers                                                            *)

\* Closing the pipe does not stop the child: it is orphaned if still alive.
RemoveConnection(c) ==
  /\ conn' = [conn EXCEPT ![c] = NoConnection]
  /\ net' = [net EXCEPT ![c] = NoStream]
  /\ cgi' = [cgi EXCEPT ![c].out = 0, ![c].age = 0]

AcceptNewConnection(c) ==
  /\ conn' = [conn EXCEPT ![c] = [NoConnection EXCEPT !.open = TRUE]]
  /\ cgi' = [cgi EXCEPT ![c] = NoScript]
  /\ UNCHANGED net

\* Mutant: end of file on the pipe is treated like end of file on the socket.
ReadCGIChunkEofCloses(c) ==
  \/ /\ cgi[c].out > 0
     /\ cgi' = [cgi EXCEPT ![c].out = @ - 1]
     /\ UNCHANGED <<conn, net>>
  \/ cgi[c].out = 0 /\ RemoveConnection(c)
ReadCGIChunk(c) ==
  \/ /\ cgi[c].out > 0
     /\ cgi' = [cgi EXCEPT ![c].out = @ - 1]
     /\ UNCHANGED <<conn, net>>
  \* end of file: every writer has closed the pipe
  \/ /\ AtEof(cgi[c])
     /\ conn' = [conn EXCEPT ![c] = SetClientState(StopReadingPipe(@), "HAS_FILLED")]
     /\ cgi' = [cgi EXCEPT ![c] = KillScript(@)]
     /\ UNCHANGED net
  \* EAGAIN is taken for an error, and an error of the body buffer is one
  \/ /\ ~Readable(cgi[c]) \/ (cgi[c].out > 0 /\ StorageFails)
     /\ RemoveConnection(c)

\* What addRequestChunk() makes of n segments: a finished request ignores them.
Parsed(r) ==
  IF r.parsing = "DONE" THEN {r}
  ELSE {[r EXCEPT !.idle = 0, !.parsing = "PARTIAL"]}
       \cup {SetClientState([r EXCEPT !.parsing = "DONE", !.keepAlive = k], "HAS_PARSED")
               : k \in BOOLEAN}

ReadRequest(c) ==
  \/ \E n \in 1 .. net[c].inbox, r \in Parsed(conn[c]) :
       /\ net' = [net EXCEPT ![c].inbox = @ - n]
       /\ \/ /\ r.parsing = "PARTIAL"
             /\ conn' = [conn EXCEPT ![c] = r]
             /\ UNCHANGED cgi
          \/ /\ r.parsing = "DONE"
             /\ conn' = [conn EXCEPT ![c] = FillAtOnce(r)]
             /\ UNCHANGED cgi
          \/ /\ r.parsing = "DONE"
             /\ conn' = [conn EXCEPT ![c] = FillFromScript(r)]
             /\ cgi' = [cgi EXCEPT ![c] = [NoScript EXCEPT !.child = "running"]]
  \* With data, parsing or filling throws (a header, a body, a failed fork);
  \* without, recv() returns 0, an error, or EAGAIN, whose string(buffer, -1)
  \* throws as well.
  \/ RemoveConnection(c)

\* Mutant: the early return for a client that has timed out is dropped.
ReceiveAlthoughTimedOut(c) ==
  \/ conn[c].fromPipe /\ ReadCGIChunk(c)
  \/ ~conn[c].fromPipe /\ ReadRequest(c)
ReceiveAndParseData(c) ==
  \/ conn[c].timedOut /\ UNCHANGED <<conn, net, cgi>>
  \/ ~conn[c].timedOut /\ conn[c].fromPipe /\ ReadCGIChunk(c)
  \/ ~conn[c].timedOut /\ ~conn[c].fromPipe /\ ReadRequest(c)

\* sendResponse() sends the response from its first byte on every call.
SentMore(wire) == IF wire = "whole" THEN "prefix" ELSE "garbled"

SendResponse(c) ==
  /\ HasFilledResponse(conn[c]) /\ ~HungUp(net[c])
  /\ \/ /\ conn[c].keepAlive /\ ~conn[c].timedOut
        /\ conn' = [conn EXCEPT ![c] = SetPollingMode(
                                         [ResetContent(@) EXCEPT !.idle = 0], "READING")]
        /\ net' = [net EXCEPT ![c].wire = IF @ = "whole" THEN @ ELSE "garbled"]
        /\ UNCHANGED cgi
     \/ (~conn[c].keepAlive \/ conn[c].timedOut) /\ RemoveConnection(c)
     \/ /\ net' = [net EXCEPT ![c].wire = SentMore(@), ![c].room = FALSE]
        /\ conn' = [conn EXCEPT ![c].idle = 0]
        /\ UNCHANGED cgi

SendDataIfComplete(c) ==
  \/ SendResponse(c) /\ UNCHANGED phase
  \* the peer has reset since epoll_wait(): send() fails and nothing is closed
  \/ /\ net[c].peer = "reset" /\ conn' = [conn EXCEPT ![c].idle = 0]
     /\ UNCHANGED <<net, cgi, phase>>
  \* send() fails with EPIPE and raises SIGPIPE, which nobody catches
  \/ net[c].peer = "broken" /\ phase' = "dead" /\ UNCHANGED <<conn, net, cgi>>

-----------------------------------------------------------------------------
(* Poller::launchEpollListenLoop                                           *)

SocketReadable(c) ==
  conn[c].mode = "READING" /\ (net[c].inbox > 0 \/ net[c].peer # "open")
PipeReadable(c) == conn[c].fromPipe /\ Readable(cgi[c])

\* Mutant: a hang-up is looked for in the READING branch only.
ReadyEventsHangUpMissed ==
  [listen |-> Backlog # {},
   recv |-> {c \in Open : SocketReadable(c)},
   send |-> {c \in Open : ~HungUp(net[c]) /\ conn[c].mode = "WRITING" /\ net[c].room},
   pipe |-> {c \in Open : PipeReadable(c)}]

\* What epoll_wait() finds, each socket under the branch that
\* handleExistingConnection() takes: EPOLLIN or EPOLLHUP, else EPOLLOUT.
\* EPOLLHUP is reported in every mode, and only once the peer has reset.
ReadyEvents ==
  [listen |-> Backlog # {},
   recv |-> {c \in Open : HungUp(net[c]) \/ SocketReadable(c)},
   send |-> {c \in Open : ~HungUp(net[c]) /\ conn[c].mode = "WRITING" /\ net[c].room},
   pipe |-> {c \in Open : PipeReadable(c)}]

WaitForEvents ==
  /\ phase = "wait"
  /\ batch' = ReadyEvents
  /\ phase' = "process"
  /\ UNCHANGED <<running, conn, net, cgi>>

\* SIGINT during epoll_wait(): EINTR, no events.
WaitInterrupted ==
  /\ phase = "wait" /\ ~running
  /\ batch' = NoEvents
  /\ phase' = "process"
  /\ UNCHANGED <<running, conn, net, cgi>>

\* The events of a batch come in any order.
HandleListen ==
  /\ phase = "process" /\ batch.listen
  /\ batch' = [batch EXCEPT !.listen = FALSE]
  /\ \E c \in Backlog : AcceptNewConnection(c)
  /\ UNCHANGED <<running, phase>>

HandleRecv(c) ==
  /\ phase = "process" /\ c \in batch.recv
  /\ batch' = [batch EXCEPT !.recv = @ \ {c}]
  /\ ReceiveAndParseData(c)
  /\ UNCHANGED <<running, phase>>

HandlePipe(c) ==
  /\ phase = "process" /\ c \in batch.pipe
  /\ batch' = [batch EXCEPT !.pipe = @ \ {c}]
  /\ ReceiveAndParseData(c)
  /\ UNCHANGED <<running, phase>>

HandleSend(c) ==
  /\ phase = "process" /\ c \in batch.send
  /\ batch' = [batch EXCEPT !.send = @ \ {c}]
  /\ SendDataIfComplete(c)
  /\ UNCHANGED running

\* Mutant: the loop does not test g_running.
TimeoutIdleClientsForEver ==
  /\ phase = "process" /\ batch = NoEvents
  /\ phase' = "wait"
  /\ UNCHANGED <<running, batch, conn, net, cgi>>

\* The batch is done: timeouts, then the test of g_running.
TimeoutIdleClients ==
  /\ phase = "process" /\ batch = NoEvents
  /\ conn' = [c \in Clients |-> IF CgiIsLate(c) THEN TimeoutCgi(conn[c])
                                ELSE IF RequestIsLate(c) THEN TimeoutRequest(conn[c])
                                ELSE conn[c]]
  /\ cgi' = [c \in Clients |-> IF CgiIsLate(c) THEN KillScript(cgi[c]) ELSE cgi[c]]
  /\ phase' = IF running THEN "wait" ELSE "exit"
  /\ UNCHANGED <<running, batch, net>>

\* main() returns: ~Poller deletes the servers, which delete their clients.
CloseServers ==
  /\ phase = "exit"
  /\ phase' = "stopped"
  /\ conn' = [c \in Clients |-> NoConnection]
  /\ net' = [c \in Clients |-> NoStream]
  /\ cgi' = [c \in Clients |-> [cgi[c] EXCEPT !.out = 0, !.age = 0]]
  /\ UNCHANGED <<running, batch>>

Loop ==
  \/ WaitForEvents \/ WaitInterrupted \/ HandleListen
  \/ \E c \in Clients : HandleRecv(c) \/ HandlePipe(c) \/ HandleSend(c)
  \/ TimeoutIdleClients \/ CloseServers

-----------------------------------------------------------------------------
(* Peers, children, time and the user                                      *)

Serving == phase \in {"wait", "process", "exit"}

\* A slot is not taken again while an orphan of its last connection lives.
Connect(c) ==
  /\ Serving /\ net[c].peer = "none" /\ ~Alive(cgi[c])
  /\ net' = [net EXCEPT ![c].peer = "open"]
  /\ UNCHANGED <<running, phase, batch, conn, cgi>>

PeerSends(c) ==
  /\ net[c].peer = "open" /\ net[c].inbox < MaxInbox
  /\ net' = [net EXCEPT ![c].inbox = @ + 1]
  /\ UNCHANGED <<running, phase, batch, conn, cgi>>

PeerReads(c) ==
  /\ net[c].peer \in {"open", "fin"} /\ ~net[c].room
  /\ net' = [net EXCEPT ![c].room = TRUE]
  /\ UNCHANGED <<running, phase, batch, conn, cgi>>

PeerShutsDown(c) ==
  /\ net[c].peer = "open"
  /\ net' = [net EXCEPT ![c].peer = "fin"]
  /\ UNCHANGED <<running, phase, batch, conn, cgi>>

PeerResets(c) ==
  /\ \/ net[c].peer = "open" /\ net' = [net EXCEPT ![c].peer = "reset"]
     \/ net[c].peer = "fin" /\ ResetAfterFin /\ net' = [net EXCEPT ![c].peer = "broken"]
  /\ UNCHANGED <<running, phase, batch, conn, cgi>>

ChildWrites(c) ==
  /\ cgi[c].child = "running" /\ conn[c].fromPipe /\ cgi[c].out < MaxOutput
  /\ cgi' = [cgi EXCEPT ![c].out = @ + 1]
  /\ UNCHANGED <<running, phase, batch, conn, net>>

ChildClosesOutput(c) ==
  /\ cgi[c].child = "running"
  /\ cgi' = [cgi EXCEPT ![c].child = "closed"]
  /\ UNCHANGED <<running, phase, batch, conn, net>>

ChildExits(c) ==
  /\ Alive(cgi[c])
  /\ cgi' = [cgi EXCEPT ![c].child = "none"]
  /\ UNCHANGED <<running, phase, batch, conn, net>>

\* One second passes for every clock that is running.
Tick ==
  /\ conn' = [c \in Clients |->
                IF conn[c].open
                THEN [conn[c] EXCEPT !.idle = Later(@, TIMEOUT_CONNECTION)]
                ELSE conn[c]]
  /\ cgi' = [c \in Clients |->
               IF conn[c].fromPipe THEN [cgi[c] EXCEPT !.age = Later(@, TIMEOUT_CGI)]
               ELSE cgi[c]]
  /\ UNCHANGED <<running, phase, batch, net>>

Sigint ==
  /\ running /\ running' = FALSE
  /\ UNCHANGED <<phase, batch, conn, net, cgi>>

Peer(c) ==
  Connect(c) \/ PeerSends(c) \/ PeerReads(c) \/ PeerShutsDown(c) \/ PeerResets(c)
Child(c) == ChildWrites(c) \/ ChildClosesOutput(c) \/ ChildExits(c)

Environment == Tick \/ Sigint \/ \E c \in Clients : Peer(c) \/ Child(c)

Next == Loop \/ Environment

Spec == Init /\ [][Next]_vars

\* The kernel schedules the server process; peers, children and the user promise
\* nothing.  The properties about timeouts assume TimePasses as well.
FairSpec == Spec /\ WF_vars(Loop)
TimePasses == WF_vars(Tick)

-----------------------------------------------------------------------------
(* Safety                                                                  *)

\* Every variable keeps its type; one conjunct per object of the loop.
TypeOK ==
  /\ running \in BOOLEAN
  /\ phase \in {"wait", "process", "exit", "stopped", "dead"}
  /\ batch \in [listen : BOOLEAN, recv : SUBSET Clients, send : SUBSET Clients,
                pipe : SUBSET Clients]
  /\ conn \in [Clients -> Connection]
  /\ net \in [Clients -> Stream]
  /\ cgi \in [Clients -> Script]

\* The epoll mask of a socket, the state of its client and whether a CGI pipe
\* is watched are changed in different places (setPollingMode, setClientState,
\* start/stopReadingPipe) and agree whenever control is back in the loop.
ModeMatches(r) ==
  /\ r.fromPipe <=> r.mode = "ONLY_ERROR"
  /\ r.state = "FILLING" <=> r.mode = "ONLY_ERROR"
  /\ r.state = "HAS_FILLED" <=> r.mode = "WRITING"
  /\ r.state = "CONNECTED" <=> r.mode = "READING"
  /\ r.state = "CONNECTED" => r.parsing # "DONE" /\ ~r.timedOut
  /\ r.state = "FILLING" => r.parsing = "DONE" /\ ~r.timedOut
  /\ r.state = "HAS_FILLED" => HasStartedRequest(r)
PollingModeMatchesState == \A c \in Open : ModeMatches(conn[c])

\* processEvents() calls through the pointer in each event: no event of the
\* batch may name a client that an earlier event of the batch has deleted.
NoDanglingEvent == batch.recv \cup batch.send \cup batch.pipe \subseteq Open

\* Only the script whose pipe is being read is alive: stopReadingPipe() kills
\* the child whether it is stopped by end of file or by the CGI timeout.
NoStrayScript ==
  \A c \in Open : Alive(cgi[c]) => conn[c].fromPipe

\* A request is executed once (an upload is not written twice), although
\* receiveAndParseData() calls fillResponse() whenever a finished request gets
\* more bytes: only a reset by the peer reports them before the answer is sent.
FilledOnce ==
  \A c \in Open : conn[c].fills > 1 => HungUp(net[c])

\* What the events of a client still mean when their turn comes: the socket is
\* readable or hung up, the pipe has output or is at its end.  Handling one of
\* them may change that for the other only once the peer has hung up.
EventIsSound(c) ==
  /\ c \in batch.recv => HungUp(net[c]) \/ SocketReadable(c)
  /\ c \in batch.pipe => HungUp(net[c]) \/ PipeReadable(c)
  /\ c \in batch.recv /\ c \in batch.pipe => HungUp(net[c]) /\ PipeReadable(c)
  /\ c \in batch.send => c \notin batch.recv /\ c \notin batch.pipe
EventsAreSound == \A c \in Clients : EventIsSound(c)

\* The inductive invariant the proofs use (without storage failures).
ConnectionInv(c) ==
  /\ ~conn[c].open => conn[c] = NoConnection
  /\ conn[c].open =>
       /\ ModeMatches(conn[c])
       /\ Alive(cgi[c]) => conn[c].fromPipe
       /\ conn[c].fills > 1 => HungUp(net[c])
       /\ conn[c].state = "CONNECTED" => conn[c].fills = 0
       /\ net[c].peer # "none"
IInv ==
  /\ TypeOK
  /\ \A c \in Clients : ConnectionInv(c)
  /\ NoDanglingEvent
  /\ EventsAreSound
  /\ phase \in {"wait", "exit", "stopped"} => batch = NoEvents

\* After a timeout a connection only ever sends its answer or closes.
TimedOutIsFinal ==
  [][\A c \in Clients :
       conn[c].timedOut /\ conn'[c].open => conn'[c].timedOut
                                            /\ conn'[c].state = "HAS_FILLED"]_vars

\* While the peer is there the loop closes its connection only with the answer
\* sent or while handling bytes of its request, never because a read found
\* nothing: EAGAIN is fatal in readRequest() and in readCGIChunk().
LivePeerIsKept ==
  [][\A c \in Clients :
       /\ conn[c].open /\ ~conn'[c].open
       /\ ~HungUp(net[c]) /\ phase = "process"
       => \/ conn[c].state = "HAS_FILLED"
          \/ conn[c].state = "CONNECTED"
             /\ (net[c].inbox > 0 \/ net[c].peer = "fin")]_vars

-----------------------------------------------------------------------------
(* The abstract specification                                              *)

Stage(c) ==
  IF ~conn[c].open THEN "free"
  ELSE IF conn[c].fromPipe THEN "executing"
  ELSE IF conn[c].state = "HAS_FILLED" THEN "answering"
  ELSE "receiving"

Http == INSTANCE HttpConnection WITH
  Conns   <- Clients,
  stage   <- [c \in Clients |-> Stage(c)],
  expired <- [c \in Clients |-> conn[c].timedOut],
  hungUp  <- [c \in Clients |-> HungUp(net[c])],
  serving <- phase \in {"wait", "process"}

\* The loop implements what HttpConnection promises each connection.
ImplementsHttpConnection == Http!Spec

-----------------------------------------------------------------------------
(* Liveness, under FairSpec                                                *)

\* A pipe is not read for ever: the script ends or the CGI timeout kills it.
CgiEventuallyStops ==
  TimePasses => \A c \in Clients : conn[c].fromPipe ~> ~conn[c].fromPipe

\* A peer that resets is noticed in every polling mode and its connection
\* removed without waiting for a timeout, even while its script runs in silence.
\* Left out are a connection that has timed out and one whose script keeps
\* writing: the CGI timeout ends that.
HangUpIsCleanedUp ==
  \A c \in Clients :
    conn[c].open /\ HungUp(net[c])
      ~> \/ ~conn[c].open \/ conn[c].timedOut
         \/ cgi[c].out > 0

\* A request that stops arriving is answered (408) or its connection closed.
StalledRequestIsAnswered ==
  TimePasses => \A c \in Clients :
    conn[c].open /\ conn[c].parsing = "PARTIAL" /\ net[c].inbox = 0
      ~> \/ ~conn[c].open \/ net[c].inbox > 0
         \/ conn[c].state # "CONNECTED"

\* SIGINT ends the loop, whatever the connections are doing.
SigintStops == ~running ~> phase = "stopped"

-----------------------------------------------------------------------------
(* What comments of the code say and the code does not do                  *)

\* "if a soket hangs up, close it, it has ended its purpose"
\* (ServerSocket.cpp:175): no exception is made for a connection that has
\* timed out.
EveryHangUpIsCleanedUp ==
  TimePasses => \A c \in Clients : conn[c].open /\ HungUp(net[c]) ~> ~conn[c].open

\* CLIENT_HAS_SENT, "Response fully sent" (ClientSocket.hpp:21): a response
\* that is sent in several calls reaches the peer once.
ResponseIsSentOnce == \A c \in Clients : net[c].wire # "garbled"

\* "catch system error such as alloc, read, or write fail, and remove faulty
\* sockets" (ServerSocket.cpp:181): a failed send ends its connection only.
SendFailureIsContained == phase # "dead"
=============================================================================
