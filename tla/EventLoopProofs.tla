--------------------------- MODULE EventLoopProofs ---------------------------
(***************************************************************************)
(* Theorems about EventLoop, for any set of clients, any time limits and   *)
(* any bounds.  TypeOK is inductive by itself; everything else follows     *)
(* from IInv, whose heart is EventsAreSound: what the queued events of a   *)
(* client still mean after other events of the same batch were handled.    *)
(* The action properties and the refinement of HttpConnection come last.   *)
(***************************************************************************)
EXTENDS EventLoop, TLAPS

-----------------------------------------------------------------------------
(* Type correctness                                                        *)

\* What each member function makes of a connection is a connection.
LEMMA UpdatesAreConnections ==
  \A r \in Connection :
    /\ \A m \in PollingModes : SetPollingMode(r, m) \in Connection
    /\ \A s \in ClientStates : SetClientState(r, s) \in Connection
    /\ StartReadingPipe(r) \in Connection
    /\ StopReadingPipe(r) \in Connection
    /\ CountFill(r) \in Connection
    /\ ResetContent(r) \in Connection
<1> SUFFICES ASSUME NEW r \in Connection
             PROVE  /\ \A m \in PollingModes : SetPollingMode(r, m) \in Connection
                    /\ \A s \in ClientStates : SetClientState(r, s) \in Connection
                    /\ StartReadingPipe(r) \in Connection
                    /\ StopReadingPipe(r) \in Connection
                    /\ CountFill(r) \in Connection
                    /\ ResetContent(r) \in Connection
  OBVIOUS
<1>1. 0 \in Clock(TIMEOUT_CONNECTION) /\ 0 \in 0 .. 2
  BY TimeoutsAssumption DEF Clock
<1>2. \A m \in PollingModes : SetPollingMode(r, m) \in Connection
  BY DEF SetPollingMode, Connection
<1>3. \A s \in ClientStates : SetClientState(r, s) \in Connection
  BY <1>1 DEF SetClientState, Connection
<1>4. StartReadingPipe(r) \in Connection
  BY DEF StartReadingPipe, SetPollingMode, Connection, PollingModes
<1>5. StopReadingPipe(r) \in Connection
  BY DEF StopReadingPipe, SetPollingMode, Connection, PollingModes
<1>6. CountFill(r) \in Connection
  <2>1. r.fills \in 0 .. 2
    BY DEF Connection
  <2>2. (IF r.fills < 2 THEN r.fills + 1 ELSE r.fills) \in 0 .. 2
    BY <2>1
  <2> QED
    BY <2>2 DEF CountFill, Connection
<1>7. ResetContent(r) \in Connection
  BY <1>1 DEF ResetContent, Connection, ClientStates, ParsingStates
<1> QED
  BY <1>2, <1>3, <1>4, <1>5, <1>6, <1>7

LEMMA HandlersKeepConnections ==
  \A r \in Connection :
    /\ FillAtOnce(r) \in Connection
    /\ FillFromScript(r) \in Connection
    /\ TimeoutRequest(r) \in Connection
    /\ TimeoutCgi(r) \in Connection
    /\ \A p \in Parsed(r) : p \in Connection
<1> SUFFICES ASSUME NEW r \in Connection
             PROVE  /\ FillAtOnce(r) \in Connection
                    /\ FillFromScript(r) \in Connection
                    /\ TimeoutRequest(r) \in Connection
                    /\ TimeoutCgi(r) \in Connection
                    /\ \A p \in Parsed(r) : p \in Connection
  OBVIOUS
<1> USE UpdatesAreConnections
<1>1. /\ "HAS_FILLED" \in ClientStates /\ "FILLING" \in ClientStates
      /\ "HAS_PARSED" \in ClientStates /\ "WRITING" \in PollingModes
  BY DEF ClientStates, PollingModes
<1>2. FillAtOnce(r) \in Connection
  BY <1>1 DEF FillAtOnce
<1>3. FillFromScript(r) \in Connection
  BY <1>1 DEF FillFromScript
<1>4. \A x \in Connection :
        [x EXCEPT !.timedOut = TRUE, !.keepAlive = FALSE] \in Connection
  BY DEF Connection
<1>5. TimeoutRequest(r) \in Connection
  BY <1>1, <1>4 DEF TimeoutRequest
<1>6. TimeoutCgi(r) \in Connection
  BY <1>1, <1>4 DEF TimeoutCgi
<1>7. ASSUME NEW p \in Parsed(r) PROVE p \in Connection
  <2>1. [r EXCEPT !.idle = 0, !.parsing = "PARTIAL"] \in Connection
    <3>1. 0 \in Clock(TIMEOUT_CONNECTION) /\ "PARTIAL" \in ParsingStates
      BY TimeoutsAssumption DEF Clock, ParsingStates
    <3> QED
      BY <3>1 DEF Connection
  <2>2. \A k \in BOOLEAN : [r EXCEPT !.parsing = "DONE", !.keepAlive = k] \in Connection
    BY DEF Connection, ParsingStates
  <2> QED
    BY <1>1, <2>1, <2>2 DEF Parsed
<1> QED
  BY <1>2, <1>3, <1>5, <1>6, <1>7

LEMMA EmptySlots ==
  /\ NoConnection \in Connection
  /\ [NoConnection EXCEPT !.open = TRUE] \in Connection
  /\ NoStream \in Stream
  /\ NoScript \in Script
  /\ [NoScript EXCEPT !.child = "running"] \in Script
  /\ \A g \in Script : [g EXCEPT !.out = 0, !.age = 0] \in Script
<1>1. 0 \in Clock(TIMEOUT_CONNECTION) /\ 0 \in Clock(TIMEOUT_CGI) /\ 0 \in 0 .. 2
  BY TimeoutsAssumption DEF Clock
<1>2. 0 \in 0 .. MaxInbox /\ 0 \in 0 .. MaxOutput
  BY BoundsAssumption
<1>3. NoConnection \in Connection
  BY <1>1 DEF NoConnection, Connection, ClientStates, ParsingStates, PollingModes
<1>4. [NoConnection EXCEPT !.open = TRUE] \in Connection
  BY <1>3 DEF Connection
<1>5. NoStream \in Stream
  BY <1>2 DEF NoStream, Stream, Peers
<1>6. NoScript \in Script
  BY <1>1, <1>2 DEF NoScript, Script, Children
<1>7. [NoScript EXCEPT !.child = "running"] \in Script
  BY <1>6 DEF Script, Children
<1>8. \A g \in Script : [g EXCEPT !.out = 0, !.age = 0] \in Script
  BY <1>1, <1>2 DEF Script
<1> QED
  BY <1>3, <1>4, <1>5, <1>6, <1>7, <1>8

\* A saturating clock stays within its range.
LEMMA ClocksSaturate ==
  ASSUME NEW limit \in Nat, NEW t \in Clock(limit)
  PROVE  Later(t, limit) \in Clock(limit)
BY DEF Clock, Later

\* The handlers of one client keep the three tables typed.
LEMMA ReceiveKeepsTypes ==
  ASSUME TypeOK, NEW c \in Clients, ReceiveAndParseData(c)
  PROVE  /\ conn' \in [Clients -> Connection]
         /\ net' \in [Clients -> Stream]
         /\ cgi' \in [Clients -> Script]
<1> USE DEF TypeOK
<1>1. conn[c] \in Connection /\ net[c] \in Stream /\ cgi[c] \in Script
  OBVIOUS
<1>2. ASSUME RemoveConnection(c)
      PROVE  /\ conn' \in [Clients -> Connection]
             /\ net' \in [Clients -> Stream]
             /\ cgi' \in [Clients -> Script]
  BY <1>1, <1>2, EmptySlots DEF RemoveConnection
<1>3. CASE conn[c].timedOut /\ UNCHANGED <<conn, net, cgi>>
  BY <1>3
<1>4. CASE ReadCGIChunk(c)
  <2>1. CASE cgi[c].out > 0 /\ cgi' = [cgi EXCEPT ![c].out = @ - 1]
             /\ UNCHANGED <<conn, net>>
    <3>1. cgi[c].out - 1 \in 0 .. MaxOutput
      BY <1>1, <2>1, BoundsAssumption DEF Script
    <3>2. [cgi[c] EXCEPT !.out = @ - 1] \in Script
      BY <1>1, <3>1 DEF Script
    <3> QED
      BY <2>1, <3>2
  <2>2. CASE /\ conn' = [conn EXCEPT ![c] = SetClientState(StopReadingPipe(@), "HAS_FILLED")]
             /\ cgi' = [cgi EXCEPT ![c] = KillScript(@)]
             /\ UNCHANGED net
    <3>1. SetClientState(StopReadingPipe(conn[c]), "HAS_FILLED") \in Connection
      BY <1>1, UpdatesAreConnections DEF ClientStates
    <3> QED
      BY <2>2, <3>1, EmptySlots DEF KillScript
  <2> QED
    BY <1>2, <1>4, <2>1, <2>2 DEF ReadCGIChunk
<1>5. CASE ReadRequest(c)
  <2>1. ASSUME NEW n \in 1 .. net[c].inbox, NEW r \in Parsed(conn[c]),
               net' = [net EXCEPT ![c].inbox = @ - n],
               \/ conn' = [conn EXCEPT ![c] = r] /\ UNCHANGED cgi
               \/ conn' = [conn EXCEPT ![c] = FillAtOnce(r)] /\ UNCHANGED cgi
               \/ /\ conn' = [conn EXCEPT ![c] = FillFromScript(r)]
                  /\ cgi' = [cgi EXCEPT ![c] = [NoScript EXCEPT !.child = "running"]]
        PROVE  /\ conn' \in [Clients -> Connection]
               /\ net' \in [Clients -> Stream]
               /\ cgi' \in [Clients -> Script]
    <3>1. r \in Connection /\ FillAtOnce(r) \in Connection /\ FillFromScript(r) \in Connection
      BY <1>1, HandlersKeepConnections
    <3>2. net[c].inbox - n \in 0 .. MaxInbox
      BY <1>1, BoundsAssumption DEF Stream
    <3>3. [net[c] EXCEPT !.inbox = @ - n] \in Stream
      BY <1>1, <3>2 DEF Stream
    <3>4. net' \in [Clients -> Stream]
      BY <2>1, <3>3
    <3> QED
      BY <2>1, <3>1, <3>4, EmptySlots
  <2> QED
    BY <1>2, <1>5, <2>1 DEF ReadRequest
<1> QED
  BY <1>3, <1>4, <1>5 DEF ReceiveAndParseData

LEMMA SendKeepsTypes ==
  ASSUME TypeOK, NEW c \in Clients, SendDataIfComplete(c)
  PROVE  /\ conn' \in [Clients -> Connection]
         /\ net' \in [Clients -> Stream]
         /\ cgi' \in [Clients -> Script]
         /\ phase' \in {phase, "dead"}
<1> USE DEF TypeOK
<1>1. conn[c] \in Connection /\ net[c] \in Stream /\ cgi[c] \in Script
  OBVIOUS
<1>2. \A r \in Connection : [r EXCEPT !.idle = 0] \in Connection
  BY TimeoutsAssumption DEF Connection, Clock
<1>3. \A w \in {"whole", "prefix", "garbled"}, b \in BOOLEAN :
        /\ [net[c] EXCEPT !.wire = w] \in Stream
        /\ [net[c] EXCEPT !.wire = w, !.room = b] \in Stream
  BY <1>1 DEF Stream
<1>4. CASE SendResponse(c) /\ UNCHANGED phase
  <2>1. CASE /\ conn' = [conn EXCEPT ![c] = SetPollingMode(
                                       [ResetContent(@) EXCEPT !.idle = 0], "READING")]
             /\ net' = [net EXCEPT ![c].wire = IF @ = "whole" THEN @ ELSE "garbled"]
             /\ UNCHANGED cgi
    <3>1. SetPollingMode([ResetContent(conn[c]) EXCEPT !.idle = 0], "READING") \in Connection
      BY <1>1, <1>2, UpdatesAreConnections DEF PollingModes
    <3> QED
      BY <1>3, <1>4, <2>1, <3>1
  <2>2. CASE RemoveConnection(c)
    BY <1>1, <1>4, <2>2, EmptySlots DEF RemoveConnection
  <2>3. CASE /\ net' = [net EXCEPT ![c].wire = SentMore(@), ![c].room = FALSE]
             /\ conn' = [conn EXCEPT ![c].idle = 0]
             /\ UNCHANGED cgi
    <3>1. SentMore(net[c].wire) \in {"whole", "prefix", "garbled"}
      BY DEF SentMore
    <3> QED
      BY <1>1, <1>2, <1>3, <1>4, <2>3, <3>1
  <2> QED
    BY <1>4, <2>1, <2>2, <2>3 DEF SendResponse
<1>5. CASE /\ conn' = [conn EXCEPT ![c].idle = 0]
           /\ UNCHANGED <<net, cgi, phase>>
  BY <1>1, <1>2, <1>5
<1>6. CASE phase' = "dead" /\ UNCHANGED <<conn, net, cgi>>
  BY <1>6
<1> QED
  BY <1>4, <1>5, <1>6 DEF SendDataIfComplete

\* TypeOK is preserved by every action.
LEMMA TypeOKStep == TypeOK /\ [Next]_vars => TypeOK'
<1> SUFFICES ASSUME TypeOK, [Next]_vars PROVE TypeOK'
  OBVIOUS
<1> USE DEF TypeOK
<1>1. CASE UNCHANGED vars
  BY <1>1 DEF vars
<1>2. CASE WaitForEvents
  <2>1. ReadyEvents \in [listen : BOOLEAN, recv : SUBSET Clients,
                         send : SUBSET Clients, pipe : SUBSET Clients]
    BY DEF ReadyEvents, Open
  <2> QED
    BY <1>2, <2>1 DEF WaitForEvents
<1>3. CASE WaitInterrupted
  BY <1>3 DEF WaitInterrupted, NoEvents
<1>4. CASE HandleListen
  <2>1. PICK c \in Backlog : AcceptNewConnection(c)
    BY <1>4 DEF HandleListen
  <2>2. c \in Clients
    BY DEF Backlog
  <2>3. conn' \in [Clients -> Connection] /\ cgi' \in [Clients -> Script]
    BY <2>1, <2>2, EmptySlots DEF AcceptNewConnection
  <2> QED
    BY <1>4, <2>1, <2>3 DEF HandleListen, AcceptNewConnection
<1>5. ASSUME NEW c \in Clients, HandleRecv(c) PROVE TypeOK'
  BY <1>5, ReceiveKeepsTypes DEF HandleRecv
<1>6. ASSUME NEW c \in Clients, HandlePipe(c) PROVE TypeOK'
  BY <1>6, ReceiveKeepsTypes DEF HandlePipe
<1>7. ASSUME NEW c \in Clients, HandleSend(c) PROVE TypeOK'
  BY <1>7, SendKeepsTypes DEF HandleSend
<1>8. CASE TimeoutIdleClients
  <2>1. conn' \in [Clients -> Connection]
    BY <1>8, HandlersKeepConnections DEF TimeoutIdleClients
  <2>2. cgi' \in [Clients -> Script]
    BY <1>8, EmptySlots DEF TimeoutIdleClients, KillScript
  <2> QED
    BY <1>8, <2>1, <2>2 DEF TimeoutIdleClients
<1>9. CASE CloseServers
  BY <1>9, EmptySlots DEF CloseServers
<1>10. ASSUME NEW c \in Clients, Peer(c) PROVE TypeOK'
  <2>1. net[c] \in Stream
    OBVIOUS
  <2>2. \A p \in Peers : [net[c] EXCEPT !.peer = p] \in Stream
    BY <2>1 DEF Stream
  <2>3. CASE Connect(c)
    BY <2>2, <2>3 DEF Connect, Peers
  <2>4. CASE PeerSends(c)
    <3>1. net[c].inbox + 1 \in 0 .. MaxInbox
      BY <2>1, <2>4, BoundsAssumption DEF PeerSends, Stream
    <3>2. [net[c] EXCEPT !.inbox = @ + 1] \in Stream
      BY <2>1, <3>1 DEF Stream
    <3> QED
      BY <2>4, <3>2 DEF PeerSends
  <2>5. CASE PeerReads(c)
    <3>1. [net[c] EXCEPT !.room = TRUE] \in Stream
      BY <2>1 DEF Stream
    <3> QED
      BY <2>5, <3>1 DEF PeerReads
  <2>6. CASE PeerShutsDown(c)
    BY <2>2, <2>6 DEF PeerShutsDown, Peers
  <2>7. CASE PeerResets(c)
    BY <2>2, <2>7 DEF PeerResets, Peers
  <2> QED
    BY <1>10, <2>3, <2>4, <2>5, <2>6, <2>7 DEF Peer
<1>11. ASSUME NEW c \in Clients, Child(c) PROVE TypeOK'
  <2>1. cgi[c] \in Script
    OBVIOUS
  <2>2. \A ch \in Children : [cgi[c] EXCEPT !.child = ch] \in Script
    BY <2>1 DEF Script
  <2>3. CASE ChildWrites(c)
    <3>1. cgi[c].out + 1 \in 0 .. MaxOutput
      BY <2>1, <2>3, BoundsAssumption DEF ChildWrites, Script
    <3>2. [cgi[c] EXCEPT !.out = @ + 1] \in Script
      BY <2>1, <3>1 DEF Script
    <3> QED
      BY <2>3, <3>2 DEF ChildWrites
  <2>4. CASE ChildClosesOutput(c)
    BY <2>2, <2>4 DEF ChildClosesOutput, Children
  <2>5. CASE ChildExits(c)
    BY <2>2, <2>5 DEF ChildExits, Children
  <2> QED
    BY <1>11, <2>3, <2>4, <2>5 DEF Child
<1>12. CASE Tick
  <2>1. \A c \in Clients :
          [conn[c] EXCEPT !.idle = Later(@, TIMEOUT_CONNECTION)] \in Connection
    BY ClocksSaturate, TimeoutsAssumption DEF Connection
  <2>2. \A c \in Clients : [cgi[c] EXCEPT !.age = Later(@, TIMEOUT_CGI)] \in Script
    BY ClocksSaturate, TimeoutsAssumption DEF Script
  <2>3. conn' \in [Clients -> Connection] /\ cgi' \in [Clients -> Script]
    BY <1>12, <2>1, <2>2 DEF Tick
  <2> QED
    BY <1>12, <2>3 DEF Tick
<1>13. CASE Sigint
  BY <1>13 DEF Sigint
<1> QED
  BY <1>1, <1>2, <1>3, <1>4, <1>5, <1>6, <1>7, <1>8, <1>9, <1>10, <1>11, <1>12,
     <1>13 DEF Next, Loop, Environment

LEMMA InitTypeOK == Init => TypeOK
<1> SUFFICES ASSUME Init PROVE TypeOK
  OBVIOUS
<1>1. batch \in [listen : BOOLEAN, recv : SUBSET Clients, send : SUBSET Clients,
                 pipe : SUBSET Clients]
  BY DEF Init, NoEvents
<1>2. conn \in [Clients -> Connection] /\ net \in [Clients -> Stream]
      /\ cgi \in [Clients -> Script]
  BY EmptySlots DEF Init
<1> QED
  BY <1>1, <1>2 DEF Init, TypeOK

\* Every reachable state is well typed.
THEOREM TypeCorrect == Spec => []TypeOK
<1> QED
  BY InitTypeOK, TypeOKStep, PTL DEF Spec

-----------------------------------------------------------------------------
(* The inductive invariant                                                 *)

\* The handler of a client leaves every other client as it is.
Others(c) ==
  \A d \in Clients \ {c} :
    conn'[d] = conn[d] /\ net'[d] = net[d] /\ cgi'[d] = cgi[d]

\* How the member functions move a connection, in the terms of ModeMatches.
LEMMA UpdatesMatch ==
  ASSUME NEW r \in Connection
  PROVE  /\ r.parsing = "DONE" /\ ~r.fromPipe => ModeMatches(FillAtOnce(r))
         /\ r.parsing = "DONE" /\ ~r.timedOut => ModeMatches(FillFromScript(r))
         /\ r.fromPipe /\ ModeMatches(r) =>
              /\ ModeMatches(SetClientState(StopReadingPipe(r), "HAS_FILLED"))
              /\ ModeMatches(TimeoutCgi(r))
         /\ HasStartedRequest(r) /\ ~r.fromPipe => ModeMatches(TimeoutRequest(r))
<1> USE DEF ModeMatches, Connection, SetPollingMode, SetClientState, HasStartedRequest
<1>1. r.parsing = "DONE" /\ ~r.fromPipe => ModeMatches(FillAtOnce(r))
  BY DEF FillAtOnce, CountFill
<1>2. r.parsing = "DONE" /\ ~r.timedOut => ModeMatches(FillFromScript(r))
  BY DEF FillFromScript, StartReadingPipe, CountFill
<1>3. r.fromPipe /\ ModeMatches(r) =>
        ModeMatches(SetClientState(StopReadingPipe(r), "HAS_FILLED"))
  BY DEF StopReadingPipe
<1>4. r.fromPipe /\ ModeMatches(r) => ModeMatches(TimeoutCgi(r))
  BY DEF StopReadingPipe, TimeoutCgi
<1>5. HasStartedRequest(r) /\ ~r.fromPipe => ModeMatches(TimeoutRequest(r))
  BY DEF TimeoutRequest
<1> QED
  BY <1>1, <1>2, <1>3, <1>4, <1>5

\* The fields that filling and parsing leave alone, and the count of fills.
LEMMA UpdatesKeepFields ==
  ASSUME NEW r \in Connection
  PROVE  /\ FillAtOnce(r).open = r.open /\ FillFromScript(r).open = r.open
         /\ FillAtOnce(r).state = "HAS_FILLED" /\ FillFromScript(r).state = "FILLING"
         /\ FillFromScript(r).fromPipe
         /\ FillAtOnce(r).fills > 1 => r.fills # 0
         /\ FillFromScript(r).fills > 1 => r.fills # 0
         /\ FillAtOnce(r).fromPipe = r.fromPipe
<1> USE DEF Connection, SetPollingMode, SetClientState, CountFill
<1>1. /\ FillAtOnce(r).open = r.open /\ FillAtOnce(r).state = "HAS_FILLED"
      /\ FillAtOnce(r).fills > 1 => r.fills # 0
      /\ FillAtOnce(r).fromPipe = r.fromPipe
  BY DEF FillAtOnce
<1>2. /\ FillFromScript(r).open = r.open /\ FillFromScript(r).state = "FILLING"
      /\ FillFromScript(r).fills > 1 => r.fills # 0
      /\ FillFromScript(r).fromPipe
  BY DEF FillFromScript, StartReadingPipe
<1> QED
  BY <1>1, <1>2

LEMMA ParsingKeepsFields ==
  ASSUME NEW r \in Connection, NEW p \in Parsed(r)
  PROVE  /\ p.open = r.open /\ p.fromPipe = r.fromPipe /\ p.mode = r.mode
         /\ p.timedOut = r.timedOut /\ p.fills = r.fills
         /\ p.parsing = "PARTIAL" => p.state = r.state
BY DEF Parsed, SetClientState, Connection

\* Receiving for one client: what it keeps, and that a readable pipe is read
\* without losing the connection.
LEMMA ReceiveKeepsInv ==
  ASSUME TypeOK, StorageFails = FALSE, NEW c \in Clients, conn[c].open,
         ConnectionInv(c), HungUp(net[c]) \/ SocketReadable(c) \/ PipeReadable(c),
         ReceiveAndParseData(c)
  PROVE  /\ ConnectionInv(c)'
         /\ Others(c)
         /\ PipeReadable(c) => conn'[c].open
         /\ conn'[c].open => net'[c].peer = net[c].peer
<1> USE DEF TypeOK
<1>1. conn[c] \in Connection /\ net[c] \in Stream /\ cgi[c] \in Script
  OBVIOUS
<1>2. ModeMatches(conn[c]) /\ net[c].peer # "none"
  BY DEF ConnectionInv
<1>3. RemoveConnection(c) => ConnectionInv(c)' /\ Others(c) /\ ~conn'[c].open
  BY DEF RemoveConnection, ConnectionInv, Others, NoConnection
<1>4. CASE conn[c].timedOut /\ UNCHANGED <<conn, net, cgi>>
  BY <1>4 DEF ConnectionInv, Others
<1>5. CASE ~conn[c].timedOut /\ conn[c].fromPipe /\ ReadCGIChunk(c)
  <2>1. CASE cgi[c].out > 0 /\ cgi' = [cgi EXCEPT ![c].out = @ - 1]
             /\ UNCHANGED <<conn, net>>
    <3>1. Alive(cgi[c])' = Alive(cgi[c])
      BY <1>1, <2>1 DEF Alive, Script
    <3> QED
      BY <2>1, <3>1 DEF ConnectionInv, Others
  <2>2. CASE /\ conn' = [conn EXCEPT ![c] = SetClientState(StopReadingPipe(@), "HAS_FILLED")]
             /\ cgi' = [cgi EXCEPT ![c] = KillScript(@)]
             /\ UNCHANGED net
    <3>1. conn'[c] = SetClientState(StopReadingPipe(conn[c]), "HAS_FILLED")
      BY <2>2
    <3>2. ModeMatches(conn[c])'
      BY <1>1, <1>2, <1>5, <3>1, UpdatesMatch
    <3>3. /\ conn'[c].open /\ conn'[c].fills = conn[c].fills
          /\ conn'[c].state = "HAS_FILLED"
      BY <1>1, <3>1 DEF SetClientState, StopReadingPipe, SetPollingMode, Connection
    <3>4. ~Alive(cgi[c])'
      BY <2>2 DEF KillScript, NoScript, Alive
    <3> QED
      BY <1>2, <2>2, <3>2, <3>3, <3>4 DEF ConnectionInv, Others, HungUp
  <2>3. CASE ~Readable(cgi[c]) /\ RemoveConnection(c)
    BY <1>3, <2>3 DEF PipeReadable
  <2> QED
    BY <1>5, <2>1, <2>2, <2>3 DEF ReadCGIChunk
<1>6. CASE ~conn[c].timedOut /\ ~conn[c].fromPipe /\ ReadRequest(c)
  <2>1. ~PipeReadable(c)
    BY <1>6 DEF PipeReadable
  <2>2. conn[c].fills # 0 => HungUp(net[c])
    BY <1>2, <2>1 DEF ConnectionInv, SocketReadable, ModeMatches
  <2>3. ASSUME NEW n \in 1 .. net[c].inbox, NEW r \in Parsed(conn[c]),
               net' = [net EXCEPT ![c].inbox = @ - n]
        PROVE  /\ net'[c].peer = net[c].peer
               /\ r \in Connection /\ r.open
               /\ ~r.fromPipe /\ ~r.timedOut /\ r.fills = conn[c].fills
               /\ r.parsing = "PARTIAL" => r.state = conn[c].state /\ r.mode = conn[c].mode
               /\ \A d \in Clients \ {c} : net'[d] = net[d]
    <3>1. net'[c].peer = net[c].peer /\ \A d \in Clients \ {c} : net'[d] = net[d]
      BY <1>1, <2>3 DEF Stream
    <3>2. r \in Connection
      BY <1>1, HandlersKeepConnections
    <3>3. /\ r.open = conn[c].open /\ r.fromPipe = conn[c].fromPipe /\ r.mode = conn[c].mode
          /\ r.timedOut = conn[c].timedOut /\ r.fills = conn[c].fills
          /\ r.parsing = "PARTIAL" => r.state = conn[c].state
      BY <1>1, ParsingKeepsFields
    <3> QED
      BY <1>1, <1>6, <3>1, <3>2, <3>3 DEF Connection
  <2>4. ASSUME NEW n \in 1 .. net[c].inbox, NEW r \in Parsed(conn[c]),
               net' = [net EXCEPT ![c].inbox = @ - n],
               r.parsing = "PARTIAL", conn' = [conn EXCEPT ![c] = r], UNCHANGED cgi
        PROVE  ConnectionInv(c)' /\ Others(c)
    <3>1. conn'[c] = r
      BY <2>4
    <3>2. ModeMatches(r)
      BY <1>2, <1>6, <2>3, <2>4 DEF ModeMatches, HasStartedRequest
    <3>3. r.open /\ r.fills = conn[c].fills /\ r.state = conn[c].state /\ ~r.fromPipe
          /\ net'[c].peer = net[c].peer /\ \A d \in Clients \ {c} : net'[d] = net[d]
      BY <2>3, <2>4
    <3>4. ConnectionInv(c)'
      BY <1>2, <1>6, <2>4, <3>1, <3>2, <3>3 DEF ConnectionInv, HungUp, Alive
    <3> QED
      BY <2>4, <3>3, <3>4 DEF Others
  <2>5. ASSUME NEW n \in 1 .. net[c].inbox, NEW r \in Parsed(conn[c]),
               net' = [net EXCEPT ![c].inbox = @ - n],
               r.parsing = "DONE", conn' = [conn EXCEPT ![c] = FillAtOnce(r)], UNCHANGED cgi
        PROVE  ConnectionInv(c)' /\ Others(c)
    <3>1. conn'[c] = FillAtOnce(r)
      BY <2>5
    <3>2. /\ ModeMatches(FillAtOnce(r)) /\ FillAtOnce(r).state = "HAS_FILLED"
          /\ FillAtOnce(r).open
      BY <2>3, <2>5, UpdatesMatch, UpdatesKeepFields
    <3>3. FillAtOnce(r).fills > 1 => HungUp(net[c])
      <4>1. FillAtOnce(r).fills > 1 => r.fills # 0
        BY <2>3, <2>5, UpdatesKeepFields
      <4> QED
        BY <2>2, <2>3, <2>5, <4>1
    <3>4. ~Alive(cgi[c])
      BY <1>6 DEF ConnectionInv
    <3> QED
      BY <1>2, <2>3, <2>5, <3>1, <3>2, <3>3, <3>4 DEF ConnectionInv, Others, HungUp
  <2>6. ASSUME NEW n \in 1 .. net[c].inbox, NEW r \in Parsed(conn[c]),
               net' = [net EXCEPT ![c].inbox = @ - n],
               r.parsing = "DONE", conn' = [conn EXCEPT ![c] = FillFromScript(r)],
               cgi' = [cgi EXCEPT ![c] = [NoScript EXCEPT !.child = "running"]]
        PROVE  ConnectionInv(c)' /\ Others(c)
    <3>1. conn'[c] = FillFromScript(r)
      BY <2>6
    <3>2. /\ ModeMatches(FillFromScript(r)) /\ FillFromScript(r).state = "FILLING"
          /\ FillFromScript(r).fromPipe /\ FillFromScript(r).open
      BY <2>3, <2>6, UpdatesMatch, UpdatesKeepFields
    <3>3. FillFromScript(r).fills > 1 => HungUp(net[c])
      <4>1. FillFromScript(r).fills > 1 => r.fills # 0
        BY <2>3, <2>6, UpdatesKeepFields
      <4> QED
        BY <2>2, <2>3, <2>6, <4>1
    <3> QED
      BY <1>2, <2>3, <2>6, <3>1, <3>2, <3>3 DEF ConnectionInv, Others, HungUp
  <2>7. CASE RemoveConnection(c)
    BY <1>3, <2>1, <2>7
  <2>8. CASE \E n \in 1 .. net[c].inbox, r \in Parsed(conn[c]) :
               /\ net' = [net EXCEPT ![c].inbox = @ - n]
               /\ \/ /\ r.parsing = "PARTIAL"
                     /\ conn' = [conn EXCEPT ![c] = r]
                     /\ UNCHANGED cgi
                  \/ /\ r.parsing = "DONE"
                     /\ conn' = [conn EXCEPT ![c] = FillAtOnce(r)]
                     /\ UNCHANGED cgi
                  \/ /\ r.parsing = "DONE"
                     /\ conn' = [conn EXCEPT ![c] = FillFromScript(r)]
                     /\ cgi' = [cgi EXCEPT ![c] = [NoScript EXCEPT !.child = "running"]]
    BY <2>1, <2>3, <2>4, <2>5, <2>6, <2>8
  <2> QED
    BY <1>6, <2>7, <2>8 DEF ReadRequest
<1> QED
  BY <1>4, <1>5, <1>6 DEF ReceiveAndParseData

LEMMA SendKeepsInv ==
  ASSUME TypeOK, NEW c \in Clients, conn[c].open, ConnectionInv(c), SendDataIfComplete(c)
  PROVE  ConnectionInv(c)' /\ Others(c)
<1> USE DEF TypeOK
<1>1. conn[c] \in Connection /\ net[c] \in Stream
  OBVIOUS
<1>2. ModeMatches(conn[c]) /\ net[c].peer # "none"
  BY DEF ConnectionInv
<1>3. CASE RemoveConnection(c)
  BY <1>3 DEF RemoveConnection, ConnectionInv, Others, NoConnection
<1>4. CASE /\ HasFilledResponse(conn[c]) /\ UNCHANGED cgi
           /\ conn' = [conn EXCEPT ![c] = SetPollingMode(
                                     [ResetContent(@) EXCEPT !.idle = 0], "READING")]
           /\ net' = [net EXCEPT ![c].wire = IF @ = "whole" THEN @ ELSE "garbled"]
           /\ ~conn[c].timedOut
  <2>1. conn'[c] = SetPollingMode([ResetContent(conn[c]) EXCEPT !.idle = 0], "READING")
    BY <1>4
  <2>2. ~conn[c].fromPipe /\ ~Alive(cgi[c])
    BY <1>2, <1>4 DEF ModeMatches, HasFilledResponse, ConnectionInv
  <2>3. /\ ModeMatches(conn'[c]) /\ conn'[c].fills = 0 /\ conn'[c].open
    BY <1>1, <1>4, <2>1, <2>2
       DEF ModeMatches, SetPollingMode, ResetContent, Connection, HasStartedRequest
  <2>4. net'[c].peer # "none" /\ \A d \in Clients \ {c} : net'[d] = net[d]
    BY <1>1, <1>2, <1>4 DEF Stream
  <2> QED
    BY <1>4, <2>2, <2>3, <2>4 DEF ConnectionInv, Others
<1>5. CASE /\ conn' = [conn EXCEPT ![c].idle = 0] /\ UNCHANGED cgi
           /\ \/ UNCHANGED net
              \/ net' = [net EXCEPT ![c].wire = SentMore(@), ![c].room = FALSE]
  <2>1. conn'[c] = [conn[c] EXCEPT !.idle = 0]
    BY <1>5
  <2>2. /\ ModeMatches(conn'[c]) /\ conn'[c].fills = conn[c].fills
        /\ conn'[c].state = conn[c].state /\ conn'[c].fromPipe = conn[c].fromPipe
    BY <1>1, <1>2, <2>1 DEF ModeMatches, Connection, HasStartedRequest
  <2>3. net'[c].peer = net[c].peer /\ \A d \in Clients \ {c} : net'[d] = net[d]
    BY <1>1, <1>5 DEF Stream
  <2>4. ConnectionInv(c)'
    BY <1>5, <2>2, <2>3 DEF ConnectionInv, HungUp
  <2> QED
    BY <1>5, <2>3, <2>4 DEF Others
<1>6. CASE UNCHANGED <<conn, net, cgi>>
  BY <1>6 DEF ConnectionInv, Others
<1> QED
  BY <1>3, <1>4, <1>5, <1>6 DEF SendDataIfComplete, SendResponse

\* A step that handles one event of c only has to account for c.
LEMMA OneClientStep ==
  ASSUME IInv, NEW c \in Clients, Others(c), ConnectionInv(c)', EventIsSound(c)',
         phase = "process", phase' \in {phase, "dead"},
         batch'.recv \subseteq batch.recv, batch'.send \subseteq batch.send,
         batch'.pipe \subseteq batch.pipe,
         conn'[c].open \/ c \notin batch'.recv \cup batch'.send \cup batch'.pipe,
         TypeOK'
  PROVE  IInv'
<1>1. ASSUME NEW d \in Clients PROVE ConnectionInv(d)' /\ EventIsSound(d)'
  <2>1. CASE d = c
    BY <2>1
  <2>2. CASE d # c
    <3>1. conn'[d] = conn[d] /\ net'[d] = net[d] /\ cgi'[d] = cgi[d]
      BY <2>2 DEF Others
    <3> QED
      BY <3>1 DEF IInv, ConnectionInv, EventsAreSound, EventIsSound, HungUp,
                  SocketReadable, PipeReadable
  <2> QED
    BY <2>1, <2>2
<1>2. NoDanglingEvent'
  BY DEF IInv, NoDanglingEvent, Open, Others
<1> QED
  BY <1>1, <1>2 DEF IInv, EventsAreSound

\* With no storage failure IInv is preserved by every action.
LEMMA IInvStep ==
  ASSUME StorageFails = FALSE, IInv, [Next]_vars
  PROVE  IInv'
<1>1. TypeOK /\ TypeOK'
  BY TypeOKStep DEF IInv
<1>2. \A c \in Clients : conn[c] \in Connection /\ net[c] \in Stream /\ cgi[c] \in Script
  BY <1>1 DEF TypeOK
<1>3. \A c \in Clients : ConnectionInv(c) /\ EventIsSound(c)
  BY DEF IInv, EventsAreSound
<1>4. CASE UNCHANGED vars
  BY <1>1, <1>3, <1>4 DEF vars, IInv, ConnectionInv, NoDanglingEvent, Open, EventsAreSound,
     EventIsSound, HungUp, SocketReadable, PipeReadable
<1>5. CASE WaitForEvents
  <2>1. batch' = ReadyEvents /\ UNCHANGED <<conn, net, cgi>> /\ phase' = "process"
    BY <1>5 DEF WaitForEvents
  <2>2. NoDanglingEvent'
    BY <2>1 DEF NoDanglingEvent, ReadyEvents, Open
  <2>3. ASSUME NEW c \in Clients PROVE ConnectionInv(c)' /\ EventIsSound(c)'
    <3>1. ConnectionInv(c)'
      BY <1>3, <2>1 DEF ConnectionInv
    <3>2. /\ c \in batch'.recv => conn[c].open /\ (HungUp(net[c]) \/ SocketReadable(c))
          /\ c \in batch'.pipe => conn[c].open /\ PipeReadable(c)
          /\ c \in batch'.send => conn[c].mode = "WRITING" /\ ~HungUp(net[c])
      BY <2>1 DEF ReadyEvents, Open
    <3>3. conn[c].open => (conn[c].fromPipe <=> conn[c].mode = "ONLY_ERROR")
      BY <1>3 DEF ConnectionInv, ModeMatches
    <3>4. EventIsSound(c)'
      BY <2>1, <3>2, <3>3 DEF EventIsSound, SocketReadable, PipeReadable
    <3> QED
      BY <3>1, <3>4
  <2> QED
    BY <1>1, <2>1, <2>2, <2>3 DEF IInv, EventsAreSound
<1>6. CASE WaitInterrupted
  BY <1>1, <1>3, <1>6 DEF WaitInterrupted, NoEvents, IInv, ConnectionInv, NoDanglingEvent,
     EventsAreSound, EventIsSound
<1>7. CASE HandleListen
  <2>1. PICK c \in Backlog : AcceptNewConnection(c)
    BY <1>7 DEF HandleListen
  <2>2. c \in Clients /\ ~conn[c].open /\ net[c].peer # "none"
    BY DEF Backlog
  <2>3. c \notin batch.recv \cup batch.send \cup batch.pipe
    BY <2>2 DEF IInv, NoDanglingEvent, Open
  <2>4. /\ batch'.recv = batch.recv /\ batch'.send = batch.send /\ batch'.pipe = batch.pipe
        /\ phase = "process" /\ phase' = "process"
    BY <1>1, <1>7 DEF HandleListen, TypeOK
  <2>5. ConnectionInv(c)' /\ Others(c)
    BY <1>1, <2>1, <2>2 DEF TypeOK, AcceptNewConnection, ConnectionInv, Others, NoConnection,
       NoScript, Alive, ModeMatches
  <2>6. EventIsSound(c)'
    BY <2>3, <2>4 DEF EventIsSound
  <2> QED
    BY <1>1, <2>2, <2>3, <2>4, <2>5, <2>6, OneClientStep
<1>8. ASSUME NEW c \in Clients, HandleRecv(c) PROVE IInv'
  <2>1. /\ phase = "process" /\ phase' = "process" /\ ReceiveAndParseData(c)
        /\ batch'.recv = batch.recv \ {c} /\ batch'.send = batch.send
        /\ batch'.pipe = batch.pipe /\ c \in batch.recv
    BY <1>1, <1>8 DEF HandleRecv, TypeOK
  <2>2. conn[c].open /\ c \notin batch.send
    BY <1>3, <2>1 DEF IInv, NoDanglingEvent, Open, EventIsSound
  <2>3. HungUp(net[c]) \/ SocketReadable(c)
    BY <1>3, <2>1 DEF EventIsSound
  <2>4. c \in batch.pipe => HungUp(net[c]) /\ PipeReadable(c)
    BY <1>3, <2>1 DEF EventIsSound
  <2>5. /\ ConnectionInv(c)' /\ Others(c)
        /\ PipeReadable(c) => conn'[c].open
        /\ conn'[c].open => net'[c].peer = net[c].peer
    BY <1>1, <1>3, <2>1, <2>2, <2>3, ReceiveKeepsInv
  <2>6. c \in batch.pipe => conn'[c].open /\ HungUp(net[c])'
    BY <2>4, <2>5 DEF HungUp
  <2>7. EventIsSound(c)'
    BY <2>1, <2>2, <2>6 DEF EventIsSound
  <2>8. conn'[c].open \/ c \notin batch'.recv \cup batch'.send \cup batch'.pipe
    BY <2>1, <2>2, <2>6
  <2> QED
    BY <1>1, <2>1, <2>5, <2>7, <2>8, OneClientStep
<1>9. ASSUME NEW c \in Clients, HandlePipe(c) PROVE IInv'
  <2>1. /\ phase = "process" /\ phase' = "process" /\ ReceiveAndParseData(c)
        /\ batch'.pipe = batch.pipe \ {c} /\ batch'.send = batch.send
        /\ batch'.recv = batch.recv /\ c \in batch.pipe
    BY <1>1, <1>9 DEF HandlePipe, TypeOK
  <2>2. conn[c].open /\ c \notin batch.send
    BY <1>3, <2>1 DEF IInv, NoDanglingEvent, Open, EventIsSound
  <2>3. HungUp(net[c]) \/ PipeReadable(c)
    BY <1>3, <2>1 DEF EventIsSound
  <2>4. c \in batch.recv => HungUp(net[c]) /\ PipeReadable(c)
    BY <1>3, <2>1 DEF EventIsSound
  <2>5. /\ ConnectionInv(c)' /\ Others(c)
        /\ PipeReadable(c) => conn'[c].open
        /\ conn'[c].open => net'[c].peer = net[c].peer
    BY <1>1, <1>3, <2>1, <2>2, <2>3, ReceiveKeepsInv
  <2>6. c \in batch.recv => conn'[c].open /\ HungUp(net[c])'
    BY <2>4, <2>5 DEF HungUp
  <2>7. EventIsSound(c)'
    BY <2>1, <2>2, <2>6 DEF EventIsSound
  <2>8. conn'[c].open \/ c \notin batch'.recv \cup batch'.send \cup batch'.pipe
    BY <2>1, <2>2, <2>6
  <2> QED
    BY <1>1, <2>1, <2>5, <2>7, <2>8, OneClientStep
<1>10. ASSUME NEW c \in Clients, HandleSend(c) PROVE IInv'
  <2>1. /\ phase = "process" /\ SendDataIfComplete(c)
        /\ batch'.send = batch.send \ {c} /\ batch'.recv = batch.recv
        /\ batch'.pipe = batch.pipe /\ c \in batch.send
    BY <1>1, <1>10 DEF HandleSend, TypeOK
  <2>2. conn[c].open /\ c \notin batch.recv /\ c \notin batch.pipe
    BY <1>3, <2>1 DEF IInv, NoDanglingEvent, Open, EventIsSound
  <2>3. ConnectionInv(c)' /\ Others(c)
    BY <1>1, <1>3, <2>1, <2>2, SendKeepsInv
  <2>4. phase' \in {phase, "dead"}
    BY <2>1, <1>1, SendKeepsTypes
  <2>5. EventIsSound(c)'
    BY <2>1, <2>2 DEF EventIsSound
  <2> QED
    BY <1>1, <2>1, <2>2, <2>3, <2>4, <2>5, OneClientStep
<1>11. CASE TimeoutIdleClients
  <2>1. batch' = NoEvents /\ UNCHANGED net
    BY <1>11 DEF TimeoutIdleClients
  <2>2. ASSUME NEW c \in Clients PROVE ConnectionInv(c)'
    <3>1. CASE CgiIsLate(c)
      <4>1. conn'[c] = TimeoutCgi(conn[c]) /\ cgi'[c] = NoScript
        BY <1>11, <3>1 DEF TimeoutIdleClients, KillScript
      <4>2. conn[c].fromPipe /\ conn[c].open
        BY <3>1 DEF CgiIsLate
      <4>3. ModeMatches(conn'[c])
        BY <1>2, <1>3, <4>1, <4>2, UpdatesMatch DEF ConnectionInv
      <4>4. conn'[c].open /\ conn'[c].fills = conn[c].fills /\ conn'[c].state = "HAS_FILLED"
        BY <1>2, <4>1, <4>2 DEF TimeoutCgi, StopReadingPipe, SetPollingMode, SetClientState, Connection
      <4> QED
        BY <1>3, <2>1, <4>1, <4>2, <4>3, <4>4 DEF ConnectionInv, Alive, NoScript
    <3>2. CASE ~CgiIsLate(c) /\ RequestIsLate(c)
      <4>1. conn'[c] = TimeoutRequest(conn[c]) /\ cgi'[c] = cgi[c]
        BY <1>11, <3>2 DEF TimeoutIdleClients
      <4>2. ~conn[c].fromPipe /\ conn[c].open /\ HasStartedRequest(conn[c])
        BY <3>2 DEF RequestIsLate
      <4>3. ModeMatches(conn'[c])
        BY <1>2, <4>1, <4>2, UpdatesMatch
      <4>4. conn'[c].open /\ conn'[c].fills = conn[c].fills /\ conn'[c].state = "HAS_FILLED"
        BY <1>2, <4>1, <4>2 DEF TimeoutRequest, SetPollingMode, SetClientState, Connection
      <4> QED
        BY <1>3, <2>1, <4>1, <4>2, <4>3, <4>4 DEF ConnectionInv
    <3>3. CASE ~CgiIsLate(c) /\ ~RequestIsLate(c)
      <4>1. conn'[c] = conn[c] /\ cgi'[c] = cgi[c]
        BY <1>11, <3>3 DEF TimeoutIdleClients
      <4> QED
        BY <1>3, <2>1, <4>1 DEF ConnectionInv
    <3> QED
      BY <3>1, <3>2, <3>3
  <2> QED
    BY <1>1, <2>1, <2>2 DEF IInv, NoEvents, NoDanglingEvent, EventsAreSound, EventIsSound
<1>12. CASE CloseServers
  <2>1. batch' = NoEvents
    BY <1>12 DEF CloseServers, IInv
  <2>2. \A c \in Clients : ConnectionInv(c)'
    BY <1>12 DEF CloseServers, ConnectionInv, NoConnection
  <2> QED
    BY <1>1, <2>1, <2>2 DEF IInv, NoEvents, NoDanglingEvent, EventsAreSound, EventIsSound
<1>13. ASSUME NEW c \in Clients, Peer(c) PROVE IInv'
  <2>1. /\ UNCHANGED <<running, phase, batch, conn, cgi>>
        /\ \A d \in Clients \ {c} : net'[d] = net[d]
        /\ conn[c].open => net'[c].peer # "none"
        /\ conn[c].open /\ HungUp(net[c]) => HungUp(net'[c])
        /\ net'[c].inbox >= net[c].inbox
        /\ conn[c].open /\ net[c].peer # "open" => net'[c].peer # "open"
    BY <1>1, <1>2, <1>3, <1>13 DEF TypeOK, Peer, Connect, PeerSends, PeerReads, PeerShutsDown,
       PeerResets, HungUp, Stream, ConnectionInv
  <2>2. ASSUME NEW d \in Clients PROVE ConnectionInv(d)' /\ EventIsSound(d)'
    <3>1. CASE d # c
      BY <1>3, <2>1, <3>1 DEF ConnectionInv, EventIsSound, HungUp, SocketReadable, PipeReadable
    <3>2. CASE d = c
      <4>1. ConnectionInv(c)'
        BY <1>3, <2>1 DEF ConnectionInv
      <4>2. conn[c].open \/ c \notin batch.recv \cup batch.send \cup batch.pipe
        BY DEF IInv, NoDanglingEvent, Open
      <4>3. SocketReadable(c) /\ conn[c].open => SocketReadable(c)'
        <5>1. net[c].inbox \in Nat /\ net'[c].inbox \in Nat
          BY <1>1, BoundsAssumption DEF TypeOK, Stream
        <5> QED
          BY <2>1, <5>1 DEF SocketReadable
      <4>4. EventIsSound(c)'
        BY <1>3, <2>1, <4>2, <4>3 DEF EventIsSound, PipeReadable
      <4> QED
        BY <3>2, <4>1, <4>4
    <3> QED
      BY <3>1, <3>2
  <2> QED
    BY <1>1, <2>1, <2>2 DEF IInv, EventsAreSound, NoDanglingEvent, Open
<1>14. ASSUME NEW c \in Clients, Child(c) PROVE IInv'
  <2>1. /\ UNCHANGED <<running, phase, batch, conn, net>>
        /\ \A d \in Clients \ {c} : cgi'[d] = cgi[d]
        /\ Alive(cgi[c])' => Alive(cgi[c])
        /\ Readable(cgi[c]) => Readable(cgi[c])'
    BY <1>1, <1>2, <1>14 DEF TypeOK, Child, ChildWrites, ChildClosesOutput, ChildExits, Alive,
       Readable, AtEof, Script
  <2>2. ASSUME NEW d \in Clients PROVE ConnectionInv(d)' /\ EventIsSound(d)'
    BY <1>3, <2>1 DEF ConnectionInv, EventIsSound, SocketReadable, PipeReadable
  <2> QED
    BY <1>1, <2>1, <2>2 DEF IInv, EventsAreSound, NoDanglingEvent, Open
<1>15. CASE Tick
  <2>1. UNCHANGED <<running, phase, batch, net>>
    BY <1>15 DEF Tick
  <2>2. ASSUME NEW c \in Clients
        PROVE  /\ conn'[c].open = conn[c].open /\ conn'[c].mode = conn[c].mode
               /\ conn'[c].fromPipe = conn[c].fromPipe /\ conn'[c].state = conn[c].state
               /\ conn'[c].parsing = conn[c].parsing /\ conn'[c].timedOut = conn[c].timedOut
               /\ conn'[c].fills = conn[c].fills
               /\ ~conn[c].open => conn'[c] = conn[c]
               /\ cgi'[c].child = cgi[c].child /\ cgi'[c].out = cgi[c].out
    BY <1>2, <1>15 DEF Tick, Connection, Script
  <2>3. ASSUME NEW c \in Clients PROVE ConnectionInv(c)' /\ EventIsSound(c)'
    BY <1>3, <2>1, <2>2 DEF ConnectionInv, EventIsSound, SocketReadable, PipeReadable,
       ModeMatches, Alive, Readable, AtEof, HasStartedRequest
  <2>4. NoDanglingEvent'
    BY <2>1, <2>2 DEF IInv, NoDanglingEvent, Open
  <2> QED
    BY <1>1, <2>1, <2>3, <2>4 DEF IInv, EventsAreSound
<1>16. CASE Sigint
  BY <1>1, <1>3, <1>16 DEF Sigint, IInv, ConnectionInv, NoDanglingEvent, Open, EventsAreSound,
     EventIsSound, HungUp, SocketReadable, PipeReadable
<1> QED
  BY <1>4, <1>5, <1>6, <1>7, <1>8, <1>9, <1>10, <1>11, <1>12, <1>13, <1>14, <1>15, <1>16
     DEF Next, Loop, Environment

LEMMA IInvInit == Init => IInv
<1> SUFFICES ASSUME Init PROVE IInv
  OBVIOUS
<1>1. TypeOK
  BY InitTypeOK
<1>2. batch = NoEvents /\ conn = [c \in Clients |-> NoConnection]
  BY DEF Init
<1>3. \A c \in Clients : ConnectionInv(c)
  BY <1>2 DEF ConnectionInv, NoConnection
<1> QED
  BY <1>1, <1>2, <1>3 DEF IInv, NoDanglingEvent, EventsAreSound, EventIsSound, NoEvents

\* IInv is an invariant as long as the disk takes every spilled CGI body.
THEOREM Inductive ==
  ASSUME StorageFails = FALSE
  PROVE  Spec => []IInv
<1>1. IInv /\ [Next]_vars => IInv'
  BY IInvStep
<1> QED
  BY IInvInit, <1>1, PTL DEF Spec

\* processEvents() never calls through a pointer to a client that an earlier
\* event of the same batch deleted, for any number of clients and whatever the
\* order of the events, as long as the disk takes every spilled CGI body.
THEOREM EventsNameLiveClients ==
  ASSUME StorageFails = FALSE
  PROVE  Spec => []NoDanglingEvent
<1>1. IInv => NoDanglingEvent
  BY DEF IInv
<1> QED
  BY Inductive, <1>1, PTL

\* The events of a batch still mean what epoll_wait() reported when their turn
\* comes, so that no read of a live connection finds nothing.
THEOREM EventsStaySound ==
  ASSUME StorageFails = FALSE
  PROVE  Spec => []EventsAreSound
<1>1. IInv => EventsAreSound
  BY DEF IInv
<1> QED
  BY Inductive, <1>1, PTL

\* Epoll mask, client state and the watched pipe of every connection agree.
THEOREM PollingModesAgree ==
  ASSUME StorageFails = FALSE
  PROVE  Spec => []PollingModeMatchesState
<1>1. IInv => PollingModeMatchesState
  BY DEF IInv, ConnectionInv, PollingModeMatchesState, Open
<1> QED
  BY Inductive, <1>1, PTL

\* No script outlives the reading of its pipe while its connection is open.
THEOREM NoScriptStrays ==
  ASSUME StorageFails = FALSE
  PROVE  Spec => []NoStrayScript
<1>1. IInv => NoStrayScript
  BY DEF IInv, ConnectionInv, NoStrayScript, Open
<1> QED
  BY Inductive, <1>1, PTL

\* A request is executed again only for a peer that is gone.
THEOREM RequestsAreFilledOnce ==
  ASSUME StorageFails = FALSE
  PROVE  Spec => []FilledOnce
<1>1. IInv => FilledOnce
  BY DEF IInv, ConnectionInv, FilledOnce, Open
<1> QED
  BY Inductive, <1>1, PTL

-----------------------------------------------------------------------------
(* What one step does to the stage of a connection                         *)

Accepts(c) ==
  /\ Stage(c) = "free" /\ Stage(c)' = "receiving"
  /\ ~conn'[c].timedOut /\ phase \in {"wait", "process"}
Executes(c) ==
  /\ Stage(c) = "receiving" \/ (Stage(c) = "answering" /\ HungUp(net[c]))
  /\ Stage(c)' = "executing"
  /\ ~conn[c].timedOut /\ ~conn'[c].timedOut
Answers(c) ==
  /\ Stage(c) # "free" /\ Stage(c)' = "answering"
  /\ conn[c].timedOut => conn'[c].timedOut
ServesAgain(c) ==
  /\ Stage(c) = "answering" /\ Stage(c)' = "receiving"
  /\ ~conn[c].timedOut /\ ~conn'[c].timedOut
Closes(c) ==
  /\ Stage(c) # "free" /\ Stage(c)' = "free"
  /\ Stage(c) = "executing" /\ phase \in {"wait", "process"} => HungUp(net[c])
  /\ ~conn'[c].timedOut
Stays(c) ==
  Stage(c)' = Stage(c) /\ conn'[c].timedOut = conn[c].timedOut

StageMove(c) ==
  Stays(c) \/ Accepts(c) \/ Executes(c) \/ Answers(c) \/ ServesAgain(c) \/ Closes(c)
HangUpLasts(c) ==
  HungUp(net[c]) /\ Stage(c) # "free" => HungUp(net[c])' \/ Stage(c)' = "free"

LEMMA UntouchedStays ==
  ASSUME NEW c \in Clients, conn'[c] = conn[c]
  PROVE  StageMove(c)
BY DEF StageMove, Stays, Stage

\* An open connection without a pipe may be closed in any state.
LEMMA RemovalCloses ==
  ASSUME TypeOK, NEW c \in Clients, conn[c].open, RemoveConnection(c),
         conn[c].fromPipe => HungUp(net[c])
  PROVE  StageMove(c) /\ ~conn'[c].open
<1>1. conn'[c] = NoConnection
  BY DEF TypeOK, RemoveConnection
<1>2. Stage(c)' = "free" /\ ~conn'[c].timedOut
  BY <1>1 DEF Stage, NoConnection
<1>3. Stage(c) # "free" /\ (Stage(c) = "executing" => conn[c].fromPipe)
  BY DEF Stage
<1>4. Closes(c)
  BY <1>2, <1>3 DEF Closes
<1> QED
  BY <1>1, <1>4 DEF StageMove, NoConnection

\* Receiving: a script is abandoned for a peer that is gone only, and started
\* again for such a peer only.
LEMMA ReceiveMoves ==
  ASSUME TypeOK, StorageFails = FALSE, NEW c \in Clients, conn[c].open,
         ConnectionInv(c), HungUp(net[c]) \/ SocketReadable(c) \/ PipeReadable(c),
         ReceiveAndParseData(c)
  PROVE  StageMove(c) /\ HangUpLasts(c)
<1>1. conn[c] \in Connection /\ net[c] \in Stream
  BY DEF TypeOK
<1>2. ModeMatches(conn[c])
  BY DEF ConnectionInv
<1>3. HangUpLasts(c)
  BY ReceiveKeepsInv DEF HangUpLasts, HungUp, Stage
<1>4. CASE conn[c].timedOut /\ UNCHANGED <<conn, net, cgi>>
  BY <1>3, <1>4, UntouchedStays
<1>5. CASE ~conn[c].timedOut /\ conn[c].fromPipe /\ ReadCGIChunk(c)
  <2>1. CASE UNCHANGED <<conn, net>>
    BY <1>3, <2>1, UntouchedStays
  <2>2. CASE conn' = [conn EXCEPT ![c] = SetClientState(StopReadingPipe(@), "HAS_FILLED")]
    <3>1. conn'[c] = SetClientState(StopReadingPipe(conn[c]), "HAS_FILLED")
      BY <2>2 DEF TypeOK
    <3>2. conn'[c].open /\ ~conn'[c].fromPipe /\ conn'[c].state = "HAS_FILLED"
      BY <1>1, <3>1 DEF SetClientState, StopReadingPipe, SetPollingMode, Connection
    <3>3. Answers(c)
      BY <1>5, <3>2 DEF Answers, Stage
    <3> QED
      BY <1>3, <3>3 DEF StageMove
  <2>3. CASE ~Readable(cgi[c]) /\ RemoveConnection(c)
    <3>1. HungUp(net[c])
      BY <1>2, <1>5, <2>3 DEF SocketReadable, PipeReadable, ModeMatches
    <3> QED
      BY <1>3, <2>3, <3>1, RemovalCloses
  <2> QED
    BY <1>5, <2>1, <2>2, <2>3 DEF ReadCGIChunk
<1>6. CASE ~conn[c].timedOut /\ ~conn[c].fromPipe /\ ReadRequest(c)
  <2>1. ASSUME NEW r \in Parsed(conn[c])
        PROVE  /\ r \in Connection /\ r.open /\ ~r.fromPipe /\ ~r.timedOut
               /\ r.parsing = "PARTIAL" => r.state = conn[c].state
    BY <1>1, <1>6, HandlersKeepConnections, ParsingKeepsFields
  <2>2. ASSUME NEW r \in Parsed(conn[c]), r.parsing = "PARTIAL",
               conn' = [conn EXCEPT ![c] = r]
        PROVE  StageMove(c)
    <3>1. conn'[c] = r
      BY <2>2 DEF TypeOK
    <3>2. r.open = conn[c].open /\ r.timedOut = conn[c].timedOut
          /\ r.fromPipe = conn[c].fromPipe /\ r.state = conn[c].state
      BY <1>1, <2>2, ParsingKeepsFields
    <3> QED
      BY <3>1, <3>2 DEF StageMove, Stays, Stage
  <2>3. ASSUME NEW r \in Parsed(conn[c]), conn' = [conn EXCEPT ![c] = FillAtOnce(r)]
        PROVE  StageMove(c)
    <3>1. conn'[c] = FillAtOnce(r)
      BY <2>3 DEF TypeOK
    <3>2. conn'[c].open /\ ~conn'[c].fromPipe /\ conn'[c].state = "HAS_FILLED"
      BY <2>1, <3>1, UpdatesKeepFields
    <3> QED
      BY <1>6, <3>2 DEF StageMove, Answers, Stage
  <2>4. ASSUME NEW r \in Parsed(conn[c]), conn' = [conn EXCEPT ![c] = FillFromScript(r)]
        PROVE  StageMove(c)
    <3>1. conn'[c] = FillFromScript(r)
      BY <2>4 DEF TypeOK
    <3>2. conn'[c].open /\ conn'[c].fromPipe
      BY <2>1, <3>1, UpdatesKeepFields
    <3>3. ~conn'[c].timedOut
      BY <2>1, <3>1 DEF FillFromScript, StartReadingPipe, SetPollingMode, SetClientState,
         CountFill, Connection
    <3>4. Stage(c) = "receiving" \/ (Stage(c) = "answering" /\ HungUp(net[c]))
      BY <1>2, <1>6 DEF Stage, SocketReadable, PipeReadable, ModeMatches
    <3> QED
      BY <1>6, <3>2, <3>3, <3>4 DEF StageMove, Executes, Stage
  <2> QED
    BY <1>3, <1>6, <2>2, <2>3, <2>4, RemovalCloses DEF ReadRequest
<1> QED
  BY <1>4, <1>5, <1>6 DEF ReceiveAndParseData

LEMMA SendMoves ==
  ASSUME TypeOK, NEW c \in Clients, conn[c].open, ConnectionInv(c), SendDataIfComplete(c)
  PROVE  /\ StageMove(c) /\ HangUpLasts(c)
         /\ ~conn'[c].open => conn[c].state = "HAS_FILLED"
         /\ conn[c].timedOut /\ conn'[c].open =>
              conn'[c].timedOut /\ conn'[c].state = conn[c].state
<1>1. conn[c] \in Connection /\ net[c] \in Stream
  BY DEF TypeOK
<1>2. ModeMatches(conn[c])
  BY DEF ConnectionInv
<1>3. CASE HasFilledResponse(conn[c]) /\ ~HungUp(net[c]) /\ RemoveConnection(c)
  <2>1. ~conn[c].fromPipe /\ conn[c].state = "HAS_FILLED"
    BY <1>2, <1>3 DEF HasFilledResponse, ModeMatches
  <2>2. StageMove(c) /\ ~conn'[c].open
    BY <1>3, <2>1, RemovalCloses
  <2>3. HangUpLasts(c)
    BY <1>3 DEF HangUpLasts
  <2> QED
    BY <2>1, <2>2, <2>3
<1>4. CASE /\ HasFilledResponse(conn[c]) /\ ~HungUp(net[c]) /\ ~conn[c].timedOut
           /\ conn' = [conn EXCEPT ![c] = SetPollingMode(
                                     [ResetContent(@) EXCEPT !.idle = 0], "READING")]
  <2>1. conn'[c] = SetPollingMode([ResetContent(conn[c]) EXCEPT !.idle = 0], "READING")
    BY <1>4 DEF TypeOK
  <2>2. /\ conn'[c].open = conn[c].open /\ conn'[c].state = "CONNECTED"
        /\ conn'[c].fromPipe = conn[c].fromPipe /\ conn'[c].timedOut = conn[c].timedOut
    <3> DEFINE r == ResetContent(conn[c])
    <3>1. /\ r.open = conn[c].open /\ r.state = "CONNECTED"
          /\ r.fromPipe = conn[c].fromPipe /\ r.timedOut = conn[c].timedOut
          /\ DOMAIN r = DOMAIN conn[c]
      BY <1>1 DEF ResetContent, Connection
    <3>2. conn'[c] = [[r EXCEPT !.idle = 0] EXCEPT !.mode = "READING"]
      BY <2>1 DEF SetPollingMode
    <3> HIDE DEF r
    <3> QED
      BY <1>1, <3>1, <3>2 DEF Connection
  <2>3. ~conn[c].fromPipe /\ conn[c].state = "HAS_FILLED"
    BY <1>2, <1>4 DEF HasFilledResponse, ModeMatches
  <2>4. ServesAgain(c)
    BY <1>4, <2>2, <2>3 DEF ServesAgain, Stage
  <2> QED
    BY <1>4, <2>2, <2>4 DEF StageMove, HangUpLasts
<1>5. CASE /\ conn' = [conn EXCEPT ![c].idle = 0]
           /\ \/ UNCHANGED net
              \/ net' = [net EXCEPT ![c].wire = SentMore(@), ![c].room = FALSE]
  <2>1. conn'[c] = [conn[c] EXCEPT !.idle = 0]
    BY <1>5 DEF TypeOK
  <2>2. /\ conn'[c].open = conn[c].open /\ conn'[c].state = conn[c].state
        /\ conn'[c].fromPipe = conn[c].fromPipe /\ conn'[c].timedOut = conn[c].timedOut
    BY <1>1, <2>1 DEF Connection
  <2>3. net'[c].peer = net[c].peer
    BY <1>1, <1>5 DEF Stream, TypeOK
  <2> QED
    BY <2>2, <2>3 DEF StageMove, Stays, Stage, HangUpLasts, HungUp
<1>6. CASE UNCHANGED <<conn, net, cgi>>
  BY <1>6, UntouchedStays DEF HangUpLasts
<1> QED
  BY <1>3, <1>4, <1>5, <1>6 DEF SendDataIfComplete, SendResponse

-----------------------------------------------------------------------------
(* What one step does to all connections                                   *)

\* The three facts about a step that the theorems below need of a connection.
TimedOutStep(c) ==
  conn[c].timedOut /\ conn'[c].open =>
    conn'[c].timedOut /\ conn'[c].state = "HAS_FILLED"
LivePeerStep(c) ==
  /\ conn[c].open /\ ~conn'[c].open
  /\ ~HungUp(net[c]) /\ phase = "process"
  => \/ conn[c].state = "HAS_FILLED"
     \/ conn[c].state = "CONNECTED" /\ (net[c].inbox > 0 \/ net[c].peer = "fin")
StepIsFine(c) ==
  StageMove(c) /\ HangUpLasts(c) /\ TimedOutStep(c) /\ LivePeerStep(c)

LEMMA TimedOutHasAnswer ==
  ASSUME TypeOK, NEW c \in Clients, ConnectionInv(c), conn[c].timedOut
  PROVE  conn[c].open /\ conn[c].state = "HAS_FILLED"
<1>1. conn[c] \in Connection
  BY DEF TypeOK
<1> QED
  BY <1>1 DEF ConnectionInv, ModeMatches, NoConnection, Connection, PollingModes

\* A step that leaves a connection and its peer's hang-up alone.
LEMMA UntouchedIsFine ==
  ASSUME TypeOK, NEW c \in Clients, ConnectionInv(c), conn'[c] = conn[c],
         HungUp(net[c]) => HungUp(net[c])'
  PROVE  StepIsFine(c)
<1>1. StageMove(c)
  BY UntouchedStays
<1>2. TimedOutStep(c)
  BY TimedOutHasAnswer DEF TimedOutStep
<1> QED
  BY <1>1, <1>2 DEF StepIsFine, HangUpLasts, LivePeerStep

LEMMA ReceiveIsFine ==
  ASSUME TypeOK, StorageFails = FALSE, NEW c \in Clients, conn[c].open,
         ConnectionInv(c), HungUp(net[c]) \/ SocketReadable(c) \/ PipeReadable(c),
         ReceiveAndParseData(c)
  PROVE  StepIsFine(c)
<1>1. conn[c] \in Connection /\ net[c] \in Stream
  BY DEF TypeOK
<1>2. StageMove(c) /\ HangUpLasts(c)
  BY ReceiveMoves
<1>3. TimedOutStep(c)
  BY TimedOutHasAnswer DEF TimedOutStep, ReceiveAndParseData
<1>4. LivePeerStep(c)
  <2>1. PipeReadable(c) => conn'[c].open
    BY ReceiveKeepsInv
  <2>2. SocketReadable(c) =>
          conn[c].state = "CONNECTED" /\ (net[c].inbox > 0 \/ net[c].peer = "fin" \/ HungUp(net[c]))
    BY <1>1 DEF SocketReadable, ConnectionInv, ModeMatches, HungUp, Stream, Peers
  <2> QED
    BY <2>1, <2>2 DEF LivePeerStep
<1> QED
  BY <1>2, <1>3, <1>4 DEF StepIsFine

LEMMA StepsAreFine ==
  ASSUME StorageFails = FALSE, IInv, [Next]_vars, NEW c \in Clients
  PROVE  StepIsFine(c)
<1>1. TypeOK /\ ConnectionInv(c) /\ EventIsSound(c)
  BY DEF IInv, EventsAreSound
<1>2. conn[c] \in Connection /\ net[c] \in Stream /\ cgi[c] \in Script
  BY <1>1 DEF TypeOK
<1>3. c \in batch.recv \cup batch.send \cup batch.pipe => conn[c].open
  BY DEF IInv, NoDanglingEvent, Open
<1>4. CASE UNCHANGED <<conn, net>>
  BY <1>1, <1>4, UntouchedIsFine DEF HungUp
<1>5. CASE HandleListen
  <2>1. PICK d \in Backlog : AcceptNewConnection(d)
    BY <1>5 DEF HandleListen
  <2>2. CASE d # c
    BY <1>1, <2>1, <2>2, UntouchedIsFine DEF AcceptNewConnection, HungUp, TypeOK
  <2>3. CASE d = c
    <3>1. ~conn[c].open
      BY <2>3 DEF Backlog
    <3>2. conn'[c] = [NoConnection EXCEPT !.open = TRUE]
      BY <1>1, <2>1, <2>3 DEF AcceptNewConnection, TypeOK
    <3>3. Stage(c) = "free" /\ Stage(c)' = "receiving" /\ ~conn'[c].timedOut
      BY <3>1, <3>2 DEF Stage, NoConnection
    <3>4. Accepts(c)
      BY <1>5, <3>3 DEF Accepts, HandleListen
    <3>5. ~conn[c].timedOut
      BY <1>1, <3>1 DEF ConnectionInv, NoConnection
    <3> QED
      BY <3>1, <3>3, <3>4, <3>5 DEF StepIsFine, StageMove, HangUpLasts, TimedOutStep, LivePeerStep
  <2> QED
    BY <2>2, <2>3
<1>6. ASSUME NEW d \in Clients, HandleRecv(d) PROVE StepIsFine(c)
  <2>1. ReceiveAndParseData(d) /\ d \in batch.recv
    BY <1>6 DEF HandleRecv
  <2>2. CASE d = c
    <3>1. HungUp(net[c]) \/ SocketReadable(c)
      BY <1>1, <2>1, <2>2 DEF EventIsSound
    <3> QED
      BY <1>1, <1>3, <2>1, <2>2, <3>1, ReceiveIsFine
  <2>3. CASE d # c
    <3>1. ConnectionInv(d) /\ EventIsSound(d) /\ conn[d].open
      BY <2>1 DEF IInv, EventsAreSound, NoDanglingEvent, Open
    <3>2. HungUp(net[d]) \/ SocketReadable(d)
      BY <2>1, <3>1 DEF EventIsSound
    <3>3. Others(d)
      BY <1>1, <2>1, <3>1, <3>2, ReceiveKeepsInv
    <3> QED
      BY <1>1, <2>3, <3>3, UntouchedIsFine DEF Others, HungUp
  <2> QED
    BY <2>2, <2>3
<1>7. ASSUME NEW d \in Clients, HandlePipe(d) PROVE StepIsFine(c)
  <2>1. ReceiveAndParseData(d) /\ d \in batch.pipe
    BY <1>7 DEF HandlePipe
  <2>2. CASE d = c
    <3>1. HungUp(net[c]) \/ PipeReadable(c)
      BY <1>1, <2>1, <2>2 DEF EventIsSound
    <3> QED
      BY <1>1, <1>3, <2>1, <2>2, <3>1, ReceiveIsFine
  <2>3. CASE d # c
    <3>1. ConnectionInv(d) /\ EventIsSound(d) /\ conn[d].open
      BY <2>1 DEF IInv, EventsAreSound, NoDanglingEvent, Open
    <3>2. HungUp(net[d]) \/ PipeReadable(d)
      BY <2>1, <3>1 DEF EventIsSound
    <3>3. Others(d)
      BY <1>1, <2>1, <3>1, <3>2, ReceiveKeepsInv
    <3> QED
      BY <1>1, <2>3, <3>3, UntouchedIsFine DEF Others, HungUp
  <2> QED
    BY <2>2, <2>3
<1>8. ASSUME NEW d \in Clients, HandleSend(d) PROVE StepIsFine(c)
  <2>1. SendDataIfComplete(d) /\ d \in batch.send
    BY <1>8 DEF HandleSend
  <2>2. ConnectionInv(d) /\ conn[d].open
    BY <2>1 DEF IInv, NoDanglingEvent, Open
  <2>3. CASE d = c
    <3>1. /\ StageMove(c) /\ HangUpLasts(c)
          /\ ~conn'[c].open => conn[c].state = "HAS_FILLED"
          /\ conn[c].timedOut /\ conn'[c].open =>
               conn'[c].timedOut /\ conn'[c].state = conn[c].state
      BY <1>1, <2>1, <2>2, <2>3, SendMoves
    <3>2. TimedOutStep(c)
      BY <1>1, <3>1, TimedOutHasAnswer DEF TimedOutStep
    <3> QED
      BY <3>1, <3>2 DEF StepIsFine, LivePeerStep
  <2>4. CASE d # c
    <3>1. Others(d)
      BY <1>1, <2>1, <2>2, SendKeepsInv
    <3> QED
      BY <1>1, <2>4, <3>1, UntouchedIsFine DEF Others, HungUp
  <2> QED
    BY <2>3, <2>4
<1>9. CASE TimeoutIdleClients
  <2>1. UNCHANGED net
    BY <1>9 DEF TimeoutIdleClients
  <2>2. CASE ~CgiIsLate(c) /\ ~RequestIsLate(c)
    <3>1. conn'[c] = conn[c]
      BY <1>9, <2>2 DEF TimeoutIdleClients
    <3> QED
      BY <1>1, <2>1, <3>1, UntouchedIsFine DEF HungUp
  <2>3. CASE CgiIsLate(c) \/ RequestIsLate(c)
    <3>1. conn'[c] = TimeoutCgi(conn[c]) \/ conn'[c] = TimeoutRequest(conn[c])
      BY <1>9, <2>3 DEF TimeoutIdleClients
    <3>2. /\ conn'[c].open /\ ~conn'[c].fromPipe /\ conn'[c].timedOut
          /\ conn'[c].state = "HAS_FILLED"
      <4>1. conn[c].open
        BY <2>3 DEF CgiIsLate, RequestIsLate
      <4>2. CASE conn'[c] = TimeoutCgi(conn[c])
        BY <1>2, <4>1, <4>2 DEF TimeoutCgi, StopReadingPipe, SetPollingMode, SetClientState,
           Connection
      <4>3. CASE conn'[c] = TimeoutRequest(conn[c])
        BY <1>2, <4>1, <4>3 DEF TimeoutRequest, StopReadingPipe, SetPollingMode,
           SetClientState, Connection
      <4> QED
        BY <3>1, <4>2, <4>3
    <3>3. Answers(c)
      BY <2>3, <3>2 DEF Answers, Stage, CgiIsLate, RequestIsLate
    <3> QED
      BY <2>1, <3>2, <3>3 DEF StepIsFine, StageMove, HangUpLasts, HungUp, TimedOutStep, LivePeerStep
  <2> QED
    BY <2>2, <2>3
<1>10. CASE CloseServers
  <2>1. conn'[c] = NoConnection /\ phase = "exit"
    BY <1>10 DEF CloseServers
  <2>2. ~conn'[c].open /\ ~conn'[c].timedOut
    BY <2>1 DEF NoConnection
  <2>3. CASE conn[c].open
    <3>1. Closes(c)
      BY <2>1, <2>2, <2>3 DEF Closes, Stage
    <3> QED
      BY <2>1, <2>2, <3>1 DEF StepIsFine, StageMove, HangUpLasts, Stage, TimedOutStep, LivePeerStep
  <2>4. CASE ~conn[c].open
    <3>1. conn'[c] = conn[c]
      BY <1>1, <2>1, <2>4 DEF ConnectionInv
    <3>2. StageMove(c)
      BY <3>1, UntouchedStays
    <3> QED
      BY <2>2, <2>4, <3>2 DEF StepIsFine, HangUpLasts, Stage, TimedOutStep, LivePeerStep
  <2> QED
    BY <2>3, <2>4
<1>11. ASSUME NEW d \in Clients, Peer(d) PROVE StepIsFine(c)
  <2>1. conn'[c] = conn[c] /\ (HungUp(net[c]) => HungUp(net[c])')
    BY <1>1, <1>2, <1>11 DEF TypeOK, Peer, Connect, PeerSends, PeerReads, PeerShutsDown,
       PeerResets, HungUp, Stream
  <2> QED
    BY <1>1, <2>1, UntouchedIsFine
<1>12. ASSUME NEW d \in Clients, Child(d) PROVE StepIsFine(c)
  BY <1>4, <1>12 DEF Child, ChildWrites, ChildClosesOutput, ChildExits
<1>13. CASE Tick
  <2>1. /\ conn'[c].open = conn[c].open /\ conn'[c].state = conn[c].state
        /\ conn'[c].fromPipe = conn[c].fromPipe /\ conn'[c].timedOut = conn[c].timedOut
        /\ net' = net
    BY <1>2, <1>13 DEF Tick, Connection
  <2>2. TimedOutStep(c)
    BY <1>1, <2>1, TimedOutHasAnswer DEF TimedOutStep
  <2> QED
    BY <2>1, <2>2 DEF StepIsFine, StageMove, Stays, Stage, HangUpLasts, HungUp, LivePeerStep
<1> QED
  BY <1>4, <1>5, <1>6, <1>7, <1>8, <1>9, <1>10, <1>11, <1>12, <1>13
     DEF Next, Loop, Environment, vars, WaitForEvents, WaitInterrupted, Sigint

-----------------------------------------------------------------------------
(* The theorems                                                            *)

\* After a timeout (receiveAndParseData() returns early for hasTimedOut()) a
\* connection sends its answer or closes: it never receives, executes or is
\* kept alive again.
THEOREM TimedOutStaysFinal ==
  ASSUME StorageFails = FALSE
  PROVE  Spec => TimedOutIsFinal
<1>1. IInv /\ [Next]_vars =>
        [\A c \in Clients :
           conn[c].timedOut /\ conn'[c].open =>
             conn'[c].timedOut /\ conn'[c].state = "HAS_FILLED"]_vars
  BY StepsAreFine DEF StepIsFine, TimedOutStep
<1> QED
  BY Inductive, <1>1, PTL DEF Spec, TimedOutIsFinal

\* No event that is stale by the time it is handled costs a live peer its
\* connection, although a read that finds nothing is an error in readRequest()
\* and in readCGIChunk().
THEOREM LivePeersAreKept ==
  ASSUME StorageFails = FALSE
  PROVE  Spec => LivePeerIsKept
<1>1. IInv /\ [Next]_vars =>
        [\A c \in Clients :
           /\ conn[c].open /\ ~conn'[c].open
           /\ ~HungUp(net[c]) /\ phase = "process"
           => \/ conn[c].state = "HAS_FILLED"
              \/ conn[c].state = "CONNECTED"
                 /\ (net[c].inbox > 0 \/ net[c].peer = "fin")]_vars
  BY StepsAreFine DEF StepIsFine, LivePeerStep
<1> QED
  BY Inductive, <1>1, PTL DEF Spec, LivePeerIsKept

LEMMA InitImplements == Init => Http!Init
<1> SUFFICES ASSUME Init PROVE Http!Init
  OBVIOUS
<1>1. ASSUME NEW c \in Clients
      PROVE  Stage(c) = "free" /\ conn[c].timedOut = FALSE /\ HungUp(net[c]) = FALSE
  <2>1. conn[c] = NoConnection /\ net[c] = NoStream
    BY DEF Init
  <2>2. ~HungUp(NoStream)
    BY DEF HungUp, NoStream
  <2>3. HungUp(NoStream) \in BOOLEAN
    BY DEF HungUp
  <2> QED
    BY <2>1, <2>2, <2>3 DEF Stage, NoConnection
<1>2. (phase \in {"wait", "process"}) = TRUE
  BY DEF Init
<1> QED
  BY <1>1, <1>2 DEF Http!Init

LEMMA StepImplements ==
  ASSUME StorageFails = FALSE, IInv, [Next]_vars
  PROVE  [Http!Next]_(Http!vars)
<1>1. TypeOK /\ TypeOK'
  BY TypeOKStep DEF IInv
<1>2. ASSUME NEW c \in Clients
      PROVE  conn[c].timedOut \in BOOLEAN /\ conn'[c].timedOut \in BOOLEAN
  BY <1>1 DEF TypeOK, Connection
<1>3. ASSUME NEW c \in Clients PROVE Http!Move(c)
  <2>1. StageMove(c) /\ HangUpLasts(c)
    BY StepsAreFine DEF StepIsFine
  <2>2. (HungUp(net[c]) /\ Stage(c) # "free") => HungUp(net[c])' \/ Stage(c)' = "free"
    BY <2>1 DEF HangUpLasts
  <2>3. CASE Stays(c)
    BY <2>2, <2>3 DEF Stays, Http!Move, Http!Stay
  <2>4. CASE Accepts(c)
    BY <1>2, <2>2, <2>4 DEF Accepts, Http!Move, Http!Accept
  <2>5. CASE Executes(c)
    BY <2>2, <2>5 DEF Executes, Http!Move, Http!Execute
  <2>6. CASE Answers(c)
    BY <2>2, <2>6 DEF Answers, Http!Move, Http!Answer
  <2>7. CASE ServesAgain(c)
    BY <2>2, <2>7 DEF ServesAgain, Http!Move, Http!KeepAlive
  <2>8. CASE Closes(c)
    BY <2>2, <2>8 DEF Closes, Http!Move, Http!Close
  <2> QED
    BY <2>1, <2>3, <2>4, <2>5, <2>6, <2>7, <2>8 DEF StageMove
<1>4. phase' \in {"wait", "process"} => phase \in {"wait", "process"}
  BY DEF Next, Loop, Environment, WaitForEvents, WaitInterrupted, HandleListen, HandleRecv,
     HandlePipe, HandleSend, TimeoutIdleClients, CloseServers, Peer, Connect, PeerSends,
     PeerReads, PeerShutsDown, PeerResets, Child, ChildWrites, ChildClosesOutput, ChildExits,
     Tick, Sigint, vars
<1>5. /\ [c \in Clients |-> Stage(c)]' \in [Clients -> Http!Stages]
      /\ [c \in Clients |-> conn[c].timedOut]' \in [Clients -> BOOLEAN]
      /\ [c \in Clients |-> HungUp(net[c])]' \in [Clients -> BOOLEAN]
  BY <1>2 DEF Stage, HungUp, Http!Stages
<1> QED
  BY <1>3, <1>4, <1>5 DEF Http!Next

\* The event loop keeps what HttpConnection promises every connection, for any
\* number of connections, any timeouts and any order of the events.
THEOREM Implementation ==
  ASSUME StorageFails = FALSE
  PROVE  Spec => ImplementsHttpConnection
<1>1. IInv /\ [Next]_vars => [Http!Next]_(Http!vars)
  BY StepImplements
<1> QED
  BY InitImplements, Inductive, <1>1, PTL DEF Spec, ImplementsHttpConnection, Http!Spec
=============================================================================
