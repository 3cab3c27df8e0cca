------------------------------ MODULE Startup ------------------------------
(***************************************************************************)
(* main(): the configuration file is read line by line, servers that would *)
(* share a port or a name are dropped, the others are opened one by one;   *)
(* SIGINT ends the loop and closes them.                                   *)
(***************************************************************************)
EXTENDS Configuration

CONSTANTS
  Files,    \* configuration files: sequences of lines
  Ports     \* ports that other processes may listen on

ASSUME FilesAssumption == \A f \in Files : Len(f) \in Nat /\ DOMAIN f = 1 .. Len(f)
ASSUME PortsAssumption == Ports \subseteq 1 .. 65535

VARIABLES
  phase,     \* where main() is
  file,      \* the file
  at,        \* the line that is read next
  open,      \* the blocks that are being read, the innermost last
  configs,   \* the servers of the file
  checked,   \* how many of them removeInvalidServerConf() has seen
  kept,      \* those it has kept
  used,      \* setOfUsedPorts and setOfUsedHostName
  sock,      \* the socket of the server that is being opened: its stage
  tried,     \* how many of the kept servers have been tried
  serverList,\* the servers that are watched, in their order
  listeners, \* the ports of the sockets in LISTEN state
  foreign    \* the ports other processes listen on

parser == <<file, at, open, configs>>
sieve == <<checked, kept, used>>
opener == <<sock, tried, serverList, listeners>>
vars == <<phase, parser, sieve, opener, foreign>>

Init ==
  /\ phase = "parsing"
  /\ file \in Files /\ at = 1 /\ open = <<>> /\ configs = <<>>
  /\ checked = 0 /\ kept = <<>> /\ used = [ports |-> {}, names |-> {}]
  /\ sock = "none" /\ tried = 0 /\ serverList = <<>> /\ listeners = {}
  /\ foreign \in SUBSET Ports

-----------------------------------------------------------------------------
(* Reading the file                                                        *)

Line == file[at]
Top == Last(open)
Block(kind, url) == [kind |-> kind, url |-> url, params |-> NoParams, routes |-> <<>>]

Reading == phase = "parsing" /\ at <= Len(file) /\ at' = at + 1 /\ UNCHANGED file
Refuse == phase' = "refused" /\ UNCHANGED <<open, configs>>
GoOn == UNCHANGED <<phase, configs>>

\* Outside the blocks only a line that opens a server counts.
SkipLine ==
  /\ Reading /\ GoOn /\ UNCHANGED open
  /\ IF open = <<>> THEN Line.kind # "server" ELSE Line.kind \in {"server", "other"}

ParseServerBlock ==
  /\ Reading /\ GoOn
  /\ open = <<>> /\ Line.kind = "server"
  /\ open' = <<Block("server", <<>>)>>

ParseLocationBlock ==
  /\ Reading
  /\ open # <<>> /\ Line.kind = "location"
  /\ IF Line.value = NoPathWritten THEN Refuse
     ELSE GoOn /\ open' = Append(open, Block("location", Line.value))

AddLineAsKeyValue ==
  /\ Reading /\ GoOn
  /\ open # <<>> /\ Line.kind = "pair"
  /\ open' = [open EXCEPT ![Len(open)].params = AddKeyValue(@, Line)]

\* addRoute() or addNestedRoute(), which no one looks at.
AddRoute(block, route) ==
  IF block.kind = "server" THEN [block EXCEPT !.routes = Append(@, route)] ELSE block

CloseLocationBlock ==
  /\ Reading /\ GoOn
  /\ open # <<>> /\ Line.kind = "close" /\ Top.kind = "location"
  /\ LET outer == Front(open)
     IN open' = [outer EXCEPT ![Len(outer)] = AddRoute(@, SetRouteParam(Top.url, Top.params))]

CloseServerBlock ==
  /\ Reading
  /\ open # <<>> /\ Line.kind = "close" /\ Top.kind = "server"
  /\ IF IsValidServer(Top.params)
     THEN /\ open' = <<>> /\ UNCHANGED phase
          /\ configs' = Append(configs, Conf(Top.params, Top.routes))
     ELSE Refuse

\* A block that is still open throws, and so does a file without a server.
EndOfFile ==
  /\ phase = "parsing" /\ at > Len(file)
  /\ phase' = IF open # <<>> \/ configs = <<>> THEN "refused" ELSE "checking"
  /\ UNCHANGED parser

Parse ==
  /\ \/ SkipLine \/ ParseServerBlock \/ ParseLocationBlock \/ AddLineAsKeyValue
     \/ CloseLocationBlock \/ CloseServerBlock \/ EndOfFile
  /\ UNCHANGED <<sieve, opener, foreign>>

-----------------------------------------------------------------------------
(* removeInvalidServerConf()                                               *)

\* The port is reserved before the name is looked at, and stays so.
\* Mutant: of the servers of one port none is kept.
SieveWithoutTheFirst(conf) ==
  LET new == [ports |-> used.ports \cup {conf.port}, names |-> used.names]
  IN IF conf.port \in used.ports
     THEN /\ kept' = SelectSeq(kept, LAMBDA k : k.port # conf.port) /\ UNCHANGED used
     ELSE IF conf.name \in used.names
     THEN used' = new /\ UNCHANGED kept
     ELSE used' = [new EXCEPT !.names = @ \cup {conf.name}] /\ kept' = Append(kept, conf)
\* Mutant: the names are not compared.
SievePorts(conf) ==
  IF conf.port \in used.ports THEN UNCHANGED <<kept, used>>
  ELSE kept' = Append(kept, conf) /\ used' = [used EXCEPT !.ports = @ \cup {conf.port}]
\* Mutant: the ports are not compared.
SieveNames(conf) ==
  IF conf.name \in used.names THEN UNCHANGED <<kept, used>>
  ELSE kept' = Append(kept, conf) /\ used' = [used EXCEPT !.names = @ \cup {conf.name}]
Sieve(conf) ==
  LET new == [ports |-> used.ports \cup {conf.port}, names |-> used.names]
  IN IF conf.port \in used.ports THEN UNCHANGED <<kept, used>>
     ELSE IF conf.name \in used.names
     THEN used' = new /\ UNCHANGED kept
     ELSE used' = [new EXCEPT !.names = @ \cup {conf.name}] /\ kept' = Append(kept, conf)

RemoveInvalidServerConf ==
  /\ phase = "checking"
  /\ IF checked < Len(configs)
     THEN /\ Sieve(configs[checked + 1]) /\ checked' = checked + 1 /\ UNCHANGED phase
     ELSE phase' = "opening" /\ UNCHANGED sieve
  /\ UNCHANGED <<parser, opener, foreign>>

-----------------------------------------------------------------------------
(* openServersAndAddToWatchList()                                          *)

Port == kept[tried + 1].port
Opening(stage) == phase = "opening" /\ tried < Len(kept) /\ sock = stage
OthersStand == UNCHANGED <<phase, parser, sieve, foreign>>

CreateSocket ==
  /\ Opening("none")
  /\ sock' = "created" /\ UNCHANGED <<tried, serverList, listeners>> /\ OthersStand

\* SO_REUSEADDR: only a socket that listens is in the way of bind().
InUse == foreign \cup listeners
BindToIPAddress ==
  /\ Opening("created") /\ Port \notin InUse
  /\ sock' = "bound" /\ UNCHANGED <<tried, serverList, listeners>> /\ OthersStand

\* Another process may have come first since.
SetListenMode ==
  /\ Opening("bound") /\ Port \notin InUse
  /\ sock' = "listening" /\ listeners' = listeners \cup {Port}
  /\ UNCHANGED <<tried, serverList>> /\ OthersStand

AddServerSocket ==
  /\ Opening("listening")
  /\ serverList' = Append(serverList, tried + 1)
  /\ sock' = "none" /\ tried' = tried + 1
  /\ UNCHANGED listeners /\ OthersStand

\* ~Sockette() closes the socket of the server that was not made.
\* Mutant: a socket that listens is left as it is.
CloseFailedLeaving == UNCHANGED listeners
CloseFailed ==
  listeners' = IF sock = "listening" THEN listeners \ {Port} ELSE listeners

\* Every failure is caught, and the next server is opened.
GiveUp ==
  /\ CloseFailed
  /\ sock' = "none" /\ tried' = tried + 1
  /\ UNCHANGED serverList /\ OthersStand

PortIsTaken == sock \in {"created", "bound"} /\ Opening(sock) /\ Port \in InUse /\ GiveUp
\* socket(), setsockopt() or epoll_ctl() fail.
CallFails == sock \in {"none", "created", "listening"} /\ Opening(sock) /\ GiveUp

LaunchEpollListenLoop ==
  /\ phase = "opening" /\ tried = Len(kept)
  /\ phase' = "running"
  /\ UNCHANGED <<parser, sieve, opener, foreign>>

Open ==
  \/ CreateSocket \/ BindToIPAddress \/ SetListenMode \/ AddServerSocket
  \/ PortIsTaken \/ CallFails \/ LaunchEpollListenLoop

-----------------------------------------------------------------------------
(* SIGINT, and the other processes of the machine                          *)

\* Before signal() the process dies of it, and the system closes what it had open.
SingalHandler ==
  /\ phase \notin {"refused", "closing", "exited"}
  /\ IF phase = "running"
     THEN phase' = "closing" /\ UNCHANGED <<serverList, listeners, sock>>
     ELSE phase' = "exited" /\ serverList' = <<>> /\ listeners' = {} /\ sock' = "none"
  /\ UNCHANGED <<parser, sieve, tried, foreign>>

CloseServers ==
  /\ phase = "closing"
  /\ IF serverList = <<>> THEN phase' = "exited" /\ UNCHANGED <<serverList, listeners>>
     ELSE /\ listeners' = listeners \ {kept[Head(serverList)].port}
          /\ serverList' = Tail(serverList) /\ UNCHANGED phase
  /\ UNCHANGED <<parser, sieve, sock, tried, foreign>>

Main == Parse \/ RemoveInvalidServerConf \/ Open \/ CloseServers

OtherProcessListens(p) ==
  /\ p \notin InUse /\ phase = "opening"
  /\ foreign' = foreign \cup {p} /\ UNCHANGED <<phase, parser, sieve, opener>>
OtherProcessEnds(p) ==
  /\ p \in foreign /\ phase = "opening"
  /\ foreign' = foreign \ {p} /\ UNCHANGED <<phase, parser, sieve, opener>>

Done == phase \in {"refused", "exited"} /\ UNCHANGED vars

Next ==
  \/ Main \/ SingalHandler \/ Done
  \/ \E p \in Ports : OtherProcessListens(p) \/ OtherProcessEnds(p)

Spec == Init /\ [][Next]_vars

-----------------------------------------------------------------------------
(* Properties                                                              *)

Routes == [url : Seq(STRING), root : Seq(STRING), upload : Seq(STRING),
           methods : SUBSET STRING, index : Seq(STRING), autoindex : BOOLEAN]
Confs == [port : 1 .. 65535, name : STRING, root : Seq(STRING), maxBody : Int,
          routes : Seq(Routes)]

\* Every variable keeps its type.
TypeOK ==
  /\ phase \in {"parsing", "refused", "checking", "opening", "running", "closing", "exited"}
  /\ at \in 1 .. Len(file) + 1
  /\ \A i \in DOMAIN open :
       /\ open[i].kind = IF i = 1 THEN "server" ELSE "location"
       /\ open[i].routes \in Seq(Routes)
  /\ configs \in Seq(Confs) /\ kept \in Seq(Confs)
  /\ checked \in 0 .. Len(configs) /\ tried \in 0 .. Len(kept)
  /\ used \in [ports : SUBSET (1 .. 65535), names : SUBSET STRING]
  /\ sock \in {"none", "created", "bound", "listening"}
  /\ serverList \in Seq(1 .. Len(kept))
  /\ listeners \subseteq 1 .. 65535 /\ foreign \subseteq Ports

\* The parser, which keeps a stack of blocks, finds the servers that the depth of the
\* lines says are written: each with the last value of each of its own keys, and its
\* own locations; and it refuses the file, whole, exactly if one block is not valid,
\* none is written, or one is not closed (ConfigParser.cpp:95, :170).
ParsedAsWritten ==
  /\ phase = "checking" /\ checked = 0 => IsValidFile(file) /\ configs = Written(file)
  /\ phase = "refused" => ~(IsValidFile(file) /\ Written(file) # <<>>)

PortsOf(confs) == {confs[i].port : i \in DOMAIN confs}
NamesOf(confs) == {confs[i].name : i \in DOMAIN confs}
DistinctPorts(confs) == \A i, j \in DOMAIN confs : confs[i].port = confs[j].port => i = j
DistinctNames(confs) == \A i, j \in DOMAIN confs : confs[i].name = confs[j].name => i = j

\* No two servers that are opened have one port or one name (ConfigParser.cpp:236).
UniqueServers ==
  DistinctPorts(kept) /\ DistinctNames(kept)

\* Of servers of one port one stays if no name is given twice, and of servers of one
\* name if no port is, although the port of a server that is dropped for its name
\* stays reserved (ConfigParser.cpp:246).  The first of the file always stays.
DropsOnlyDuplicates ==
  phase = "opening" =>
    /\ DistinctNames(configs) => PortsOf(kept) = PortsOf(configs)
    /\ DistinctPorts(configs) => NamesOf(kept) = NamesOf(configs)
    /\ kept # <<>> /\ Head(kept) = Head(configs)

\* A port that bind() or listen() finds in use is another process's: no server of the
\* file is in the way of another (Poller.cpp:36, Sockette.cpp:124).
PortConflictsAreForeign == [][PortIsTaken => Port \in foreign]_vars

\* What listens is watched, or is the one socket that is just being opened: a server
\* that fails at any of its calls leaves none behind, and an exit neither
\* (ServerSocket.cpp:33, Poller.cpp:202).
ListenersAreWatched ==
  /\ listeners = {kept[serverList[i]].port : i \in DOMAIN serverList}
                   \cup (IF sock = "listening" THEN {Port} ELSE {})
  /\ phase # "opening" => sock = "none"
=============================================================================
