---------------------------- MODULE StartupProofs ----------------------------
(***************************************************************************)
(* Proofs about Startup, for any configuration files and ports: a file is  *)
(* read as it is written, no two servers share a port or a name, what      *)
(* listens is watched, and no server is in the way of another.             *)
(***************************************************************************)
EXTENDS Startup, SequenceTheorems, FiniteSetTheorems, WellFoundedInduction, TLAPS

IsSequence(s) == \E S : s \in Seq(S)

\* What removeInvalidServerConf() has seen: whatever is kept is in the two sets.
SieveInv ==
  /\ IsSequence(kept)
  /\ UniqueServers
  /\ \A i \in DOMAIN kept : kept[i].port \in used.ports /\ kept[i].name \in used.names

\* Servers are opened in their order and closed in that order, so that those in the
\* list are different ones, and the one that is being opened comes after them.
OpenerInv ==
  /\ tried \in Nat
  /\ serverList \in Seq(Nat)
  /\ \A i \in DOMAIN serverList : serverList[i] \in DOMAIN kept /\ serverList[i] <= tried
  /\ \A i, j \in DOMAIN serverList : i < j => serverList[i] < serverList[j]
  /\ phase \in {"parsing", "refused", "checking"} =>
       serverList = <<>> /\ tried = 0 /\ listeners = {}
  /\ sock # "none" => tried < Len(kept)

IInv == SieveInv /\ OpenerInv /\ ListenersAreWatched

-----------------------------------------------------------------------------
(* The servers that are kept                                               *)

LEMMA SieveInit == Init => SieveInv
<1> SUFFICES ASSUME Init PROVE SieveInv
  OBVIOUS
<1>1. kept = <<>>
  BY DEF Init
<1>2. kept \in Seq({})
  BY <1>1
<1> QED
  BY <1>1, <1>2 DEF SieveInv, IsSequence, UniqueServers, DistinctPorts, DistinctNames

\* A server that is appended is told from the others by both sets.
LEMMA AppendKeeps ==
  ASSUME SieveInv, NEW conf, kept' = Append(kept, conf),
         conf.port \notin used.ports, conf.name \notin used.names,
         used' = [ports |-> used.ports \cup {conf.port}, names |-> used.names \cup {conf.name}]
  PROVE  SieveInv'
<1>1. PICK S : kept \in Seq(S)
  BY DEF SieveInv, IsSequence
<1>2. kept' \in Seq(S \cup {conf})
  BY <1>1
<1>3. /\ DOMAIN kept = 1 .. Len(kept) /\ Len(kept) \in Nat
      /\ DOMAIN kept' = 1 .. Len(kept) + 1
      /\ kept'[Len(kept) + 1] = conf
      /\ \A i \in 1 .. Len(kept) : kept'[i] = kept[i]
  BY <1>1
<1>4. \A i \in DOMAIN kept : kept[i].port # conf.port /\ kept[i].name # conf.name
  BY DEF SieveInv
<1>5. /\ \A i, j \in DOMAIN kept : kept[i].port = kept[j].port => i = j
      /\ \A i, j \in DOMAIN kept : kept[i].name = kept[j].name => i = j
  BY DEF SieveInv, UniqueServers, DistinctPorts, DistinctNames
<1>6. UniqueServers'
  <2>1. \A i, j \in DOMAIN kept' : kept'[i].port = kept'[j].port => i = j
    BY <1>3, <1>4, <1>5
  <2>2. \A i, j \in DOMAIN kept' : kept'[i].name = kept'[j].name => i = j
    BY <1>3, <1>4, <1>5
  <2> QED
    BY <2>1, <2>2 DEF UniqueServers, DistinctPorts, DistinctNames
<1>7. \A i \in DOMAIN kept' : kept'[i].port \in used'.ports /\ kept'[i].name \in used'.names
  BY <1>3 DEF SieveInv
<1> QED
  BY <1>2, <1>6, <1>7 DEF SieveInv, IsSequence

\* A port stays reserved for a server that is dropped for its name.
LEMMA SieveKeeps ==
  ASSUME SieveInv, NEW conf, Sieve(conf)
  PROVE  SieveInv'
<1>1. CASE conf.port \in used.ports
  BY <1>1 DEF Sieve, SieveInv, UniqueServers, DistinctPorts, DistinctNames
<1>2. CASE conf.port \notin used.ports /\ conf.name \in used.names
  <2>1. kept' = kept /\ used'.ports = used.ports \cup {conf.port} /\ used'.names = used.names
    BY <1>2 DEF Sieve
  <2> QED
    BY <2>1 DEF SieveInv, UniqueServers, DistinctPorts, DistinctNames
<1>3. CASE conf.port \notin used.ports /\ conf.name \notin used.names
  <2>1. kept' = Append(kept, conf)
    BY <1>3 DEF Sieve
  <2>2. used' = [ports |-> used.ports \cup {conf.port}, names |-> used.names \cup {conf.name}]
    BY <1>3 DEF Sieve
  <2> QED
    BY <1>3, <2>1, <2>2, AppendKeeps
<1> QED
  BY <1>1, <1>2, <1>3
-----------------------------------------------------------------------------
(* The servers that are opened                                             *)

LEMMA InvInit == Init => IInv
<1> SUFFICES ASSUME Init PROVE IInv
  OBVIOUS
<1>1. OpenerInv
  BY DEF Init, OpenerInv
<1>2. ListenersAreWatched
  BY DEF Init, ListenersAreWatched
<1> QED
  BY <1>1, <1>2, SieveInit DEF IInv

\* What stays as it is while files are read.
LEMMA ElsewhereKeeps ==
  ASSUME IInv, UNCHANGED <<kept, used, tried, serverList, listeners, sock>>,
         \/ phase' = phase
         \/ phase = "parsing" /\ phase' \in {"refused", "checking"}
         \/ phase = "checking" /\ phase' = "opening"
         \/ phase \in {"opening", "running"} /\ phase' \in {"running", "closing"} /\ sock = "none"
         \/ phase = "closing" /\ phase' = "exited"
  PROVE  IInv'
<1>1. SieveInv'
  BY DEF IInv, SieveInv, UniqueServers, DistinctPorts, DistinctNames
<1>2. OpenerInv'
  BY DEF IInv, OpenerInv
<1>3. ListenersAreWatched'
  BY DEF IInv, ListenersAreWatched, Port
<1> QED
  BY <1>1, <1>2, <1>3 DEF IInv

LEMMA ParseKeeps ==
  ASSUME IInv, Parse
  PROVE  IInv'
<1>1. UNCHANGED <<kept, used, tried, serverList, listeners, sock>>
  BY DEF Parse, sieve, opener
<1>2. \/ phase' = phase
      \/ phase = "parsing" /\ phase' \in {"refused", "checking"}
  BY DEF Parse, SkipLine, ParseServerBlock, ParseLocationBlock, AddLineAsKeyValue,
         CloseLocationBlock, CloseServerBlock, EndOfFile, Reading, Refuse, GoOn
<1> QED
  BY <1>1, <1>2, ElsewhereKeeps

\* Nothing is open while servers are dropped.
LEMMA CheckKeeps ==
  ASSUME IInv, RemoveInvalidServerConf
  PROVE  IInv'
<1>1. CASE checked < Len(configs)
  <2>1. Sieve(configs[checked + 1]) /\ phase = "checking" /\ phase' = phase
        /\ UNCHANGED <<tried, serverList, listeners, sock>>
    BY <1>1 DEF RemoveInvalidServerConf, opener
  <2>2. SieveInv'
    BY <2>1, SieveKeeps DEF IInv
  <2>3. serverList = <<>> /\ tried = 0 /\ listeners = {} /\ sock = "none"
    BY <2>1 DEF IInv, OpenerInv, ListenersAreWatched
  <2>4. OpenerInv'
    BY <2>1, <2>3 DEF OpenerInv
  <2>5. ListenersAreWatched'
    BY <2>1, <2>3 DEF ListenersAreWatched
  <2> QED
    BY <2>2, <2>4, <2>5 DEF IInv
<1>2. CASE ~(checked < Len(configs))
  BY <1>2, ElsewhereKeeps DEF RemoveInvalidServerConf, sieve, opener
<1> QED
  BY <1>1, <1>2

\* The server that is being opened is none of those that listen.
LEMMA NotInItsOwnWay ==
  ASSUME IInv, tried < Len(kept), phase = "opening"
  PROVE  /\ tried + 1 \in DOMAIN kept
         /\ \A i \in DOMAIN serverList : kept[serverList[i]].port # Port
<1>1. PICK S : kept \in Seq(S)
  BY DEF IInv, SieveInv, IsSequence
<1>2. tried + 1 \in DOMAIN kept
  BY <1>1 DEF IInv, OpenerInv
<1>3. \A i \in DOMAIN serverList : serverList[i] # tried + 1 /\ serverList[i] \in DOMAIN kept
  BY DEF IInv, OpenerInv
<1> QED
  BY <1>2, <1>3 DEF IInv, SieveInv, UniqueServers, DistinctPorts, Port

LEMMA OpenKeeps ==
  ASSUME IInv, Open, UNCHANGED foreign
  PROVE  IInv'
<1> USE DEF Opening, OthersStand
<1>k. PICK S : kept \in Seq(S)
  BY DEF IInv, SieveInv, IsSequence
<1>0. ASSUME OthersStand PROVE SieveInv'
  BY <1>0 DEF IInv, SieveInv, UniqueServers, DistinctPorts, DistinctNames, sieve
<1>1. CASE CreateSocket
  <2>1. SieveInv' BY <1>0, <1>1 DEF CreateSocket
  <2>2. OpenerInv' BY <1>1 DEF CreateSocket, IInv, OpenerInv, sieve
  <2>3. ListenersAreWatched' BY <1>1 DEF CreateSocket, IInv, ListenersAreWatched, sieve
  <2> QED BY <2>1, <2>2, <2>3 DEF IInv
<1>2. CASE BindToIPAddress
  <2>1. SieveInv' BY <1>0, <1>2 DEF BindToIPAddress
  <2>2. OpenerInv' BY <1>2 DEF BindToIPAddress, IInv, OpenerInv, sieve
  <2>3. ListenersAreWatched' BY <1>2 DEF BindToIPAddress, IInv, ListenersAreWatched, sieve
  <2> QED BY <2>1, <2>2, <2>3 DEF IInv
<1>3. CASE SetListenMode
  <2>1. SieveInv' BY <1>0, <1>3 DEF SetListenMode
  <2>2. OpenerInv' BY <1>3 DEF SetListenMode, IInv, OpenerInv, sieve
  <2>3. ListenersAreWatched'
    BY <1>3 DEF SetListenMode, IInv, ListenersAreWatched, sieve, Port
  <2> QED BY <2>1, <2>2, <2>3 DEF IInv
<1>4. CASE AddServerSocket
  <2> USE DEF AddServerSocket
  <2>1. SieveInv' BY <1>0, <1>4
  <2>2. /\ serverList \in Seq(Nat) /\ tried \in Nat /\ tried < Len(kept) /\ Len(kept) \in Nat
        /\ \A i \in DOMAIN serverList : serverList[i] \in DOMAIN kept /\ serverList[i] <= tried
        /\ \A i, j \in DOMAIN serverList : i < j => serverList[i] < serverList[j]
    BY <1>4, <1>k DEF IInv, OpenerInv
  <2>3. /\ DOMAIN serverList = 1 .. Len(serverList) /\ Len(serverList) \in Nat
        /\ DOMAIN serverList' = 1 .. Len(serverList) + 1
        /\ serverList' \in Seq(Nat)
        /\ serverList'[Len(serverList) + 1] = tried + 1
        /\ \A i \in 1 .. Len(serverList) : serverList'[i] = serverList[i]
    BY <1>4, <2>2
  <2>4. OpenerInv'
    <3>1. \A i \in DOMAIN serverList' : serverList'[i] \in DOMAIN kept' /\ serverList'[i] <= tried'
      <4>1. /\ DOMAIN kept = 1 .. Len(kept) /\ kept' = kept
            /\ tried' = tried + 1 /\ tried + 1 \in DOMAIN kept
        BY <1>4, <1>k, <2>2 DEF sieve
      <4>2. ASSUME NEW i \in DOMAIN serverList'
            PROVE  serverList'[i] \in DOMAIN kept /\ serverList'[i] <= tried + 1
        <5>1. CASE i = Len(serverList) + 1
          BY <2>2, <2>3, <4>1, <5>1
        <5>2. CASE i \in DOMAIN serverList
          BY <2>2, <2>3, <5>2
        <5> QED BY <2>3, <5>1, <5>2
      <4> QED BY <4>1, <4>2
    <3>2. \A i, j \in DOMAIN serverList' : i < j => serverList'[i] < serverList'[j]
      BY SMTT(30), <2>2, <2>3
    <3> QED BY SMTT(30), <1>4, <2>2, <2>3, <3>1, <3>2 DEF OpenerInv, sieve
  <2>5. ListenersAreWatched'
    <3>1. listeners = {kept[serverList[i]].port : i \in DOMAIN serverList}
                        \cup {kept[tried + 1].port}
      BY <1>4 DEF IInv, ListenersAreWatched, Port
    <3>2. {kept[serverList'[i]].port : i \in DOMAIN serverList'}
            = {kept[serverList[i]].port : i \in DOMAIN serverList} \cup {kept[tried + 1].port}
      BY <2>3
    <3> QED BY <1>4, <3>1, <3>2 DEF ListenersAreWatched, sieve
  <2> QED BY <2>1, <2>4, <2>5 DEF IInv
<1>5. CASE PortIsTaken \/ CallFails
  <2>1. /\ GiveUp /\ phase = "opening" /\ tried < Len(kept)
        /\ sock \in {"none", "created", "bound", "listening"}
    BY <1>5 DEF PortIsTaken, CallFails
  <2>2. SieveInv' BY <1>0, <2>1 DEF GiveUp
  <2>3. OpenerInv'
    BY <2>1, <1>k DEF GiveUp, IInv, OpenerInv, sieve
  <2>4. listeners' = {kept[serverList[i]].port : i \in DOMAIN serverList}
    BY <2>1, NotInItsOwnWay DEF GiveUp, CloseFailed, IInv, ListenersAreWatched
  <2>5. ListenersAreWatched'
    BY <2>1, <2>4 DEF GiveUp, ListenersAreWatched, sieve
  <2> QED BY <2>2, <2>3, <2>5 DEF IInv
<1>6. CASE LaunchEpollListenLoop
  <2>1. sock = "none"
    BY <1>6, <1>k DEF LaunchEpollListenLoop, IInv, OpenerInv
  <2> QED
    BY <1>6, <2>1, ElsewhereKeeps DEF LaunchEpollListenLoop, sieve, opener
<1> QED
  BY <1>1, <1>2, <1>3, <1>4, <1>5, <1>6 DEF Open
-----------------------------------------------------------------------------
(* The end                                                                 *)

LEMMA SignalKeeps ==
  ASSUME IInv, SingalHandler
  PROVE  IInv'
<1>1. CASE phase = "running"
  <2>1. sock = "none"
    BY <1>1 DEF IInv, ListenersAreWatched
  <2> QED
    BY <1>1, <2>1, ElsewhereKeeps DEF SingalHandler, sieve
<1>2. CASE phase # "running"
  <2>1. /\ phase' = "exited" /\ serverList' = <<>> /\ listeners' = {} /\ sock' = "none"
        /\ UNCHANGED <<kept, used, tried>>
    BY <1>2 DEF SingalHandler, sieve
  <2>2. SieveInv'
    BY <2>1 DEF IInv, SieveInv, UniqueServers, DistinctPorts, DistinctNames
  <2>3. OpenerInv'
    BY <2>1 DEF IInv, OpenerInv
  <2>4. ListenersAreWatched'
    BY <2>1 DEF ListenersAreWatched
  <2> QED
    BY <2>2, <2>3, <2>4 DEF IInv
<1> QED
  BY <1>1, <1>2

\* Closing a server closes one port, since no other server of the list has it.
LEMMA CloseKeeps ==
  ASSUME IInv, CloseServers
  PROVE  IInv'
<1>1. CASE serverList = <<>>
  <2>1. UNCHANGED <<kept, used, tried, serverList, listeners, sock>>
        /\ phase = "closing" /\ phase' = "exited"
    BY <1>1 DEF CloseServers, sieve
  <2> QED
    BY <2>1, ElsewhereKeeps
<1>2. CASE serverList # <<>>
  <2>1. /\ phase = "closing" /\ UNCHANGED <<phase, kept, used, sock, tried>>
        /\ listeners' = listeners \ {kept[Head(serverList)].port}
        /\ serverList' = Tail(serverList)
    BY <1>2 DEF CloseServers, sieve
  <2>2. serverList \in Seq(Nat) /\ sock = "none"
    BY <2>1 DEF IInv, OpenerInv, ListenersAreWatched
  <2>3. /\ serverList' \in Seq(Nat) /\ Len(serverList) \in Nat \ {0}
        /\ DOMAIN serverList = 1 .. Len(serverList)
        /\ DOMAIN serverList' = 1 .. Len(serverList) - 1
        /\ \A i \in 1 .. Len(serverList) - 1 : serverList'[i] = serverList[i + 1]
        /\ Head(serverList) = serverList[1]
    BY <1>2, <2>1, <2>2
  <2>4. /\ \A i \in DOMAIN serverList : serverList[i] \in DOMAIN kept /\ serverList[i] <= tried
        /\ \A i, j \in DOMAIN serverList : i < j => serverList[i] < serverList[j]
        /\ tried \in Nat
    BY DEF IInv, OpenerInv
  <2>5. SieveInv'
    BY <2>1 DEF IInv, SieveInv, UniqueServers, DistinctPorts, DistinctNames
  <2>6. OpenerInv'
    <3>1. \A i \in DOMAIN serverList' : serverList'[i] \in DOMAIN kept /\ serverList'[i] <= tried
      <4> SUFFICES ASSUME NEW i \in DOMAIN serverList'
                   PROVE  serverList'[i] \in DOMAIN kept /\ serverList'[i] <= tried
        OBVIOUS
      <4>1. i + 1 \in DOMAIN serverList /\ serverList'[i] = serverList[i + 1]
        BY <2>3
      <4> QED
        BY <2>4, <4>1
    <3>2. \A i, j \in DOMAIN serverList' : i < j => serverList'[i] < serverList'[j]
      <4> SUFFICES ASSUME NEW i \in DOMAIN serverList', NEW j \in DOMAIN serverList', i < j
                   PROVE  serverList'[i] < serverList'[j]
        OBVIOUS
      <4>1. /\ i + 1 \in DOMAIN serverList /\ serverList'[i] = serverList[i + 1]
            /\ j + 1 \in DOMAIN serverList /\ serverList'[j] = serverList[j + 1]
            /\ i + 1 < j + 1
        BY <2>3
      <4> QED
        BY <2>4, <4>1
    <3> QED
      BY <2>1, <2>2, <2>3, <2>4, <3>1, <3>2 DEF OpenerInv
  <2>7. listeners' = {kept[serverList'[i]].port : i \in DOMAIN serverList'}
    <3>1. listeners = {kept[serverList[i]].port : i \in DOMAIN serverList}
      BY <2>2 DEF IInv, ListenersAreWatched
    <3>2. \A i \in 2 .. Len(serverList) : kept[serverList[i]].port # kept[serverList[1]].port
      <4> SUFFICES ASSUME NEW i \in 2 .. Len(serverList)
                   PROVE  kept[serverList[i]].port # kept[serverList[1]].port
        OBVIOUS
      <4>1. serverList[1] < serverList[i] /\ serverList[1] \in Nat /\ serverList[i] \in Nat
        <5>1. 1 \in DOMAIN serverList /\ i \in DOMAIN serverList /\ 1 < i
          BY <2>3
        <5> QED
          BY <2>2, <2>4, <5>1
      <4>2. serverList[1] \in DOMAIN kept /\ serverList[i] \in DOMAIN kept
        BY SMTT(30), <2>3, <2>4
      <4> QED
        BY <4>1, <4>2 DEF IInv, SieveInv, UniqueServers, DistinctPorts
    <3>3. \A x \in listeners' : \E i \in DOMAIN serverList' : x = kept[serverList'[i]].port
      <4> SUFFICES ASSUME NEW x \in listeners'
                   PROVE  \E i \in DOMAIN serverList' : x = kept[serverList'[i]].port
        OBVIOUS
      <4>1. PICK i \in DOMAIN serverList : x = kept[serverList[i]].port
        BY <2>1, <3>1
      <4>2. i # 1 /\ i - 1 \in DOMAIN serverList' /\ serverList'[i - 1] = serverList[i]
        BY <2>1, <2>3, <4>1
      <4> QED
        BY <4>1, <4>2
    <3>4. \A i \in DOMAIN serverList' : kept[serverList'[i]].port \in listeners'
      BY <2>1, <2>3, <3>1, <3>2
    <3> QED
      BY <3>3, <3>4
  <2>8. ListenersAreWatched'
    BY <2>1, <2>2, <2>7 DEF ListenersAreWatched
  <2> QED
    BY <2>5, <2>6, <2>8 DEF IInv
<1> QED
  BY <1>1, <1>2

-----------------------------------------------------------------------------
(* The servers that are dropped                                            *)

\* After `checked` servers of the file every port is reserved, the names are those of
\* the kept, and only a name or a port that is given twice has cost one its place.
ReadInv ==
  /\ IsSequence(configs) /\ IsSequence(kept)
  /\ checked \in 0 .. Len(configs)
  /\ used.ports = {configs[j].port : j \in 1 .. checked}
  /\ used.names = NamesOf(kept)
  /\ \A i \in DOMAIN kept : \E j \in 1 .. checked : kept[i] = configs[j]
  /\ DistinctNames(configs) => \A j \in 1 .. checked : configs[j].port \in PortsOf(kept)
  /\ DistinctPorts(configs) => \A j \in 1 .. checked : configs[j].name \in NamesOf(kept)
  /\ checked > 0 => kept # <<>> /\ kept[1] = configs[1]
  /\ phase \in {"parsing", "refused"} =>
       checked = 0 /\ kept = <<>> /\ used = [ports |-> {}, names |-> {}]
  /\ phase = "checking" => configs # <<>>
  /\ phase = "opening" => checked = Len(configs) /\ configs # <<>>

\* While the file is read nothing is checked yet.
Unchecked ==
  /\ IsSequence(configs)
  /\ checked = 0 /\ kept = <<>> /\ used = [ports |-> {}, names |-> {}]
  /\ phase \in {"parsing", "refused"} \/ (phase = "checking" /\ configs # <<>>)

LEMMA UncheckedIsRead == Unchecked => ReadInv
<1> SUFFICES ASSUME Unchecked PROVE ReadInv
  OBVIOUS
<1>1. PICK S : configs \in Seq(S)
  BY DEF Unchecked, IsSequence
<1>2. /\ kept \in Seq({}) /\ DOMAIN kept = {} /\ checked \in 0 .. Len(configs)
      /\ 1 .. checked = {}
  BY <1>1 DEF Unchecked
<1>3. NamesOf(kept) = {} /\ {configs[j].port : j \in 1 .. checked} = {}
  BY <1>2 DEF NamesOf
<1>4. /\ used.ports = {configs[j].port : j \in 1 .. checked} /\ used.names = NamesOf(kept)
  BY <1>3 DEF Unchecked
<1>5. /\ \A i \in DOMAIN kept : \E j \in 1 .. checked : kept[i] = configs[j]
      /\ \A j \in 1 .. checked : FALSE
      /\ ~(checked > 0)
  BY <1>2 DEF Unchecked
<1>6. IsSequence(kept)
  BY <1>2 DEF IsSequence
<1>7. phase # "opening" /\ (phase = "checking" => configs # <<>>)
  BY DEF Unchecked
<1>8. /\ IsSequence(configs)
      /\ checked = 0 /\ kept = <<>> /\ used = [ports |-> {}, names |-> {}]
  BY DEF Unchecked
<1> QED
  BY <1>2, <1>4, <1>5, <1>6, <1>7, <1>8 DEF ReadInv

LEMMA UncheckedStaysRead == Unchecked' => ReadInv'
  BY UncheckedIsRead, PTL

LEMMA ReadInit == Init => ReadInv
<1> SUFFICES ASSUME Init PROVE ReadInv
  OBVIOUS
<1>1. configs \in Seq({})
  BY DEF Init
<1> QED
  BY <1>1, UncheckedIsRead DEF Init, Unchecked, IsSequence

\* What stays as it is once the file has been read.
LEMMA ElsewhereRead ==
  ASSUME ReadInv, UNCHANGED <<configs, checked, kept, used>>,
         phase' = phase \/ phase' \in {"running", "closing", "exited"}
  PROVE  ReadInv'
  BY DEF ReadInv, NamesOf, PortsOf, DistinctNames, DistinctPorts

LEMMA ParseRead ==
  ASSUME ReadInv, Parse
  PROVE  ReadInv'
<1>1. UNCHANGED <<checked, kept, used>> /\ phase = "parsing"
  BY DEF Parse, sieve, SkipLine, ParseServerBlock, ParseLocationBlock, AddLineAsKeyValue,
         CloseLocationBlock, CloseServerBlock, EndOfFile, Reading
<1>2. checked' = 0 /\ kept' = <<>> /\ used' = [ports |-> {}, names |-> {}]
  BY <1>1 DEF ReadInv
<1>3. IsSequence(configs)'
  <2>1. PICK S : configs \in Seq(S)
    BY DEF ReadInv, IsSequence
  <2>2. configs' = configs \/ \E conf : configs' = Append(configs, conf)
    BY DEF Parse, SkipLine, ParseServerBlock, ParseLocationBlock, AddLineAsKeyValue,
           CloseLocationBlock, CloseServerBlock, EndOfFile, Refuse, GoOn, parser
  <2>3. ASSUME NEW conf, configs' = Append(configs, conf) PROVE configs' \in Seq(S \cup {conf})
    BY <2>1, <2>3
  <2> QED
    BY <2>1, <2>2, <2>3 DEF IsSequence
<1>4. phase' \in {"parsing", "refused"} \/ (phase' = "checking" /\ configs' # <<>>)
  BY <1>1 DEF Parse, SkipLine, ParseServerBlock, ParseLocationBlock, AddLineAsKeyValue,
         CloseLocationBlock, CloseServerBlock, EndOfFile, Reading, Refuse, GoOn, parser
<1> QED
  BY <1>2, <1>3, <1>4, UncheckedStaysRead DEF Unchecked, IsSequence

\* Dropping a server leaves its port seen, if no name is given twice.
LEMMA SieveRead ==
  ASSUME ReadInv, RemoveInvalidServerConf, checked < Len(configs)
  PROVE  ReadInv'
<1> DEFINE n == checked + 1
           conf == configs[n]
<1>1. /\ Sieve(conf) /\ checked' = n /\ configs' = configs
      /\ phase = "checking" /\ phase' = phase
  BY DEF RemoveInvalidServerConf, parser
<1>2. PICK S : configs \in Seq(S)
  BY DEF ReadInv, IsSequence
<1>3. PICK T : kept \in Seq(T)
  BY DEF ReadInv, IsSequence
<1>4. /\ checked \in Nat /\ n \in DOMAIN configs /\ n \in 0 .. Len(configs) /\ n > 0
      /\ 1 .. n = (1 .. checked) \cup {n} /\ n \notin 1 .. checked
      /\ \A j \in 1 .. checked : j \in DOMAIN configs /\ j # n
  BY <1>2 DEF ReadInv
<1>5. configs # <<>> /\ (checked = 0 => n = 1)
  BY <1>4, <1>2
<1> HIDE DEF n, conf
<1>6. {configs[j].port : j \in 1 .. n} = used.ports \cup {conf.port}
  BY <1>4 DEF ReadInv, conf
<1>7. \A p \in used.ports : \E j \in 1 .. checked : p = configs[j].port
  BY DEF ReadInv
<1>8. \A p \in used.names : \E j \in 1 .. checked : p = configs[j].name
  BY DEF ReadInv, NamesOf
<1>9. CASE UNCHANGED kept /\ (conf.port \in used.ports \/ conf.name \in used.names)
  <2>1. /\ used'.ports = used.ports \cup {conf.port} /\ used'.names = used.names
    BY <1>1, <1>9, <1>7 DEF Sieve
  <2>2. ASSUME DistinctNames(configs) PROVE conf.port \in PortsOf(kept)
    <3>1. conf.name \notin used.names
      BY <1>4, <1>8, <2>2 DEF DistinctNames, conf
    <3>2. PICK j \in 1 .. checked : conf.port = configs[j].port
      BY <1>7, <1>9, <3>1
    <3> QED
      BY <2>2, <3>2 DEF ReadInv
  <2>3. ASSUME DistinctPorts(configs) PROVE conf.name \in NamesOf(kept)
    <3>1. conf.port \notin used.ports
      BY <1>4, <1>7, <2>3 DEF DistinctPorts, conf
    <3> QED
      BY <1>9, <3>1 DEF ReadInv
  <2>4. checked # 0
    BY <1>4, <1>7, <1>8, <1>9
  <2>5. kept # <<>> /\ kept[1] = configs[1]
    BY <1>4, <2>4 DEF ReadInv
  <2>6. \A i \in DOMAIN kept : \E j \in 1 .. n : kept[i] = configs[j]
    BY <1>4 DEF ReadInv
  <2>7. /\ DistinctNames(configs) => \A j \in 1 .. n : configs[j].port \in PortsOf(kept)
        /\ DistinctPorts(configs) => \A j \in 1 .. n : configs[j].name \in NamesOf(kept)
    BY <1>4, <2>2, <2>3 DEF ReadInv, conf
  <2>8. used'.ports = {configs[j].port : j \in 1 .. n} /\ used'.names = NamesOf(kept)
    BY <1>6, <2>1 DEF ReadInv
  <2>9. IsSequence(configs) /\ IsSequence(kept)
    BY DEF ReadInv
  <2> QED
    BY <1>1, <1>4, <1>5, <1>9, <2>5, <2>6, <2>7, <2>8, <2>9 DEF ReadInv
<1>10. CASE kept' = Append(kept, conf) /\ conf.port \notin used.ports /\ conf.name \notin used.names
  <2>1. used'.ports = used.ports \cup {conf.port} /\ used'.names = used.names \cup {conf.name}
    BY <1>1, <1>10 DEF Sieve
  <2>2. /\ DOMAIN kept = 1 .. Len(kept) /\ Len(kept) \in Nat
        /\ DOMAIN kept' = DOMAIN kept \cup {Len(kept) + 1}
        /\ kept'[Len(kept) + 1] = conf
        /\ \A i \in DOMAIN kept : kept'[i] = kept[i]
        /\ kept' \in Seq(T \cup {conf})
    BY <1>3, <1>10
  <2>3. /\ NamesOf(kept') = NamesOf(kept) \cup {conf.name}
        /\ PortsOf(kept') = PortsOf(kept) \cup {conf.port}
    BY <2>2 DEF NamesOf, PortsOf
  <2>4. \A i \in DOMAIN kept' : \E j \in 1 .. n : kept'[i] = configs[j]
    BY <1>4, <2>2 DEF ReadInv, conf
  <2>5. kept' # <<>> /\ kept'[1] = configs[1]
    <3>1. CASE checked = 0
      <4>1. \A i \in DOMAIN kept : \E j \in 1 .. 0 : kept[i] = configs[j]
        BY <3>1 DEF ReadInv
      <4>2. Len(kept) + 1 = 1
        <5>1. 1 \notin DOMAIN kept
          BY <4>1
        <5> QED
          BY <2>2, <5>1
      <4>3. kept' # <<>> /\ 1 \in DOMAIN kept'
        BY <1>3, <1>10, <2>2, <4>2
      <4> QED
        BY <1>5, <2>2, <3>1, <4>2, <4>3 DEF conf
    <3>2. CASE checked # 0
      <4>1. kept # <<>> /\ kept[1] = configs[1]
        BY <1>4, <3>2 DEF ReadInv
      <4>2. 1 \in DOMAIN kept
        BY <1>3, <4>1
      <4>3. Append(kept, conf) # <<>>
        BY <1>3
      <4> QED
        BY <1>10, <2>2, <4>1, <4>2, <4>3
    <3> QED
      BY <3>1, <3>2
  <2>6. /\ DistinctNames(configs) => \A j \in 1 .. n : configs[j].port \in PortsOf(kept')
        /\ DistinctPorts(configs) => \A j \in 1 .. n : configs[j].name \in NamesOf(kept')
    BY <1>4, <2>3 DEF ReadInv, conf
  <2>7. IsSequence(kept)'
    BY <2>2 DEF IsSequence
  <2>8. IsSequence(configs)' /\ checked' \in 0 .. Len(configs')
    BY <1>1, <1>4 DEF ReadInv, IsSequence
  <2>9. /\ used'.ports = {configs'[j].port : j \in 1 .. checked'}
        /\ used'.names = NamesOf(kept')
    <3>1. used.names = NamesOf(kept)
      BY DEF ReadInv
    <3> QED
      BY <1>1, <1>6, <2>1, <2>3, <3>1
  <2> QED
    BY <1>1, <1>5, <2>4, <2>5, <2>6, <2>7, <2>8, <2>9 DEF ReadInv
<1> QED
  BY <1>1, <1>9, <1>10 DEF Sieve

LEMMA CheckRead ==
  ASSUME ReadInv, RemoveInvalidServerConf
  PROVE  ReadInv'
<1>1. CASE ~(checked < Len(configs))
  <2>1. PICK S : configs \in Seq(S)
    BY DEF ReadInv, IsSequence
  <2>2. checked = Len(configs) /\ configs # <<>>
    BY <1>1, <2>1 DEF RemoveInvalidServerConf, ReadInv
  <2>3. UNCHANGED <<configs, checked, kept, used>> /\ phase' = "opening"
    BY <1>1 DEF RemoveInvalidServerConf, parser, sieve
  <2> QED
    BY <2>2, <2>3 DEF ReadInv, NamesOf, PortsOf, DistinctNames, DistinctPorts
<1> QED
  BY <1>1, SieveRead

LEMMA NextRead == ReadInv /\ [Next]_vars => ReadInv'
<1> SUFFICES ASSUME ReadInv, [Next]_vars PROVE ReadInv'
  OBVIOUS
<1>1. ASSUME Open \/ CloseServers \/ SingalHandler \/ Done \/ UNCHANGED vars
             \/ \E p \in Ports : OtherProcessListens(p) \/ OtherProcessEnds(p)
      PROVE  /\ UNCHANGED <<configs, checked, kept, used>>
             /\ phase' = phase \/ phase' \in {"running", "closing", "exited"}
  BY <1>1 DEF Open, CreateSocket, BindToIPAddress, SetListenMode, AddServerSocket, PortIsTaken,
              CallFails, GiveUp, LaunchEpollListenLoop, Opening, OthersStand, CloseServers,
              SingalHandler, Done, OtherProcessListens, OtherProcessEnds, vars, parser, sieve
<1> QED
  BY <1>1, ElsewhereRead, ParseRead, CheckRead DEF Next, Main
-----------------------------------------------------------------------------
(* What the file says is what is read: depths                              *)

LEMMA Least ==
  ASSUME NEW B, B \subseteq Nat, B # {}
  PROVE  \E x \in B : \A y \in B : x <= y
<1> DEFINE R == {ss \in Nat \X Nat : ss[1] < ss[2]}
<1>1. IsWellFoundedOn(R, Nat)
  BY NatLessThanWellFounded DEF OpToRel
<1>2. PICK x \in B : \A y \in B : ~(<<y, x>> \in R)
  <2> HIDE DEF R
  <2> QED BY <1>1, WFMin
<1>3. ASSUME NEW y \in B PROVE x <= y
  <2>1. x \in Nat /\ y \in Nat /\ ~(y < x)
    BY <1>2
  <2> QED BY <2>1
<1> QED
  BY <1>3

LEMMA Induction ==
  ASSUME NEW T, 0 \in T, \A n \in Nat : n \in T => n + 1 \in T
  PROVE  Nat \subseteq T
<1> SUFFICES ASSUME Nat \ T # {} PROVE FALSE
  OBVIOUS
<1>1. PICK x \in Nat \ T : \A y \in Nat \ T : x <= y
  BY Least
<1>2. x # 0 /\ x - 1 \in Nat /\ (x - 1) + 1 = x
  BY <1>1
<1> QED
  BY <1>1, <1>2

\* The blocks that are open after a line.
Step(line, d) ==
  CASE Opens(line, d) -> d + 1 [] Closes(line, d) -> d - 1 [] OTHER -> d

LEMMA StepType ==
  ASSUME NEW line, NEW d \in Nat
  PROVE  Step(line, d) \in Nat
  BY DEF Step, Closes

LEMMA Steps ==
  ASSUME NEW line, NEW d \in Nat
  PROVE  /\ Opens(line, d) => Step(line, d) = d + 1
         /\ Closes(line, d) => Step(line, d) = d - 1
         /\ ~Opens(line, d) /\ ~Closes(line, d) => Step(line, d) = d
  BY DEF Step, Opens, Closes

LEMMA DepthsExist ==
  ASSUME NEW f, Len(f) \in Nat
  PROVE  \E h \in [1 .. Len(f) + 1 -> Nat] :
           h[1] = 0 /\ \A i \in 1 .. Len(f) : h[i + 1] = Step(f[i], h[i])
<1> DEFINE Counts(h, n) ==
             /\ h \in [1 .. n + 1 -> Nat] /\ h[1] = 0
             /\ \A i \in 1 .. n : h[i + 1] = Step(f[i], h[i])
           T == {n \in Nat : \E h : Counts(h, n)}
<1>1. 0 \in T
  <2>1. Counts([i \in 1 .. 1 |-> 0], 0)
    OBVIOUS
  <2> QED BY <2>1
<1>2. ASSUME NEW n \in Nat, n \in T PROVE n + 1 \in T
  <2>1. PICK h : Counts(h, n)
    BY <1>2
  <2> DEFINE g == [i \in 1 .. n + 2 |-> IF i = n + 2 THEN Step(f[n + 1], h[n + 1]) ELSE h[i]]
  <2>2. h[n + 1] \in Nat /\ Step(f[n + 1], h[n + 1]) \in Nat
    BY <2>1, StepType
  <2>3. g \in [1 .. (n + 1) + 1 -> Nat] /\ g[1] = 0
    BY <2>1, <2>2
  <2>4. ASSUME NEW i \in 1 .. n + 1 PROVE g[i + 1] = Step(f[i], g[i])
    <3>1. g[i] = h[i] /\ (i = n + 1 => g[i + 1] = Step(f[n + 1], h[n + 1]))
          /\ (i # n + 1 => g[i + 1] = h[i + 1] /\ i \in 1 .. n)
      OBVIOUS
    <3> HIDE DEF g
    <3> QED BY <2>1, <3>1
  <2>5. Counts(g, n + 1)
    BY <2>3, <2>4
  <2> HIDE DEF g, Counts
  <2> QED BY <2>5
<1>3. Nat \subseteq T
  <2> HIDE DEF T
  <2> QED BY <1>1, <1>2, Induction
<1> QED
  BY <1>3

\* The first line is outside of every block, and each line opens one, closes one or
\* stays.
DepthRules(f) ==
  LET D == DepthBefore(f)
  IN /\ D \in [1 .. Len(f) + 1 -> Nat] /\ D[1] = 0
     /\ \A i \in 1 .. Len(f) : D[i + 1] = Step(f[i], D[i])

LEMMA DepthIs ==
  ASSUME NEW f, Len(f) \in Nat
  PROVE  DepthRules(f)
<1> DEFINE D == DepthBefore(f)
           body(h, i) == IF i = 1 THEN 0 ELSE Step(f[i - 1], h[i - 1])
           Is(h) == h = [i \in 1 .. Len(f) + 1 |-> body(h, i)]
<1>1. \E h \in [1 .. Len(f) + 1 -> Nat] : Is(h)
  <2>1. PICK h \in [1 .. Len(f) + 1 -> Nat] :
           h[1] = 0 /\ \A i \in 1 .. Len(f) : h[i + 1] = Step(f[i], h[i])
    BY DepthsExist
  <2>2. ASSUME NEW i \in 1 .. Len(f) + 1 PROVE h[i] = body(h, i)
    <3>1. CASE i = 1
      BY <3>1, <2>1
    <3>2. CASE i # 1
      <4>1. i - 1 \in 1 .. Len(f) /\ (i - 1) + 1 = i
        BY <3>2
      <4> QED BY <4>1, <3>2, <2>1
    <3> QED BY <3>1, <3>2
  <2>3. Is(h)
    <3> HIDE DEF body
    <3> QED BY <2>2
  <2> QED BY <2>3
<1>2. Is(D)
  <2>1. D = CHOOSE h : Is(h)
    BY Zenon DEF DepthBefore, Step
  <2> HIDE DEF D, Is
  <2> QED BY <1>1, <2>1
<1>3. D[1] = 0 /\ DOMAIN D = 1 .. Len(f) + 1
  BY <1>2
<1>4. ASSUME NEW i \in 1 .. Len(f) PROVE D[i + 1] = Step(f[i], D[i])
  <2>1. i + 1 \in 1 .. Len(f) + 1 /\ i + 1 # 1 /\ (i + 1) - 1 = i
    OBVIOUS
  <2>2. D[i + 1] = body(D, i + 1)
    <3> HIDE DEF D, body
    <3> QED BY <1>2, <2>1
  <2> QED BY <2>1, <2>2
<1> HIDE DEF D
<1>5. \A i \in 1 .. Len(f) + 1 : D[i] \in Nat
  <2> DEFINE T == {n \in Nat : n + 1 \in 1 .. Len(f) + 1 => D[n + 1] \in Nat}
  <2>1. 0 \in T
    BY <1>3
  <2>2. ASSUME NEW n \in Nat, n \in T PROVE n + 1 \in T
    <3>1. SUFFICES ASSUME (n + 1) + 1 \in 1 .. Len(f) + 1 PROVE D[(n + 1) + 1] \in Nat
      OBVIOUS
    <3>2. n + 1 \in 1 .. Len(f) /\ D[n + 1] \in Nat
      BY <2>2, <3>1
    <3> QED BY <3>2, <1>4, StepType
  <2>3. Nat \subseteq T
    <3> HIDE DEF T
    <3> QED BY <2>1, <2>2, Induction
  <2>4. \A i \in 1 .. Len(f) + 1 : i - 1 \in Nat /\ (i - 1) + 1 = i
    OBVIOUS
  <2> QED BY <2>3, <2>4
<1>6. D \in [1 .. Len(f) + 1 -> Nat]
  <2>1. D = [i \in 1 .. Len(f) + 1 |-> D[i]]
    <3> HIDE DEF body
    <3> QED BY <1>2
  <2> QED BY <2>1, <1>5
<1> QED
  BY <1>3, <1>4, <1>6 DEF DepthRules, D

\* Line i has opened the n-th of the blocks that are open before line m.
IsOpenAt(f, n, i, m) ==
  LET D == DepthBefore(f)
  IN /\ i \in 1 .. m - 1 /\ D[i] = n - 1 /\ Opens(f[i], n - 1)
     /\ \A k \in i + 1 .. m : D[k] >= n

\* The lines that open blocks of depth d which are closed before line m.
Shut(f, d, m) ==
  LET D == DepthBefore(f)
  IN {i \in 1 .. m - 1 : D[i] = d /\ Opens(f[i], d) /\ \E k \in i + 1 .. m : D[k] <= d}

LEMMA OneOpens ==
  ASSUME NEW f, DepthRules(f), NEW m \in 1 .. Len(f) + 1, Len(f) \in Nat, NEW n \in Nat,
         NEW i, NEW j, IsOpenAt(f, n, i, m), IsOpenAt(f, n, j, m)
  PROVE  i = j
<1> DEFINE D == DepthBefore(f)
<1>1. i \in Nat /\ j \in Nat /\ i <= m - 1 /\ j <= m - 1
  BY DEF IsOpenAt
<1>2. D[i] = n - 1 /\ D[j] = n - 1
  BY DEF IsOpenAt
<1>3. ~(i < j)
  <2>1. i < j => j \in i + 1 .. m
    BY <1>1
  <2> QED BY <2>1, <1>2 DEF IsOpenAt
<1>4. ~(j < i)
  <2>1. j < i => i \in j + 1 .. m
    BY <1>1
  <2> QED BY <2>1, <1>2 DEF IsOpenAt
<1> QED
  BY <1>1, <1>3, <1>4

\* What is closed before line m comes before what is still open, in a block of one depth.
LEMMA ShutComesFirst ==
  ASSUME NEW f, DepthRules(f), NEW m \in 1 .. Len(f) + 1, Len(f) \in Nat, NEW d \in Nat,
         NEW i, IsOpenAt(f, d + 1, i, m), NEW j \in Shut(f, d, m)
  PROVE  j < i
<1> DEFINE D == DepthBefore(f)
<1>1. i \in Nat /\ j \in Nat /\ i <= m - 1 /\ j <= m - 1 /\ D[j] = d
  BY DEF IsOpenAt, Shut
<1>2. ~(i < j)
  <2>1. i < j => j \in i + 1 .. m
    BY <1>1
  <2> QED BY <2>1, <1>1 DEF IsOpenAt
<1>3. i # j
  <2>1. PICK k \in j + 1 .. m : D[k] <= d
    BY DEF Shut
  <2>2. i = j => D[k] >= d + 1
    BY <2>1 DEF IsOpenAt
  <2>3. k \in 1 .. Len(f) + 1
    BY <1>1, <2>1
  <2>4. D[k] \in Nat
    BY <2>3 DEF DepthRules
  <2> QED BY <2>1, <2>2, <2>4
<1> QED
  BY <1>1, <1>2, <1>3

\* A line closes at most the block that is open at its depth.
LEMMA ShutGrows ==
  ASSUME NEW f, DepthRules(f), Len(f) \in Nat, NEW p \in 1 .. Len(f), NEW d \in Nat
  PROVE  Shut(f, d, p + 1)
           = Shut(f, d, p) \cup {i \in 1 .. p - 1 : IsOpenAt(f, d + 1, i, p) /\ DepthBefore(f)[p + 1] <= d}
<1> DEFINE D == DepthBefore(f)
           closed == {i \in 1 .. p - 1 : IsOpenAt(f, d + 1, i, p) /\ D[p + 1] <= d}
<1>0. /\ p \in Nat /\ (p + 1) - 1 = p /\ p + 1 \in 1 .. Len(f) + 1
      /\ \A i \in 1 .. Len(f) + 1 : D[i] \in Nat
      /\ D[p + 1] = Step(f[p], D[p])
  <2>1. p \in Nat /\ (p + 1) - 1 = p /\ p + 1 \in 1 .. Len(f) + 1
    OBVIOUS
  <2>2. \A i \in 1 .. Len(f) + 1 : D[i] \in Nat
    BY SMTT(30) DEF DepthRules
  <2>3. D[p + 1] = Step(f[p], D[p])
    BY SMTT(30) DEF DepthRules
  <2> QED BY <2>1, <2>2, <2>3
<1>1. ASSUME NEW i \in Shut(f, d, p + 1) PROVE i \in Shut(f, d, p) \cup closed
  <2>1. i \in 1 .. p /\ D[i] = d /\ Opens(f[i], d)
    BY <1>0, <1>1 DEF Shut
  <2>2. PICK k \in i + 1 .. p + 1 : D[k] <= d
    BY <1>0, <1>1 DEF Shut
  <2>3. i # p
    <3>1. SUFFICES ASSUME i = p PROVE FALSE
      OBVIOUS
    <3>2. D[p] = d /\ Opens(f[p], D[p])
      BY <2>1, <3>1
    <3>3. Step(f[p], D[p]) = D[p] + 1
      BY <3>2, Steps
    <3>4. k = p + 1
      BY <2>2, <3>1, <1>0
    <3> HIDE DEF D
    <3> QED BY <1>0, <2>2, <3>2, <3>3, <3>4
  <2>4. i \in 1 .. p - 1
    BY <2>1, <2>3, <1>0
  <2>5. CASE \E l \in i + 1 .. p : D[l] <= d
    BY <2>1, <2>4, <2>5 DEF Shut
  <2>6. CASE \A l \in i + 1 .. p : ~(D[l] <= d)
    <3>1. \A l \in i + 1 .. p : l \in 1 .. Len(f) + 1
      BY <2>4, <1>0
    <3>2. \A l \in i + 1 .. p : D[l] >= d + 1
      BY <2>6, <3>1, <1>0
    <3>3. k = p + 1
      BY <2>2, <2>6, <1>0, <2>1
    <3> QED BY <2>1, <2>2, <2>4, <3>2, <3>3 DEF IsOpenAt
  <2> QED BY <2>5, <2>6
<1>2. ASSUME NEW i \in Shut(f, d, p) PROVE i \in Shut(f, d, p + 1)
  <2>1. i \in 1 .. p - 1 /\ D[i] = d /\ Opens(f[i], d)
    BY <1>2 DEF Shut
  <2>2. PICK k \in i + 1 .. p : D[k] <= d
    BY <1>2 DEF Shut
  <2>3. i \in 1 .. (p + 1) - 1 /\ k \in i + 1 .. p + 1
    BY <2>1, <2>2, <1>0
  <2> QED BY <2>1, <2>2, <2>3 DEF Shut
<1>3. ASSUME NEW i \in closed PROVE i \in Shut(f, d, p + 1)
  <2>1. D[i] = d /\ Opens(f[i], d) /\ i \in 1 .. p - 1 /\ D[p + 1] <= d
    BY DEF IsOpenAt
  <2>2. i \in 1 .. (p + 1) - 1 /\ p + 1 \in i + 1 .. p + 1
    BY <2>1, <1>0
  <2> QED BY <2>1, <2>2 DEF Shut
<1> QED
  BY <1>1, <1>2, <1>3

\* A line that does not open a block leaves a block open as long as it is not the one
\* that it closes.
LEMMA StaysOpen ==
  ASSUME NEW f, DepthRules(f), Len(f) \in Nat, NEW p \in 1 .. Len(f), NEW n \in Nat, NEW i,
         IsOpenAt(f, n, i, p), DepthBefore(f)[p + 1] >= n
  PROVE  IsOpenAt(f, n, i, p + 1)
<1>1. i \in 1 .. (p + 1) - 1 /\ \A k \in i + 1 .. p + 1 : k = p + 1 \/ k \in i + 1 .. p
  BY DEF IsOpenAt
<1> QED
  BY <1>1 DEF IsOpenAt

\* The block that line i has opened ends at line p.
LEMMA EndIs ==
  ASSUME NEW f, DepthRules(f), Len(f) \in Nat, NEW p \in 1 .. Len(f), NEW n \in Nat, NEW i,
         IsOpenAt(f, n, i, p), DepthBefore(f)[p + 1] = n - 1
  PROVE  EndOf(f, i) = p
<1> DEFINE D == DepthBefore(f)
           Ends(j) == /\ D[j + 1] = D[i] /\ \A k \in i + 1 .. j : D[k] > D[i]
<1>0. i \in Nat /\ i < p /\ p \in Nat /\ D[i] = n - 1 /\ \A k \in i + 1 .. p : D[k] >= n
  BY DEF IsOpenAt
<1>1. p \in i + 1 .. Len(f) /\ Ends(p)
  <2>1. \A k \in i + 1 .. p : D[k] \in Nat
    BY <1>0 DEF DepthRules
  <2> QED BY <1>0, <2>1
<1>2. ASSUME NEW j \in i + 1 .. Len(f), Ends(j) PROVE j = p
  <2>1. ~(j < p)
    <3>1. j < p => j + 1 \in i + 1 .. p
      BY <1>0
    <3> QED BY <3>1, <1>0, <1>2
  <2>2. ~(p < j)
    <3>1. p < j => p + 1 \in i + 1 .. j
      BY <1>0
    <3> QED BY <3>1, <1>0, <1>2
  <2> QED BY <2>1, <2>2, <1>0
<1>3. EndOf(f, i) = CHOOSE j \in i + 1 .. Len(f) : Ends(j)
  BY Zenon DEF EndOf
<1> HIDE DEF Ends
<1> QED
  BY <1>1, <1>2, <1>3

-----------------------------------------------------------------------------
(* What the file says is what is read: values, locations and servers       *)

LEMMA NoValues ==
  ASSUME NEW f
  PROVE  LastValues(f, {}) = NoParams
  BY DEF LastValues, NoParams

\* The value of a later line counts.
LEMMA ValueAdds ==
  ASSUME NEW f, NEW lines \in SUBSET Nat, NEW p \in Nat, \A k \in lines : k < p
  PROVE  LastValues(f, lines \cup {p}) = AddKeyValue(LastValues(f, lines), f[p])
<1> DEFINE both == lines \cup {p}
           Is(set, key, k) == f[k].key = key /\ \A l \in set : f[l].key = key => l <= k
           keys == {f[k].key : k \in lines}
           values == LastValues(f, lines)
<1>1. /\ {f[k].key : k \in both} = keys \cup {f[p].key}
      /\ DOMAIN values = keys
  BY DEF LastValues
<1>2. ASSUME NEW key, key = f[p].key
      PROVE  (CHOOSE k \in both : Is(both, key, k)) = p
  <2>1. p \in both /\ Is(both, key, p)
    BY <1>2
  <2>2. ASSUME NEW k \in both, Is(both, key, k) PROVE k = p
    BY <1>2, <2>2
  <2> HIDE DEF Is, both
  <2> QED BY <2>1, <2>2
<1>3. ASSUME NEW key \in keys, key # f[p].key
      PROVE  (CHOOSE k \in both : Is(both, key, k)) = (CHOOSE k \in lines : Is(lines, key, k))
  <2>1. \A k : (k \in both /\ Is(both, key, k)) <=> (k \in lines /\ Is(lines, key, k))
    BY <1>3
  <2> HIDE DEF Is, both
  <2> QED BY <2>1
<1>4. \A key \in keys : values[key] = f[CHOOSE k \in lines : Is(lines, key, k)].value
  BY DEF LastValues
<1>5. LastValues(f, both) = [key \in {f[k].key : k \in both} |->
                               f[CHOOSE k \in both : Is(both, key, k)].value]
  BY DEF LastValues
<1>6. AddKeyValue(values, f[p]) =
        [key \in keys \cup {f[p].key} |-> IF key = f[p].key THEN f[p].value ELSE values[key]]
  BY <1>1 DEF AddKeyValue
<1> HIDE DEF Is, both, keys, values
<1>7. \A key \in keys \cup {f[p].key} :
        f[CHOOSE k \in both : Is(both, key, k)].value
          = IF key = f[p].key THEN f[p].value ELSE values[key]
  <2> SUFFICES ASSUME NEW key \in keys \cup {f[p].key}
               PROVE  f[CHOOSE k \in both : Is(both, key, k)].value
                        = IF key = f[p].key THEN f[p].value ELSE values[key]
    OBVIOUS
  <2>1. CASE key = f[p].key
    <3>1. (CHOOSE k \in both : Is(both, key, k)) = p
      BY <1>2, <2>1
    <3> DEFINE chosen == CHOOSE k \in both : Is(both, key, k)
    <3> HIDE DEF chosen
    <3>2. f[chosen].value = f[p].value
      BY <3>1 DEF chosen
    <3> QED BY <2>1, <3>2, Zenon DEF chosen
  <2>2. CASE key # f[p].key
    BY <1>3, <1>4, <2>2
  <2> QED BY <2>1, <2>2
<1>8. LastValues(f, both) = AddKeyValue(values, f[p])
  <2> DEFINE old(key) == f[CHOOSE k \in both : Is(both, key, k)].value
             new(key) == IF key = f[p].key THEN f[p].value ELSE values[key]
  <2>1. LastValues(f, both) = [key \in keys \cup {f[p].key} |-> old(key)]
    BY <1>1, <1>5
  <2>2. AddKeyValue(values, f[p]) = [key \in keys \cup {f[p].key} |-> new(key)]
    BY <1>6
  <2>3. \A key \in keys \cup {f[p].key} : old(key) = new(key)
    BY <1>7
  <2> HIDE DEF old, new
  <2> QED BY <2>1, <2>2, <2>3
<1> QED BY <1>8 DEF both, values

\* A line that comes after all others is the last in their order.
LEMMA OrderAdds ==
  ASSUME NEW S \in SUBSET Nat, IsFiniteSet(S), NEW x \in Nat, \A s \in S : s < x
  PROVE  /\ Cardinality(S) \in Nat /\ Cardinality(S \cup {x}) = Cardinality(S) + 1
         /\ \A n \in 1 .. Cardinality(S) : InOrder(S \cup {x})[n] = InOrder(S)[n]
         /\ InOrder(S \cup {x})[Cardinality(S) + 1] = x
<1> DEFINE c == Cardinality(S)
           both == S \cup {x}
           Nth(set, n, i) == Cardinality({j \in set : j <= i}) = n
<1>1. c \in Nat /\ Cardinality(both) = c + 1
  BY FS_CardinalityType, FS_AddElement
<1>2. Nth(both, c + 1, x)
  <2>0. \A j \in both : j <= x
    OBVIOUS
  <2>1. {j \in both : j <= x} = both
    BY <2>0
  <2> HIDE DEF both
  <2> QED BY <2>1, <1>1
<1>3. ASSUME NEW i \in S
      PROVE  /\ {j \in both : j <= i} = {j \in S : j <= i}
             /\ Cardinality({j \in S : j <= i}) \in Nat /\ Cardinality({j \in S : j <= i}) <= c
  <2>1. {j \in both : j <= i} = {j \in S : j <= i}
    BY <1>3
  <2>2. {j \in S : j <= i} \in SUBSET S
    OBVIOUS
  <2>3. IsFiniteSet({j \in S : j <= i}) /\ Cardinality({j \in S : j <= i}) <= c
    BY <2>2, FS_Subset
  <2>4. Cardinality({j \in S : j <= i}) \in Nat
    BY <2>3, FS_CardinalityType
  <2> QED BY <2>1, <2>3, <2>4
<1>4. \A n \in 1 .. c + 1 : InOrder(both)[n] = CHOOSE i \in both : Nth(both, n, i)
  BY <1>1 DEF InOrder
<1>5. \A n \in 1 .. c : InOrder(S)[n] = CHOOSE i \in S : Nth(S, n, i)
  BY DEF InOrder
<1>6. ASSUME NEW n \in 1 .. c
      PROVE  (CHOOSE i \in both : Nth(both, n, i)) = (CHOOSE i \in S : Nth(S, n, i))
  <2>1. ~Nth(both, n, x)
    <3> HIDE DEF both
    <3> QED BY <1>1, <1>2
  <2>2. \A i \in S : Nth(both, n, i) <=> Nth(S, n, i)
    BY <1>3
  <2>3. \A i : (i \in both /\ Nth(both, n, i)) <=> (i \in S /\ Nth(S, n, i))
    <3>1. \A i : i \in both <=> i \in S \/ i = x
      OBVIOUS
    <3> HIDE DEF Nth, both
    <3> QED BY <2>1, <2>2, <3>1
  <2> HIDE DEF Nth, both
  <2> QED BY <2>3
<1>7. (CHOOSE i \in both : Nth(both, c + 1, i)) = x
  <2>1. \A i \in S : ~Nth(both, c + 1, i)
    <3> SUFFICES ASSUME NEW i \in S PROVE ~Nth(both, c + 1, i)
      OBVIOUS
    <3>1. Cardinality({j \in both : j <= i}) \in Nat /\ Cardinality({j \in both : j <= i}) <= c
      BY <1>3
    <3> HIDE DEF both, c
    <3> QED BY <3>1, <1>1
  <2>2. x \in both /\ \A i \in both : i \in S \/ i = x
    OBVIOUS
  <2> HIDE DEF Nth, both
  <2> QED BY <1>2, <2>1, <2>2
<1> HIDE DEF Nth, both, c
<1>8. /\ c \in Nat /\ Cardinality(both) = c + 1
      /\ \A n \in 1 .. c : InOrder(both)[n] = InOrder(S)[n]
      /\ InOrder(both)[c + 1] = x
  <2>1. \A n \in 1 .. c : n \in 1 .. c + 1
    BY <1>1
  <2>2. c + 1 \in 1 .. c + 1
    BY <1>1
  <2> QED BY <1>1, <1>4, <1>5, <1>6, <1>7, <2>1, <2>2
<1> QED BY <1>8 DEF both, c

\* s is a list of c things.
Lists(s, c) == s = [n \in 1 .. c |-> s[n]]

LEMMA Appended ==
  ASSUME NEW c \in Nat, NEW s, Lists(s, c), NEW e, NEW t, Lists(t, c + 1),
         \A n \in 1 .. c : t[n] = s[n], t[c + 1] = e
  PROVE  t = Append(s, e) /\ IsSequence(s)
<1> USE DEF Lists
<1>1. s \in Seq({s[n] : n \in 1 .. c})
  BY IsASeq
<1>2. Len(s) = c /\ DOMAIN s = 1 .. c
  BY <1>1
<1>3. /\ Append(s, e) = [n \in 1 .. c + 1 |-> Append(s, e)[n]]
      /\ \A n \in 1 .. c : Append(s, e)[n] = s[n]
      /\ Append(s, e)[c + 1] = e
  BY <1>1, <1>2, AppendProperties
<1>4. \A n \in 1 .. c + 1 : n \in 1 .. c \/ n = c + 1
  OBVIOUS
<1>5. \A n \in 1 .. c + 1 : Append(s, e)[n] = t[n]
  BY <1>3, <1>4
<1> QED
  BY <1>1, <1>3, <1>5 DEF IsSequence

LEMMA LocationsAdd ==
  ASSUME NEW f, NEW S \in SUBSET Nat, IsFiniteSet(S), NEW x \in Nat, \A s \in S : s < x
  PROVE  LocationsAt(f, S \cup {x})
           = Append(LocationsAt(f, S), SetRouteParam(f[x].value, OwnParams(f, x)))
<1> DEFINE c == Cardinality(S)
           Is(i) == SetRouteParam(f[i].value, OwnParams(f, i))
           s == LocationsAt(f, S)
           t == LocationsAt(f, S \cup {x})
<1>1. s = [n \in 1 .. c |-> Is(InOrder(S)[n])]
  BY DEF LocationsAt
<1>2. t = [n \in 1 .. c + 1 |-> Is(InOrder(S \cup {x})[n])]
  BY OrderAdds DEF LocationsAt
<1> HIDE DEF s, t, Is
<1>0. c \in Nat
  BY OrderAdds
<1>3. \A n \in 1 .. c : n \in 1 .. c + 1
  BY <1>0
<1>4. \A n \in 1 .. c : t[n] = s[n]
  BY <1>1, <1>2, <1>3, OrderAdds
<1>5. t[c + 1] = Is(x)
  <2>1. InOrder(S \cup {x})[c + 1] = x
    BY OrderAdds
  <2>2. c + 1 \in 1 .. c + 1
    BY <1>0
  <2>3. t[c + 1] = Is(InOrder(S \cup {x})[c + 1])
    <3> HIDE DEF c
    <3> QED BY <1>2, <2>2
  <2> QED BY <2>1, <2>3
<1>6. Lists(s, c) /\ Lists(t, c + 1)
  BY <1>1, <1>2 DEF Lists
<1> HIDE DEF c
<1>7. t = Append(s, Is(x))
  BY <1>0, <1>4, <1>5, <1>6, Appended
<1> QED BY <1>7 DEF s, t, Is

LEMMA ServersAdd ==
  ASSUME NEW f, NEW S \in SUBSET Nat, IsFiniteSet(S), NEW x \in Nat, \A s \in S : s < x
  PROVE  ServersAt(f, S \cup {x})
           = Append(ServersAt(f, S), Conf(OwnParams(f, x), WrittenLocations(f, x)))
<1> DEFINE c == Cardinality(S)
           Is(i) == Conf(OwnParams(f, i), WrittenLocations(f, i))
           s == ServersAt(f, S)
           t == ServersAt(f, S \cup {x})
<1>1. s = [n \in 1 .. c |-> Is(InOrder(S)[n])]
  BY DEF ServersAt
<1>2. t = [n \in 1 .. c + 1 |-> Is(InOrder(S \cup {x})[n])]
  BY OrderAdds DEF ServersAt
<1> HIDE DEF s, t, Is
<1>0. c \in Nat
  BY OrderAdds
<1>3. \A n \in 1 .. c : n \in 1 .. c + 1
  BY <1>0
<1>4. \A n \in 1 .. c : t[n] = s[n]
  BY <1>1, <1>2, <1>3, OrderAdds
<1>5. t[c + 1] = Is(x)
  <2>1. InOrder(S \cup {x})[c + 1] = x
    BY OrderAdds
  <2>2. c + 1 \in 1 .. c + 1
    BY <1>0
  <2>3. t[c + 1] = Is(InOrder(S \cup {x})[c + 1])
    <3> HIDE DEF c
    <3> QED BY <1>2, <2>2
  <2> QED BY <2>1, <2>3
<1>6. Lists(s, c) /\ Lists(t, c + 1)
  BY <1>1, <1>2 DEF Lists
<1> HIDE DEF c
<1>7. t = Append(s, Is(x))
  BY <1>0, <1>4, <1>5, <1>6, Appended
<1> QED BY <1>7 DEF s, t, Is

LEMMA NothingWritten ==
  ASSUME NEW f
  PROVE  LocationsAt(f, {}) = <<>> /\ ServersAt(f, {}) = <<>>
<1>1. Cardinality({}) = 0 /\ 1 .. 0 = {}
  BY FS_EmptySet
<1> QED BY <1>1 DEF LocationsAt, ServersAt

-----------------------------------------------------------------------------
(* What the file says is what is read: the blocks that are open            *)

\* The n-th of the open blocks, which line i has opened, as it is read before line m.
BlockAt(f, n, i, m) ==
  [kind   |-> IF n = 1 THEN "server" ELSE "location",
   url    |-> IF n = 1 THEN <<>> ELSE f[i].value,
   params |-> LastValues(f, OwnLines(f, i, m - 1)),
   routes |-> IF n = 1 THEN LocationsAt(f, Shut(f, 1, m) \cap (i + 1 .. m - 1)) ELSE <<>>]

\* No block of depth d closes at a line that leaves more blocks open, or as many as
\* there were.
LEMMA NoneShut ==
  ASSUME NEW f, DepthRules(f), Len(f) \in Nat, NEW p \in 1 .. Len(f), NEW d \in Nat,
         DepthBefore(f)[p + 1] > d \/ DepthBefore(f)[p + 1] >= DepthBefore(f)[p]
  PROVE  Shut(f, d, p + 1) = Shut(f, d, p)
<1> DEFINE D == DepthBefore(f)
<1>1. D[p] \in Nat /\ D[p + 1] \in Nat /\ p \in Nat
  BY DEF DepthRules
<1>2. ASSUME NEW i \in 1 .. p - 1, IsOpenAt(f, d + 1, i, p) PROVE ~(D[p + 1] <= d)
  <2>1. p \in i + 1 .. p
    BY <1>1
  <2>2. D[p] >= d + 1
    BY <1>2, <2>1 DEF IsOpenAt
  <2> QED BY <1>1, <2>2
<1>3. {i \in 1 .. p - 1 : IsOpenAt(f, d + 1, i, p) /\ D[p + 1] <= d} = {}
  BY <1>2
<1>4. Shut(f, d, p + 1)
        = Shut(f, d, p) \cup {i \in 1 .. p - 1 : IsOpenAt(f, d + 1, i, p) /\ D[p + 1] <= d}
  BY ShutGrows
<1> QED
  BY <1>3, <1>4

\* A line that closes the block line i has opened adds it to those that are closed.
LEMMA OneShut ==
  ASSUME NEW f, DepthRules(f), Len(f) \in Nat, NEW p \in 1 .. Len(f), NEW d \in Nat,
         NEW i, IsOpenAt(f, d + 1, i, p), DepthBefore(f)[p + 1] = d
  PROVE  Shut(f, d, p + 1) = Shut(f, d, p) \cup {i}
<1>1. \A j \in 1 .. p - 1 : IsOpenAt(f, d + 1, j, p) => j = i
  <2>1. p \in 1 .. Len(f) + 1
    OBVIOUS
  <2> QED BY <2>1, OneOpens
<1>2. i \in 1 .. p - 1 /\ DepthBefore(f)[p + 1] <= d
  BY DEF IsOpenAt
<1>3. {j \in 1 .. p - 1 : IsOpenAt(f, d + 1, j, p) /\ DepthBefore(f)[p + 1] <= d} = {i}
  BY <1>1, <1>2
<1>4. Shut(f, d, p + 1)
        = Shut(f, d, p)
            \cup {j \in 1 .. p - 1 : IsOpenAt(f, d + 1, j, p) /\ DepthBefore(f)[p + 1] <= d}
  BY ShutGrows
<1> QED
  BY <1>3, <1>4

LEMMA ServerShut ==
  ASSUME NEW f, DepthRules(f), Len(f) \in Nat, NEW p \in 1 .. Len(f), NEW i,
         IsOpenAt(f, 1, i, p), DepthBefore(f)[p + 1] = 0
  PROVE  Shut(f, 0, p + 1) = Shut(f, 0, p) \cup {i}
<1>1. IsOpenAt(f, 0 + 1, i, p)
  OBVIOUS
<1> QED
  BY <1>1, OneShut

\* The values of a block grow with a pair of its own depth, and with no other line.
LEMMA OwnLinesGrow ==
  ASSUME NEW f, DepthRules(f), Len(f) \in Nat, NEW p \in 1 .. Len(f), NEW n \in Nat, NEW i,
         IsOpenAt(f, n, i, p)
  PROVE  /\ DepthBefore(f)[p] = n /\ f[p].kind = "pair" =>
              OwnLines(f, i, p) = OwnLines(f, i, p - 1) \cup {p}
         /\ ~(DepthBefore(f)[p] = n /\ f[p].kind = "pair") =>
              OwnLines(f, i, p) = OwnLines(f, i, p - 1)
<1>1. i \in 1 .. p - 1 /\ DepthBefore(f)[i] + 1 = n /\ p \in Nat
  BY DEF IsOpenAt
<1>2. \A k : k \in i + 1 .. p <=> k \in i + 1 .. p - 1 \/ k = p
  BY <1>1
<1> QED
  BY <1>1, <1>2 DEF OwnLines

LEMMA SameBlock ==
  ASSUME NEW f, DepthRules(f), Len(f) \in Nat, NEW p \in 1 .. Len(f), NEW n \in Nat, NEW i,
         IsOpenAt(f, n, i, p), ~(DepthBefore(f)[p] = n /\ f[p].kind = "pair"),
         n = 1 => DepthBefore(f)[p + 1] > 1 \/ DepthBefore(f)[p + 1] >= DepthBefore(f)[p]
  PROVE  BlockAt(f, n, i, p + 1) = BlockAt(f, n, i, p)
<1>1. (p + 1) - 1 = p
  OBVIOUS
<1>2. OwnLines(f, i, p) = OwnLines(f, i, p - 1)
  BY OwnLinesGrow
<1>3. n = 1 => Shut(f, 1, p + 1) \cap (i + 1 .. p) = Shut(f, 1, p) \cap (i + 1 .. p - 1)
  <2>1. n = 1 => Shut(f, 1, p + 1) = Shut(f, 1, p)
    BY NoneShut
  <2>2. \A k \in Shut(f, 1, p) : k \in i + 1 .. p <=> k \in i + 1 .. p - 1
    BY DEF Shut
  <2> QED BY <2>1, <2>2
<1> QED
  BY <1>1, <1>2, <1>3 DEF BlockAt

\* A block that has just been opened is empty.
LEMMA NewBlock ==
  ASSUME NEW f, NEW p \in Nat, NEW n \in Nat
  PROVE  BlockAt(f, n, p, p + 1)
           = Block(IF n = 1 THEN "server" ELSE "location", IF n = 1 THEN <<>> ELSE f[p].value)
<1>1. (p + 1) - 1 = p /\ p + 1 .. p = {}
  OBVIOUS
<1>2. OwnLines(f, p, p) = {}
  BY <1>1 DEF OwnLines
<1>3. LastValues(f, OwnLines(f, p, p)) = NoParams
  BY <1>2, NoValues
<1>4. LocationsAt(f, Shut(f, 1, p + 1) \cap (p + 1 .. p)) = <<>>
  BY <1>1, NothingWritten
<1> QED
  BY <1>1, <1>3, <1>4 DEF BlockAt, Block

\* A pair is added to the innermost block.
LEMMA PairAdds ==
  ASSUME NEW f, DepthRules(f), Len(f) \in Nat, NEW p \in 1 .. Len(f), NEW n \in Nat, NEW i,
         IsOpenAt(f, n, i, p), DepthBefore(f)[p] = n, DepthBefore(f)[p + 1] = n,
         f[p].kind = "pair"
  PROVE  BlockAt(f, n, i, p + 1)
           = [BlockAt(f, n, i, p) EXCEPT !.params = AddKeyValue(@, f[p])]
<1>1. (p + 1) - 1 = p /\ p \in Nat
  OBVIOUS
<1>2. OwnLines(f, i, p) = OwnLines(f, i, p - 1) \cup {p}
  BY OwnLinesGrow
<1>3. OwnLines(f, i, p - 1) \in SUBSET Nat /\ \A k \in OwnLines(f, i, p - 1) : k < p
  BY DEF OwnLines, IsOpenAt
<1>4. LastValues(f, OwnLines(f, i, p)) = AddKeyValue(LastValues(f, OwnLines(f, i, p - 1)), f[p])
  BY <1>1, <1>2, <1>3, ValueAdds
<1>5. n = 1 => Shut(f, 1, p + 1) \cap (i + 1 .. p) = Shut(f, 1, p) \cap (i + 1 .. p - 1)
  <2>1. n = 1 => Shut(f, 1, p + 1) = Shut(f, 1, p)
    BY NoneShut
  <2>2. \A k \in Shut(f, 1, p) : k \in i + 1 .. p <=> k \in i + 1 .. p - 1
    BY DEF Shut
  <2> QED BY <2>1, <2>2
<1> DEFINE old == LastValues(f, OwnLines(f, i, p - 1))
           new == LastValues(f, OwnLines(f, i, p))
           before == Shut(f, 1, p) \cap (i + 1 .. p - 1)
           routes == IF n = 1 THEN LocationsAt(f, before) ELSE <<>>
           kind == IF n = 1 THEN "server" ELSE "location"
           url == IF n = 1 THEN <<>> ELSE f[i].value
<1>6. BlockAt(f, n, i, p) = [kind |-> kind, url |-> url, params |-> old, routes |-> routes]
  BY DEF BlockAt
<1>7. BlockAt(f, n, i, p + 1) = [kind |-> kind, url |-> url, params |-> new, routes |-> routes]
  BY <1>1, <1>5 DEF BlockAt
<1>8. new = AddKeyValue(old, f[p])
  BY <1>4
<1> HIDE DEF old, new, routes, kind, url
<1> QED
  BY <1>6, <1>7, <1>8

\* At the line that closes it a block has all its values.
LEMMA AllValues ==
  ASSUME NEW f, DepthRules(f), Len(f) \in Nat, NEW p \in 1 .. Len(f), NEW n \in Nat, NEW i,
         IsOpenAt(f, n, i, p), DepthBefore(f)[p + 1] = n - 1, f[p].kind = "close"
  PROVE  BlockAt(f, n, i, p).params = OwnParams(f, i)
<1>1. EndOf(f, i) = p
  BY EndIs
<1>2. OwnLines(f, i, p) = OwnLines(f, i, p - 1)
  BY OwnLinesGrow
<1> QED
  BY <1>1, <1>2 DEF BlockAt, OwnParams

\* A location inside a server is added to its routes, behind those that are there.
LEMMA RouteAdds ==
  ASSUME NEW f, DepthRules(f), Len(f) \in Nat, NEW p \in 1 .. Len(f), NEW o, NEW i,
         IsOpenAt(f, 1, o, p), IsOpenAt(f, 2, i, p), DepthBefore(f)[p + 1] = 1
  PROVE  LocationsAt(f, Shut(f, 1, p + 1) \cap (o + 1 .. p))
           = Append(LocationsAt(f, Shut(f, 1, p) \cap (o + 1 .. p - 1)),
                    SetRouteParam(f[i].value, OwnParams(f, i)))
<1> DEFINE D == DepthBefore(f)
           S == Shut(f, 1, p) \cap (o + 1 .. p - 1)
<1>1. /\ o \in 1 .. p - 1 /\ i \in 1 .. p - 1 /\ D[o] = 0 /\ D[i] = 1
      /\ \A k \in o + 1 .. p : D[k] >= 1
      /\ \A k \in i + 1 .. p : D[k] >= 2
  BY DEF IsOpenAt
<1>2. o < i
  <2>1. i < o => o \in i + 1 .. p
    BY <1>1
  <2> QED BY <1>1, <2>1
<1>3. Shut(f, 1, p + 1) = Shut(f, 1, p) \cup {i}
  BY OneShut
<1>4. \A j \in Shut(f, 1, p) : j < i /\ j \in 1 .. p - 1
  <2>1. p \in 1 .. Len(f) + 1
    OBVIOUS
  <2>2. \A j \in Shut(f, 1, p) : j < i
    BY <2>1, ShutComesFirst
  <2> QED BY <2>2 DEF Shut
<1>5. Shut(f, 1, p + 1) \cap (o + 1 .. p) = S \cup {i}
  <2>1. i \in o + 1 .. p
    BY <1>1, <1>2
  <2>2. \A j \in Shut(f, 1, p) : j \in o + 1 .. p <=> j \in o + 1 .. p - 1
    BY <1>1, <1>4
  <2> QED BY <1>3, <2>1, <2>2
<1>6. S \in SUBSET Nat /\ IsFiniteSet(S) /\ \A s \in S : s < i
  <2>1. S \in SUBSET (o + 1 .. p - 1)
    OBVIOUS
  <2>2. o + 1 \in Int /\ p - 1 \in Int /\ o + 1 .. p - 1 \subseteq Nat
    BY <1>1
  <2>3. IsFiniteSet(o + 1 .. p - 1)
    BY <2>2, FS_Interval
  <2>4. IsFiniteSet(S)
    BY <2>1, <2>3, FS_Subset
  <2> QED BY <1>4, <2>1, <2>2, <2>4
<1> HIDE DEF S
<1>7. LocationsAt(f, S \cup {i})
        = Append(LocationsAt(f, S), SetRouteParam(f[i].value, OwnParams(f, i)))
  BY <1>1, <1>6, LocationsAdd
<1> QED
  BY <1>5, <1>7 DEF S

\* The locations of a server are those that are closed where it is.
LEMMA AllLocations ==
  ASSUME NEW f, DepthRules(f), Len(f) \in Nat, NEW p \in 1 .. Len(f), NEW i,
         IsOpenAt(f, 1, i, p), DepthBefore(f)[p] = 1, DepthBefore(f)[p + 1] = 0,
         f[p].kind = "close"
  PROVE  BlockAt(f, 1, i, p).routes = WrittenLocations(f, i)
<1> DEFINE D == DepthBefore(f)
<1>1. EndOf(f, i) = p
  BY EndIs
<1>2. i \in 1 .. p - 1
  BY DEF IsOpenAt
<1>3. ASSUME NEW j \in OpeningLines(f, i + 1 .. p, 1)
      PROVE  j \in Shut(f, 1, p) /\ j \in i + 1 .. p - 1
  <2>1. j \in i + 1 .. p /\ D[j] = 1 /\ Opens(f[j], 1)
    BY DEF OpeningLines
  <2>2. j # p
    BY <2>1 DEF Opens
  <2>3. j \in 1 .. p - 1 /\ j \in i + 1 .. p - 1 /\ p \in j + 1 .. p
    BY <1>2, <2>1, <2>2
  <2> QED BY <2>1, <2>3 DEF Shut
<1>4. ASSUME NEW j \in Shut(f, 1, p), j \in i + 1 .. p - 1
      PROVE  j \in OpeningLines(f, i + 1 .. p, 1)
  <2>1. j \in i + 1 .. p
    BY <1>4
  <2> QED BY <2>1 DEF OpeningLines, Shut
<1>5. OpeningLines(f, i + 1 .. p, 1) = Shut(f, 1, p) \cap (i + 1 .. p - 1)
  BY <1>3, <1>4
<1> QED
  BY <1>1, <1>5 DEF BlockAt, WrittenLocations

\* A server that closes is added to those that are read.
LEMMA ServerAdds ==
  ASSUME NEW f, DepthRules(f), Len(f) \in Nat, NEW p \in 1 .. Len(f), NEW i,
         IsOpenAt(f, 1, i, p), DepthBefore(f)[p] = 1, DepthBefore(f)[p + 1] = 0,
         f[p].kind = "close"
  PROVE  ServersAt(f, Shut(f, 0, p + 1))
           = Append(ServersAt(f, Shut(f, 0, p)),
                    Conf(BlockAt(f, 1, i, p).params, BlockAt(f, 1, i, p).routes))
<1>1. BlockAt(f, 1, i, p).params = OwnParams(f, i)
  <2>1. DepthBefore(f)[p + 1] = 1 - 1
    OBVIOUS
  <2> QED BY <2>1, AllValues
<1>2. BlockAt(f, 1, i, p).routes = WrittenLocations(f, i)
  BY AllLocations
<1>3. Shut(f, 0, p + 1) = Shut(f, 0, p) \cup {i}
  BY ServerShut
<1>4. \A j \in Shut(f, 0, p) : j < i
  <2>1. p \in 1 .. Len(f) + 1 /\ IsOpenAt(f, 0 + 1, i, p)
    OBVIOUS
  <2> QED BY <2>1, ShutComesFirst
<1>5. Shut(f, 0, p) \in SUBSET Nat /\ IsFiniteSet(Shut(f, 0, p)) /\ i \in Nat
  <2>1. Shut(f, 0, p) \in SUBSET (1 .. p - 1)
    BY DEF Shut
  <2>2. 1 \in Int /\ p - 1 \in Int /\ 1 .. p - 1 \subseteq Nat
    OBVIOUS
  <2>3. IsFiniteSet(1 .. p - 1)
    BY <2>2, FS_Interval
  <2>4. IsFiniteSet(Shut(f, 0, p))
    BY <2>1, <2>3, FS_Subset
  <2> QED BY <2>1, <2>2, <2>4 DEF IsOpenAt
<1> QED
  BY <1>1, <1>2, <1>3, <1>4, <1>5, ServersAdd

\* A location that closes is added to the block around it.
LEMMA LocationCloses ==
  ASSUME NEW f, DepthRules(f), Len(f) \in Nat, NEW p \in 1 .. Len(f), NEW n \in Nat, n >= 2,
         NEW i, IsOpenAt(f, n, i, p), NEW o, IsOpenAt(f, n - 1, o, p),
         DepthBefore(f)[p] = n, DepthBefore(f)[p + 1] = n - 1, f[p].kind = "close"
  PROVE  BlockAt(f, n - 1, o, p + 1)
           = AddRoute(BlockAt(f, n - 1, o, p),
                      SetRouteParam(BlockAt(f, n, i, p).url, BlockAt(f, n, i, p).params))
<1>1. BlockAt(f, n, i, p).params = OwnParams(f, i) /\ BlockAt(f, n, i, p).url = f[i].value
  <2>1. BlockAt(f, n, i, p).params = OwnParams(f, i)
    BY AllValues
  <2> QED BY <2>1 DEF BlockAt
<1>2. CASE n # 2
  <2>1. BlockAt(f, n - 1, o, p + 1) = BlockAt(f, n - 1, o, p)
    BY <1>2, SameBlock
  <2>2. BlockAt(f, n - 1, o, p).kind = "location"
    BY <1>2 DEF BlockAt
  <2> QED BY <2>1, <2>2 DEF AddRoute
<1>3. CASE n = 2
  <2> DEFINE route == SetRouteParam(f[i].value, OwnParams(f, i))
             now == LocationsAt(f, Shut(f, 1, p) \cap (o + 1 .. p - 1))
             params == LastValues(f, OwnLines(f, o, p - 1))
             b == [kind |-> "server", url |-> <<>>, params |-> params, routes |-> now]
  <2>1. BlockAt(f, 1, o, p) = b
    BY DEF BlockAt
  <2>2. OwnLines(f, o, p) = OwnLines(f, o, p - 1)
    BY <1>3, OwnLinesGrow
  <2>3. LocationsAt(f, Shut(f, 1, p + 1) \cap (o + 1 .. p)) = Append(now, route)
    <3>1. n - 1 = 1
      BY <1>3
    <3>2. IsOpenAt(f, 1, o, p) /\ IsOpenAt(f, 2, i, p) /\ DepthBefore(f)[p + 1] = 1
      BY <1>3, <3>1
    <3> QED BY <3>2, RouteAdds
  <2>4. BlockAt(f, 1, o, p + 1)
          = [kind |-> "server", url |-> <<>>, params |-> params, routes |-> Append(now, route)]
    <3>1. (p + 1) - 1 = p
      OBVIOUS
    <3> QED BY <3>1, <2>2, <2>3 DEF BlockAt
  <2> HIDE DEF route, now, params
  <2>5. AddRoute(b, route)
          = [kind |-> "server", url |-> <<>>, params |-> params, routes |-> Append(now, route)]
    BY DEF AddRoute
  <2> HIDE DEF b
  <2> QED BY <1>1, <1>3, <2>1, <2>4, <2>5 DEF route
<1> QED
  BY <1>2, <1>3

-----------------------------------------------------------------------------
(* What the file says is what is read: the stack                           *)

LEMMA Pushed ==
  ASSUME NEW s, IsSequence(s), NEW e
  PROVE  /\ IsSequence(Append(s, e)) /\ Len(Append(s, e)) = Len(s) + 1 /\ Len(s) \in Nat
         /\ \A n \in 1 .. Len(s) : Append(s, e)[n] = s[n]
         /\ Append(s, e)[Len(s) + 1] = e
<1>1. PICK S : s \in Seq(S)
  BY DEF IsSequence
<1>2. s \in Seq(S \cup {e}) /\ e \in S \cup {e}
  BY <1>1
<1>3. Append(s, e) \in Seq(S \cup {e}) /\ Len(s) \in Nat
  BY <1>2
<1> QED
  BY <1>2, <1>3, AppendProperties DEF IsSequence

LEMMA Popped ==
  ASSUME NEW s, IsSequence(s), Len(s) \in Nat \ {0}
  PROVE  /\ IsSequence(Front(s)) /\ Len(Front(s)) = Len(s) - 1
         /\ \A n \in 1 .. Len(s) - 1 : Front(s)[n] = s[n]
<1>1. PICK S : s \in Seq(S)
  BY DEF IsSequence
<1>2. 1 \in Int /\ Len(s) - 1 \in Int /\ \A n \in 1 .. Len(s) - 1 : n \in 1 .. Len(s) /\ s[n] \in S
  BY <1>1
<1>3. /\ Front(s) \in Seq(S)
      /\ Len(Front(s)) = IF 1 <= Len(s) - 1 THEN (Len(s) - 1) - 1 + 1 ELSE 0
      /\ \A n \in 1 .. (Len(s) - 1) - 1 + 1 : Front(s)[n] = s[1 + n - 1]
  BY <1>2, SubSeqProperties DEF Front
<1>4. (Len(s) - 1) - 1 + 1 = Len(s) - 1 /\ \A n \in 1 .. Len(s) - 1 : 1 + n - 1 = n
  OBVIOUS
<1>5. IsSequence(Front(s))
  BY <1>3 DEF IsSequence
<1>6. Len(Front(s)) = Len(s) - 1
  <2>1. ASSUME NEW k \in Nat \ {0} PROVE (IF 1 <= k - 1 THEN (k - 1) - 1 + 1 ELSE 0) = k - 1
    OBVIOUS
  <2> QED BY <1>3, <2>1
<1>7. ASSUME NEW n \in 1 .. Len(s) - 1 PROVE Front(s)[n] = s[n]
  <2>1. n \in 1 .. (Len(s) - 1) - 1 + 1
    BY <1>4
  <2>2. Front(s)[n] = s[1 + n - 1]
    BY <1>3, <2>1
  <2> QED BY <1>4, <2>2
<1> QED
  BY <1>5, <1>6, <1>7

Put(s, n, e) == [s EXCEPT ![n] = e]

LEMMA Changed ==
  ASSUME NEW s, IsSequence(s), Len(s) \in Nat, NEW n \in 1 .. Len(s), NEW e
  PROVE  /\ IsSequence(Put(s, n, e)) /\ Len(Put(s, n, e)) = Len(s) /\ Put(s, n, e)[n] = e
         /\ \A k \in 1 .. Len(s) : k # n => Put(s, n, e)[k] = s[k]
<1>1. PICK S : s \in Seq(S)
  BY DEF IsSequence
<1>2. s \in Seq(S \cup {e}) /\ e \in S \cup {e}
  BY <1>1
<1>3. /\ Put(s, n, e) \in Seq(S \cup {e}) /\ Len(Put(s, n, e)) = Len(s)
      /\ \A k \in 1 .. Len(s) : Put(s, n, e)[k] = IF k = n THEN e ELSE s[k]
  BY <1>2, ExceptSeq DEF Put
<1> QED
  BY <1>3 DEF IsSequence

\* The stack holds the blocks that are open before line m, as they are read until then.
Stack(s, f, m) ==
  /\ IsSequence(s) /\ Len(s) = DepthBefore(f)[m]
  /\ \A n \in 1 .. Len(s) : \E i : IsOpenAt(f, n, i, m) /\ s[n] = BlockAt(f, n, i, m)

\* A line that is no brace and no pair leaves it as it is, and so does a pair outside.
LEMMA StackStays ==
  ASSUME NEW f, DepthRules(f), Len(f) \in Nat, NEW p \in 1 .. Len(f), NEW s, Stack(s, f, p),
         DepthBefore(f)[p + 1] = DepthBefore(f)[p],
         f[p].kind # "pair" \/ DepthBefore(f)[p] = 0
  PROVE  Stack(s, f, p + 1)
<1>1. DepthBefore(f)[p] \in Nat /\ Len(s) = DepthBefore(f)[p] /\ IsSequence(s)
  BY DEF DepthRules, Stack
<1>2. ASSUME NEW n \in 1 .. Len(s)
      PROVE  \E i : IsOpenAt(f, n, i, p + 1) /\ s[n] = BlockAt(f, n, i, p + 1)
  <2>1. PICK i : IsOpenAt(f, n, i, p) /\ s[n] = BlockAt(f, n, i, p)
    BY DEF Stack
  <2>2. n \in Nat /\ n <= DepthBefore(f)[p] /\ ~(DepthBefore(f)[p] = n /\ f[p].kind = "pair")
    BY <1>1
  <2>3. IsOpenAt(f, n, i, p + 1)
    BY <2>1, <2>2, <1>1, StaysOpen
  <2>4. BlockAt(f, n, i, p + 1) = BlockAt(f, n, i, p)
    BY <2>1, <2>2, <1>1, SameBlock
  <2> QED BY <2>1, <2>3, <2>4
<1> QED
  BY <1>1, <1>2 DEF Stack

LEMMA StackGrows ==
  ASSUME NEW f, DepthRules(f), Len(f) \in Nat, NEW p \in 1 .. Len(f), NEW s, Stack(s, f, p),
         Opens(f[p], DepthBefore(f)[p])
  PROVE  Stack(Append(s, IF DepthBefore(f)[p] = 0 THEN Block("server", <<>>)
                         ELSE Block("location", f[p].value)),
               f, p + 1)
<1> DEFINE D == DepthBefore(f)
           e == IF D[p] = 0 THEN Block("server", <<>>) ELSE Block("location", f[p].value)
           t == Append(s, e)
<1>1. /\ D[p] \in Nat /\ Len(s) = D[p] /\ IsSequence(s) /\ D[p + 1] = D[p] + 1
      /\ f[p].kind # "pair"
  <2>1. D[p] \in Nat /\ D[p + 1] = Step(f[p], D[p])
    BY DEF DepthRules
  <2>2. D[p + 1] = D[p] + 1
    BY <2>1, Steps
  <2>3. f[p].kind # "pair"
    BY DEF Opens
  <2> QED BY <2>1, <2>2, <2>3 DEF Stack
<1>2. /\ IsSequence(t) /\ Len(t) = D[p] + 1 /\ t[D[p] + 1] = e
      /\ \A n \in 1 .. D[p] : t[n] = s[n]
  <2> HIDE DEF e
  <2> QED BY <1>1, Pushed
<1>3. ASSUME NEW n \in 1 .. D[p]
      PROVE  \E i : IsOpenAt(f, n, i, p + 1) /\ t[n] = BlockAt(f, n, i, p + 1)
  <2>1. PICK i : IsOpenAt(f, n, i, p) /\ s[n] = BlockAt(f, n, i, p)
    BY <1>1 DEF Stack
  <2>2. n \in Nat /\ D[p + 1] >= n /\ D[p + 1] >= D[p]
    BY <1>1
  <2>3. IsOpenAt(f, n, i, p + 1)
    BY <2>1, <2>2, StaysOpen
  <2>4. BlockAt(f, n, i, p + 1) = BlockAt(f, n, i, p)
    BY <2>1, <2>2, <1>1, SameBlock
  <2> QED BY <1>2, <2>1, <2>3, <2>4
<1>4. IsOpenAt(f, D[p] + 1, p, p + 1) /\ t[D[p] + 1] = BlockAt(f, D[p] + 1, p, p + 1)
  <2>1. IsOpenAt(f, D[p] + 1, p, p + 1)
    <3>1. p \in 1 .. (p + 1) - 1 /\ (D[p] + 1) - 1 = D[p] /\ p + 1 .. p + 1 = {p + 1}
      BY <1>1
    <3> QED BY <1>1, <3>1 DEF IsOpenAt
  <2>2. BlockAt(f, D[p] + 1, p, p + 1) = e
    <3>1. p \in Nat /\ D[p] + 1 \in Nat /\ (D[p] + 1 = 1 <=> D[p] = 0)
      BY <1>1
    <3>2. BlockAt(f, D[p] + 1, p, p + 1)
            = Block(IF D[p] + 1 = 1 THEN "server" ELSE "location",
                    IF D[p] + 1 = 1 THEN <<>> ELSE f[p].value)
      BY <3>1, NewBlock
    <3> QED BY <3>1, <3>2
  <2> QED BY <1>2, <2>1, <2>2
<1>5. \A n \in 1 .. D[p] + 1 : n \in 1 .. D[p] \/ n = D[p] + 1
  BY <1>1
<1> HIDE DEF e, t
<1>6. Stack(t, f, p + 1)
  BY <1>1, <1>2, <1>3, <1>4, <1>5 DEF Stack
<1> QED
  BY <1>6 DEF t, e

LEMMA StackTakesPair ==
  ASSUME NEW f, DepthRules(f), Len(f) \in Nat, NEW p \in 1 .. Len(f), NEW s, Stack(s, f, p),
         f[p].kind = "pair", Len(s) # 0
  PROVE  Stack(Put(s, Len(s), [s[Len(s)] EXCEPT !.params = AddKeyValue(@, f[p])]), f, p + 1)
<1> DEFINE D == DepthBefore(f)
           L == D[p]
           e == [s[L] EXCEPT !.params = AddKeyValue(@, f[p])]
           t == Put(s, L, e)
<1>1. L \in Nat \ {0} /\ Len(s) = L /\ IsSequence(s) /\ D[p + 1] = L
  <2>1. L \in Nat /\ D[p + 1] = Step(f[p], L)
    BY DEF DepthRules
  <2>2. ~Opens(f[p], L) /\ ~Closes(f[p], L)
    BY DEF Opens, Closes
  <2>3. D[p + 1] = L
    BY <2>1, <2>2, Steps
  <2> QED BY <2>1, <2>3 DEF Stack
<1>2. /\ IsSequence(t) /\ Len(t) = L /\ t[L] = e
      /\ \A n \in 1 .. L : n # L => t[n] = s[n]
  <2>1. L \in 1 .. Len(s) /\ Len(s) \in Nat
    BY <1>1
  <2> HIDE DEF e, L
  <2> QED BY <1>1, <2>1, Changed
<1>3. ASSUME NEW n \in 1 .. L
      PROVE  \E i : IsOpenAt(f, n, i, p + 1) /\ t[n] = BlockAt(f, n, i, p + 1)
  <2>1. PICK i : IsOpenAt(f, n, i, p) /\ s[n] = BlockAt(f, n, i, p)
    BY <1>1 DEF Stack
  <2>2. n \in Nat /\ D[p + 1] >= n /\ D[p + 1] >= D[p]
    BY <1>1
  <2>3. IsOpenAt(f, n, i, p + 1)
    BY <2>1, <2>2, StaysOpen
  <2>4. CASE n # L
    <3>1. BlockAt(f, n, i, p + 1) = BlockAt(f, n, i, p)
      BY <2>1, <2>2, <2>4, <1>1, SameBlock
    <3> QED BY <1>2, <2>1, <2>3, <2>4, <3>1
  <2>5. CASE n = L
    <3>1. BlockAt(f, n, i, p + 1) = [BlockAt(f, n, i, p) EXCEPT !.params = AddKeyValue(@, f[p])]
      BY <2>1, <2>2, <2>5, <1>1, PairAdds
    <3>2. BlockAt(f, n, i, p + 1) = e
      BY <2>1, <2>5, <3>1
    <3> HIDE DEF e
    <3> QED BY <1>2, <2>3, <2>5, <3>2
  <2> QED BY <2>4, <2>5
<1> HIDE DEF t
<1>4. Stack(t, f, p + 1)
  BY <1>1, <1>2, <1>3 DEF Stack
<1> QED
  BY <1>1, <1>4 DEF t

LEMMA StackCloses ==
  ASSUME NEW f, DepthRules(f), Len(f) \in Nat, NEW p \in 1 .. Len(f), NEW s, Stack(s, f, p),
         f[p].kind = "close", Len(s) >= 2
  PROVE  Stack(Put(Front(s), Len(s) - 1,
                   AddRoute(Front(s)[Len(s) - 1],
                            SetRouteParam(s[Len(s)].url, s[Len(s)].params))),
               f, p + 1)
<1> DEFINE D == DepthBefore(f)
           L == D[p]
           u == Front(s)
           e == AddRoute(u[L - 1], SetRouteParam(s[L].url, s[L].params))
           t == Put(u, L - 1, e)
<1>1. L \in Nat /\ L >= 2 /\ Len(s) = L /\ IsSequence(s) /\ D[p + 1] = L - 1
  <2>1. L \in Nat /\ D[p + 1] = Step(f[p], L) /\ Len(s) = L /\ IsSequence(s)
    BY DEF DepthRules, Stack
  <2>2. Closes(f[p], L)
    BY <2>1 DEF Closes
  <2>3. D[p + 1] = L - 1
    BY <2>1, <2>2, Steps
  <2> QED BY <2>1, <2>3
<1>2. /\ IsSequence(u) /\ Len(u) = L - 1 /\ L - 1 \in Nat /\ L - 1 \in 1 .. L - 1
      /\ L \in 1 .. L /\ \A n \in 1 .. L - 1 : n \in 1 .. L /\ u[n] = s[n]
  <2>1. Len(s) \in Nat \ {0}
    BY <1>1
  <2>2. IsSequence(u) /\ Len(u) = Len(s) - 1 /\ \A n \in 1 .. Len(s) - 1 : u[n] = s[n]
    BY <1>1, <2>1, Popped
  <2> HIDE DEF u
  <2> QED BY <1>1, <2>2
<1>3. /\ IsSequence(t) /\ Len(t) = L - 1 /\ t[L - 1] = e
      /\ \A n \in 1 .. L - 1 : n # L - 1 => t[n] = s[n]
  <2>1. L - 1 \in 1 .. Len(u) /\ Len(u) \in Nat
    BY <1>2
  <2> HIDE DEF e, L, u
  <2>2. /\ IsSequence(t) /\ Len(t) = Len(u) /\ t[L - 1] = e
        /\ \A n \in 1 .. Len(u) : n # L - 1 => t[n] = u[n]
    BY <1>2, <2>1, Changed
  <2> HIDE DEF t
  <2> QED BY <1>2, <2>2
<1>4. PICK i : IsOpenAt(f, L, i, p) /\ s[L] = BlockAt(f, L, i, p)
  BY <1>1, <1>2 DEF Stack
<1>5. ASSUME NEW n \in 1 .. L - 1
      PROVE  \E o : IsOpenAt(f, n, o, p + 1) /\ t[n] = BlockAt(f, n, o, p + 1)
  <2>1. PICK o : IsOpenAt(f, n, o, p) /\ s[n] = BlockAt(f, n, o, p)
    BY <1>1, <1>2 DEF Stack
  <2>2. n \in Nat /\ D[p + 1] >= n /\ n # L
    BY <1>1
  <2>3. IsOpenAt(f, n, o, p + 1)
    BY <2>1, <2>2, StaysOpen
  <2>4. CASE n # L - 1
    <3>1. n = 1 => D[p + 1] > 1
      BY <1>1, <2>4, <2>2
    <3>2. BlockAt(f, n, o, p + 1) = BlockAt(f, n, o, p)
      BY <2>1, <2>2, <3>1, SameBlock
    <3> QED BY <1>3, <2>1, <2>3, <2>4, <3>2
  <2>5. CASE n = L - 1
    <3>1. BlockAt(f, L - 1, o, p + 1)
            = AddRoute(BlockAt(f, L - 1, o, p),
                       SetRouteParam(BlockAt(f, L, i, p).url, BlockAt(f, L, i, p).params))
      BY <1>1, <1>4, <2>1, <2>5, LocationCloses
    <3>2. u[L - 1] = BlockAt(f, L - 1, o, p)
      BY <1>2, <2>1, <2>5
    <3>3. BlockAt(f, n, o, p + 1) = e
      BY <1>4, <2>5, <3>1, <3>2
    <3> HIDE DEF e
    <3> QED BY <1>3, <2>3, <2>5, <3>3
  <2> QED BY <2>4, <2>5
<1> HIDE DEF t
<1>6. Stack(t, f, p + 1)
  BY <1>1, <1>3, <1>5 DEF Stack
<1> QED
  BY <1>1, <1>6 DEF t

-----------------------------------------------------------------------------
(* What the file says is what is read                                      *)

\* What has been read of a file before line m: its open blocks and its servers.  No
\* block that is read is one for which the file would be refused.
Read(f, m, s, confs) ==
  /\ m \in 1 .. Len(f) + 1
  /\ Stack(s, f, m)
  /\ confs = ServersAt(f, Shut(f, 0, m))
  /\ \A i \in Shut(f, 0, m) : IsValidServer(OwnParams(f, i))
  /\ \A i \in 1 .. m - 1 :
       DepthBefore(f)[i] # 0 /\ Opens(f[i], DepthBefore(f)[i]) => f[i].value # NoPathWritten

ParserInv ==
  /\ file \in Files
  /\ phase = "parsing" => Read(file, at, open, configs)
  /\ phase = "checking" => IsValidFile(file) /\ configs = Written(file)
  /\ phase = "refused" => ~(IsValidFile(file) /\ Written(file) # <<>>)

\* Nothing is read of a file at its first line.
LEMMA NothingRead ==
  ASSUME NEW f, DepthRules(f), Len(f) \in Nat
  PROVE  Read(f, 1, <<>>, <<>>)
<1>1. \A d \in Nat : Shut(f, d, 1) = {}
  BY DEF Shut
<1>2. ServersAt(f, Shut(f, 0, 1)) = <<>>
  BY <1>1, NothingWritten
<1>3. Stack(<<>>, f, 1)
  <2>1. <<>> \in Seq({}) /\ Len(<<>>) = 0 /\ 1 .. 0 = {}
    OBVIOUS
  <2> QED BY <2>1 DEF Stack, IsSequence, DepthRules
<1>4. 1 \in 1 .. Len(f) + 1 /\ 1 .. 1 - 1 = {}
  OBVIOUS
<1> QED
  BY <1>1, <1>2, <1>3, <1>4 DEF Read

\* A line that closes no server leaves the servers as they are.
LEMMA ReadOn ==
  ASSUME NEW f, DepthRules(f), Len(f) \in Nat, NEW p \in 1 .. Len(f), NEW s, NEW t, NEW confs,
         Read(f, p, s, confs), Stack(t, f, p + 1),
         DepthBefore(f)[p + 1] > 0 \/ DepthBefore(f)[p + 1] >= DepthBefore(f)[p],
         DepthBefore(f)[p] # 0 /\ Opens(f[p], DepthBefore(f)[p]) => f[p].value # NoPathWritten
  PROVE  Read(f, p + 1, t, confs)
<1>1. Shut(f, 0, p + 1) = Shut(f, 0, p)
  BY NoneShut
<1>2. p + 1 \in 1 .. Len(f) + 1 /\ (p + 1) - 1 = p /\ \A i \in 1 .. p : i \in 1 .. p - 1 \/ i = p
  OBVIOUS
<1> QED
  BY <1>1, <1>2 DEF Read

\* A server whose values are valid is read.
LEMMA ReadServer ==
  ASSUME NEW f, DepthRules(f), Len(f) \in Nat, DOMAIN f = 1 .. Len(f),
         NEW p \in 1 .. Len(f), NEW s, NEW confs, Read(f, p, s, confs), f[p].kind = "close", Len(s) = 1
  PROVE  /\ IsValidServer(s[1].params) =>
              Read(f, p + 1, <<>>, Append(confs, Conf(s[1].params, s[1].routes)))
         /\ ~IsValidServer(s[1].params) => ~IsValidFile(f)
<1> DEFINE D == DepthBefore(f)
<1>1. D[p] = 1 /\ D[p + 1] = 0 /\ ~Opens(f[p], D[p])
  <2>1. D[p] = 1 /\ D[p + 1] = Step(f[p], D[p])
    BY DEF DepthRules, Read, Stack
  <2>2. Closes(f[p], 1) /\ ~Opens(f[p], 1)
    BY DEF Closes, Opens
  <2> QED BY <2>1, <2>2, Steps
<1>2. PICK i : IsOpenAt(f, 1, i, p) /\ s[1] = BlockAt(f, 1, i, p)
  <2>1. 1 \in 1 .. Len(s)
    OBVIOUS
  <2> QED BY <2>1 DEF Read, Stack
<1>3. s[1].params = OwnParams(f, i)
  <2>1. D[p + 1] = 1 - 1
    BY <1>1
  <2>2. BlockAt(f, 1, i, p).params = OwnParams(f, i)
    BY <1>2, <2>1, AllValues
  <2> QED BY <1>2, <2>2
<1>4. ASSUME IsValidServer(s[1].params)
      PROVE  Read(f, p + 1, <<>>, Append(confs, Conf(s[1].params, s[1].routes)))
  <2>1. ServersAt(f, Shut(f, 0, p + 1)) = Append(confs, Conf(s[1].params, s[1].routes))
    BY <1>1, <1>2, ServerAdds DEF Read
  <2>2. Shut(f, 0, p + 1) = Shut(f, 0, p) \cup {i}
    BY <1>1, <1>2, ServerShut
  <2>3. \A j \in Shut(f, 0, p + 1) : IsValidServer(OwnParams(f, j))
    BY <1>3, <1>4, <2>2 DEF Read
  <2>4. Stack(<<>>, f, p + 1)
    <3>1. <<>> \in Seq({}) /\ Len(<<>>) = 0 /\ 1 .. 0 = {}
      OBVIOUS
    <3> QED BY <1>1, <3>1 DEF Stack, IsSequence
  <2>5. p + 1 \in 1 .. Len(f) + 1 /\ (p + 1) - 1 = p /\ \A j \in 1 .. p : j \in 1 .. p - 1 \/ j = p
    OBVIOUS
  <2> QED BY <1>1, <2>1, <2>3, <2>4, <2>5 DEF Read
<1>5. ASSUME ~IsValidServer(s[1].params) PROVE ~IsValidFile(f)
  <2>1. D[i] = 0 /\ Opens(f[i], 0) /\ i \in 1 .. Len(f)
    BY <1>2 DEF IsOpenAt
  <2> QED BY <1>3, <1>5, <2>1 DEF IsValidFile
<1> QED
  BY <1>4, <1>5

\* Where no block is open at the end, and a server is written, the file is read as it is.
LEMMA AllRead ==
  ASSUME NEW f, DepthRules(f), Len(f) \in Nat, DOMAIN f = 1 .. Len(f), NEW s, NEW confs,
         Read(f, Len(f) + 1, s, confs)
  PROVE  /\ s # <<>> => ~IsValidFile(f)
         /\ s = <<>> => IsValidFile(f) /\ confs = Written(f)
<1> DEFINE D == DepthBefore(f)
           m == Len(f) + 1
<1>1. Len(s) = D[m] /\ IsSequence(s) /\ D[m] \in Nat
  BY DEF Read, Stack, DepthRules
<1>2. s = <<>> <=> D[m] = 0
  <2>1. PICK S : s \in Seq(S)
    BY <1>1 DEF IsSequence
  <2>2. s = <<>> <=> Len(s) = 0
    BY <2>1
  <2> QED BY <1>1, <2>2
<1>3. ASSUME s # <<>> PROVE ~IsValidFile(f)
  BY <1>2, <1>3 DEF IsValidFile, IsBalanced
<1>4. ASSUME s = <<>> PROVE IsValidFile(f) /\ confs = Written(f)
  <2>1. \A i : i \in Shut(f, 0, m) <=> i \in 1 .. Len(f) /\ D[i] = 0 /\ Opens(f[i], 0)
    <3>1. m - 1 = Len(f)
      OBVIOUS
    <3>2. \A i \in 1 .. Len(f) : m \in i + 1 .. m
      OBVIOUS
    <3>3. D[m] <= 0
      BY <1>2, <1>4
    <3> HIDE DEF m, D
    <3> QED BY <3>1, <3>2, <3>3 DEF Shut, D
  <2>2. Shut(f, 0, m) = OpeningLines(f, DOMAIN f, 0)
    BY <2>1 DEF OpeningLines
  <2>3. confs = Written(f)
    BY <2>2 DEF Read, Written
  <2>4. ASSUME NEW i \in DOMAIN f, Opens(f[i], D[i]), D[i] = 0
        PROVE  IsValidServer(OwnParams(f, i))
    BY <2>1, <2>4 DEF Read
  <2>5. ASSUME NEW i \in DOMAIN f, Opens(f[i], D[i]), D[i] # 0
        PROVE  f[i].value # NoPathWritten
    <3>1. i \in 1 .. m - 1
      OBVIOUS
    <3> QED BY <2>5, <3>1 DEF Read
  <2>6. IsValidFile(f)
    BY <1>2, <1>4, <2>4, <2>5 DEF IsValidFile, IsBalanced
  <2> QED BY <2>3, <2>6
<1> QED
  BY <1>3, <1>4

\* What the assumption on the files gives for the one that is read.
LEMMA FileIs ==
  ASSUME file \in Files
  PROVE  /\ Len(file) \in Nat /\ DOMAIN file = 1 .. Len(file) /\ DepthRules(file)
  BY FilesAssumption, DepthIs

LEMMA LineIs ==
  ASSUME ParserInv, Reading, phase = "parsing"
  PROVE  /\ file' = file /\ at' = at + 1 /\ at \in 1 .. Len(file)
         /\ Len(file) \in Nat /\ DOMAIN file = 1 .. Len(file) /\ DepthRules(file)
         /\ Read(file, at, open, configs)
         /\ Stack(open, file, at) /\ IsSequence(open) /\ Len(open) = DepthBefore(file)[at]
         /\ DepthBefore(file)[at] \in Nat /\ (open = <<>> <=> Len(open) = 0)
         /\ DepthBefore(file)[at + 1] = Step(file[at], DepthBefore(file)[at])
<1>1. file' = file /\ at' = at + 1 /\ at <= Len(file)
  BY DEF Reading
<1>2. Read(file, at, open, configs) /\ file \in Files
  BY DEF ParserInv
<1>3. Len(file) \in Nat /\ DOMAIN file = 1 .. Len(file) /\ DepthRules(file)
  BY <1>2, FileIs
<1>4. at \in 1 .. Len(file) /\ at \in 1 .. Len(file) + 1
  BY <1>1, <1>2, <1>3 DEF Read
<1>5. Stack(open, file, at) /\ IsSequence(open) /\ Len(open) = DepthBefore(file)[at]
  BY <1>2 DEF Read, Stack
<1>6. /\ DepthBefore(file)[at] \in Nat
      /\ DepthBefore(file)[at + 1] = Step(file[at], DepthBefore(file)[at])
  BY <1>3, <1>4 DEF DepthRules
<1>7. open = <<>> <=> Len(open) = 0
  <2>1. PICK S : open \in Seq(S)
    BY <1>5 DEF IsSequence
  <2> QED BY <2>1
<1> QED
  BY <1>1, <1>2, <1>3, <1>4, <1>5, <1>6, <1>7

\* A line after which the file is read on.
LEMMA ParsesOn ==
  ASSUME ParserInv, phase = "parsing", phase' = "parsing", file' = file,
         Read(file, at', open', configs')
  PROVE  ParserInv'
  BY DEF ParserInv

LEMMA ParseSkipLine ==
  ASSUME ParserInv, SkipLine
  PROVE  ParserInv'
<1>1. Reading /\ GoOn /\ open' = open /\ phase = "parsing"
  BY DEF SkipLine, Reading
<1> DEFINE D == DepthBefore(file)
<1>2. D[at + 1] = D[at] /\ (file[at].kind # "pair" \/ D[at] = 0) /\ ~Opens(file[at], D[at])
  <2>1. /\ D[at] = 0 => file[at].kind # "server"
        /\ D[at] # 0 => file[at].kind \in {"server", "other"}
    BY <1>1, LineIs DEF SkipLine, Line
  <2>2. ~Opens(file[at], D[at]) /\ ~Closes(file[at], D[at])
    BY <1>1, <2>1, LineIs DEF Opens, Closes
  <2>3. D[at + 1] = D[at]
    BY <1>1, <2>2, LineIs, Steps
  <2> QED BY <2>1, <2>2, <2>3
<1>3. Stack(open, file, at + 1)
  BY <1>1, <1>2, LineIs, StackStays
<1>4. Read(file, at + 1, open, configs)
  <2>1. D[at] \in Nat /\ D[at + 1] >= D[at]
    BY <1>1, <1>2, LineIs
  <2> QED BY <1>1, <1>2, <1>3, <2>1, LineIs, ReadOn
<1> QED
  BY <1>1, <1>4, LineIs, ParsesOn DEF GoOn

LEMMA ParseParseServerBlock ==
  ASSUME ParserInv, ParseServerBlock
  PROVE  ParserInv'
<1>1. /\ Reading /\ GoOn /\ phase = "parsing"
      /\ open = <<>> /\ file[at].kind = "server" /\ open' = <<Block("server", <<>>)>>
  BY DEF ParseServerBlock, Reading, Line
<1> DEFINE D == DepthBefore(file)
<1>2. D[at] = 0 /\ Opens(file[at], D[at]) /\ D[at + 1] = 1
  <2>1. D[at] = 0 /\ D[at + 1] = Step(file[at], D[at])
    BY <1>1, LineIs
  <2>2. Opens(file[at], 0)
    BY <1>1 DEF Opens
  <2> QED BY <2>1, <2>2, Steps
<1>3. Stack(open', file, at + 1)
  <2>1. Stack(Append(open, IF D[at] = 0 THEN Block("server", <<>>)
                           ELSE Block("location", file[at].value)), file, at + 1)
    BY <1>1, <1>2, LineIs, StackGrows
  <2>2. Append(<<>>, Block("server", <<>>)) = <<Block("server", <<>>)>>
    OBVIOUS
  <2> QED BY <1>1, <1>2, <2>1, <2>2
<1>4. Read(file, at + 1, open', configs)
  BY <1>1, <1>2, <1>3, LineIs, ReadOn
<1> QED
  BY <1>1, <1>4, LineIs, ParsesOn DEF GoOn

LEMMA ParseParseLocationBlock ==
  ASSUME ParserInv, ParseLocationBlock
  PROVE  ParserInv'
<1>1. Reading /\ phase = "parsing" /\ open # <<>> /\ file[at].kind = "location"
  BY DEF ParseLocationBlock, Reading, Line
<1> DEFINE D == DepthBefore(file)
<1>2. D[at] # 0 /\ Opens(file[at], D[at]) /\ D[at + 1] = D[at] + 1 /\ D[at] \in Nat
  <2>1. D[at] # 0 /\ D[at + 1] = Step(file[at], D[at]) /\ D[at] \in Nat
    BY <1>1, LineIs
  <2>2. Opens(file[at], D[at])
    BY <1>1, <2>1 DEF Opens
  <2> QED BY <2>1, <2>2, Steps
<1>3. CASE file[at].value = NoPathWritten
  <2>1. Refuse /\ file' = file
    BY <1>1, <1>3, LineIs DEF ParseLocationBlock, Line
  <2>2. at \in DOMAIN file
    BY <1>1, LineIs
  <2>3. ~IsValidFile(file)
    BY <1>2, <1>3, <2>2 DEF IsValidFile
  <2> QED BY <2>1, <2>3 DEF ParserInv, Refuse
<1>4. CASE file[at].value # NoPathWritten
  <2>1. GoOn /\ open' = Append(open, Block("location", file[at].value))
    BY <1>4 DEF ParseLocationBlock, Line
  <2>2. Stack(open', file, at + 1)
    <3>1. Stack(Append(open, IF D[at] = 0 THEN Block("server", <<>>)
                             ELSE Block("location", file[at].value)), file, at + 1)
      BY <1>1, <1>2, LineIs, StackGrows
    <3> QED BY <1>2, <2>1, <3>1
  <2>3. D[at + 1] >= D[at]
    BY <1>2
  <2>4. Read(file, at + 1, open', configs)
    BY <1>1, <1>4, <2>2, <2>3, LineIs, ReadOn
  <2> QED BY <1>1, <2>1, <2>4, LineIs, ParsesOn DEF GoOn
<1> QED
  BY <1>3, <1>4

LEMMA ParseAddLineAsKeyValue ==
  ASSUME ParserInv, AddLineAsKeyValue
  PROVE  ParserInv'
<1>1. /\ Reading /\ GoOn /\ phase = "parsing" /\ open # <<>> /\ file[at].kind = "pair"
  BY DEF AddLineAsKeyValue, Reading, Line
<1> DEFINE D == DepthBefore(file)
<1>2. open' = Put(open, Len(open), [open[Len(open)] EXCEPT !.params = AddKeyValue(@, file[at])])
  BY DEF AddLineAsKeyValue, Put, Line
<1>3. D[at] # 0 /\ D[at + 1] = D[at] /\ D[at] \in Nat /\ ~Opens(file[at], D[at])
  <2>1. D[at] # 0 /\ D[at + 1] = Step(file[at], D[at]) /\ D[at] \in Nat
    BY <1>1, LineIs
  <2>2. ~Opens(file[at], D[at]) /\ ~Closes(file[at], D[at])
    BY <1>1 DEF Opens, Closes
  <2> QED BY <2>1, <2>2, Steps
<1>4. Stack(open', file, at + 1)
  BY <1>1, <1>2, LineIs, StackTakesPair
<1>5. Read(file, at + 1, open', configs)
  <2>1. D[at + 1] >= D[at]
    BY <1>3
  <2> QED BY <1>1, <1>3, <1>4, <2>1, LineIs, ReadOn
<1> QED
  BY <1>1, <1>5, LineIs, ParsesOn DEF GoOn

\* The innermost of the open blocks is a server if it is the only one.
LEMMA TopIs ==
  ASSUME ParserInv, Reading, phase = "parsing", open # <<>>
  PROVE  Top = open[Len(open)] /\ (Top.kind = "server" <=> Len(open) = 1)
<1>1. Len(open) \in Nat \ {0} /\ Stack(open, file, at)
  BY LineIs
<1>2. Len(open) \in 1 .. Len(open)
  BY <1>1
<1>3. PICK i : open[Len(open)] = BlockAt(file, Len(open), i, at)
  BY <1>1, <1>2 DEF Stack
<1>4. BlockAt(file, Len(open), i, at).kind = IF Len(open) = 1 THEN "server" ELSE "location"
  BY DEF BlockAt
<1>5. Top = open[Len(open)]
  BY DEF Top, Last
<1> QED
  BY <1>3, <1>4, <1>5

LEMMA ParseCloseLocationBlock ==
  ASSUME ParserInv, CloseLocationBlock
  PROVE  ParserInv'
<1>1. /\ Reading /\ GoOn /\ phase = "parsing" /\ open # <<>> /\ file[at].kind = "close"
      /\ Top.kind = "location"
  BY DEF CloseLocationBlock, Reading, Line
<1> DEFINE D == DepthBefore(file)
           L == Len(open)
<1>2. L \in Nat /\ L >= 2 /\ Top = open[L]
  <2>1. L \in Nat /\ L # 0
    BY <1>1, LineIs
  <2>2. Top = open[L] /\ (Top.kind = "server" <=> L = 1)
    BY <1>1, TopIs
  <2>3. L # 1
    BY <1>1, <2>2
  <2> HIDE DEF L
  <2> QED BY <2>1, <2>2, <2>3
<1>3. Len(Front(open)) = L - 1
  BY <1>2, LineIs, <1>1, Popped
<1>4. open' = Put(Front(open), L - 1,
                  AddRoute(Front(open)[L - 1], SetRouteParam(open[L].url, open[L].params)))
  <2>1. open' = Put(Front(open), Len(Front(open)),
                    AddRoute(Front(open)[Len(Front(open))], SetRouteParam(Top.url, Top.params)))
    BY DEF CloseLocationBlock, Put
  <2> HIDE DEF L
  <2> QED BY <1>2, <1>3, <2>1
<1>5. D[at] # 0 /\ D[at + 1] > 0 /\ ~Opens(file[at], D[at])
  <2>1. D[at] = L /\ D[at + 1] = Step(file[at], D[at])
    BY <1>1, LineIs
  <2>2. Closes(file[at], D[at]) /\ ~Opens(file[at], D[at])
    BY <1>1, <1>2, <2>1 DEF Opens, Closes
  <2>3. D[at + 1] = D[at] - 1
    BY <1>2, <2>1, <2>2, Steps
  <2> HIDE DEF D, L
  <2> QED BY <1>2, <2>1, <2>2, <2>3
<1>6. Stack(open', file, at + 1)
  BY <1>1, <1>2, <1>4, LineIs, StackCloses
<1>7. Read(file, at + 1, open', configs)
  BY <1>1, <1>5, <1>6, LineIs, ReadOn
<1> QED
  BY <1>1, <1>7, LineIs, ParsesOn DEF GoOn

LEMMA ParseCloseServerBlock ==
  ASSUME ParserInv, CloseServerBlock
  PROVE  ParserInv'
<1>1. /\ Reading /\ phase = "parsing" /\ open # <<>> /\ file[at].kind = "close"
      /\ Top.kind = "server"
  BY DEF CloseServerBlock, Reading, Line
<1>2. Len(open) = 1 /\ Top = open[1]
  BY <1>1, TopIs
<1>3. /\ IsValidServer(Top.params) =>
           Read(file, at + 1, <<>>, Append(configs, Conf(Top.params, Top.routes)))
      /\ ~IsValidServer(Top.params) => ~IsValidFile(file)
  BY <1>1, <1>2, LineIs, ReadServer
<1>4. CASE IsValidServer(Top.params)
  <2>1. open' = <<>> /\ phase' = phase /\ configs' = Append(configs, Conf(Top.params, Top.routes))
    BY <1>4 DEF CloseServerBlock
  <2> QED BY <1>1, <1>3, <1>4, <2>1, LineIs, ParsesOn
<1>5. CASE ~IsValidServer(Top.params)
  <2>1. Refuse /\ file' = file
    BY <1>1, <1>5, LineIs DEF CloseServerBlock
  <2> QED BY <1>3, <1>5, <2>1 DEF ParserInv, Refuse
<1> QED
  BY <1>4, <1>5

LEMMA ParseEndOfFile ==
  ASSUME ParserInv, EndOfFile
  PROVE  ParserInv'
<1>1. /\ phase = "parsing" /\ at > Len(file)
      /\ phase' = IF open # <<>> \/ configs = <<>> THEN "refused" ELSE "checking"
      /\ file' = file /\ configs' = configs
  BY DEF EndOfFile, parser
<1>2. file \in Files /\ Read(file, at, open, configs)
  BY <1>1 DEF ParserInv
<1>3. Len(file) \in Nat /\ DOMAIN file = 1 .. Len(file) /\ DepthRules(file)
  BY <1>2, FileIs
<1>4. at = Len(file) + 1
  BY <1>1, <1>2, <1>3 DEF Read
<1>5. /\ open # <<>> => ~IsValidFile(file)
      /\ open = <<>> => IsValidFile(file) /\ configs = Written(file)
  BY <1>2, <1>3, <1>4, AllRead
<1> QED
  BY <1>1, <1>5 DEF ParserInv

LEMMA ParserInit == Init => ParserInv
<1> SUFFICES ASSUME Init PROVE ParserInv
  OBVIOUS
<1>1. phase = "parsing" /\ file \in Files /\ at = 1 /\ open = <<>> /\ configs = <<>>
  BY DEF Init
<1>2. Read(file, 1, <<>>, <<>>)
  BY <1>1, FileIs, NothingRead
<1> QED
  BY <1>1, <1>2 DEF ParserInv

\* What comes after the parser reads nothing and does not come back to it.
LEMMA ParserStep == ParserInv /\ [Next]_vars => ParserInv'
<1> SUFFICES ASSUME ParserInv, [Next]_vars PROVE ParserInv'
  OBVIOUS
<1>1. CASE Parse
  BY <1>1, ParseSkipLine, ParseParseServerBlock, ParseParseLocationBlock,
     ParseAddLineAsKeyValue, ParseCloseLocationBlock, ParseCloseServerBlock, ParseEndOfFile
     DEF Parse
<1>2. CASE /\ UNCHANGED parser
           /\ phase' = phase \/ phase' \notin {"parsing", "checking", "refused"}
  BY <1>2 DEF ParserInv, parser
<1>3. CASE RemoveInvalidServerConf
  BY <1>2, <1>3 DEF RemoveInvalidServerConf
<1>4. CASE Open
  BY <1>2, <1>4 DEF Open, CreateSocket, BindToIPAddress, SetListenMode, AddServerSocket,
     PortIsTaken, CallFails, LaunchEpollListenLoop, GiveUp, OthersStand
<1>5. CASE CloseServers
  BY <1>2, <1>5 DEF CloseServers
<1>6. CASE SingalHandler
  BY <1>2, <1>6 DEF SingalHandler
<1>7. CASE Done
  BY <1>2, <1>7 DEF Done, vars
<1>8. CASE \E p \in Ports : OtherProcessListens(p) \/ OtherProcessEnds(p)
  BY <1>2, <1>8 DEF OtherProcessListens, OtherProcessEnds
<1>9. CASE UNCHANGED vars
  BY <1>2, <1>9 DEF vars
<1> QED
  BY <1>1, <1>3, <1>4, <1>5, <1>6, <1>7, <1>8, <1>9 DEF Next, Main

-----------------------------------------------------------------------------
(* Theorems                                                                *)

\* What is kept, listed and listening fits together in every reachable state.
THEOREM Inductive == Spec => []IInv
<1>1. IInv /\ [Next]_vars => IInv'
  <2> SUFFICES ASSUME IInv, [Next]_vars PROVE IInv'
    OBVIOUS
  <2>1. CASE Open
    <3>1. UNCHANGED foreign
      BY <2>1 DEF Open, CreateSocket, BindToIPAddress, SetListenMode, AddServerSocket,
                  PortIsTaken, CallFails, GiveUp, OthersStand, LaunchEpollListenLoop
    <3> QED
      BY <2>1, <3>1, OpenKeeps
  <2>2. CASE UNCHANGED <<phase, kept, used, tried, serverList, listeners, sock>>
    BY <2>2, ElsewhereKeeps
  <2>3. CASE Done \/ UNCHANGED vars
               \/ \E p \in Ports : OtherProcessListens(p) \/ OtherProcessEnds(p)
    BY <2>2, <2>3 DEF Done, vars, OtherProcessListens, OtherProcessEnds, sieve, opener
  <2> QED
    BY <2>1, <2>3, ParseKeeps, CheckKeeps, CloseKeeps, SignalKeeps DEF Next, Main
<1> QED
  BY <1>1, InvInit, PTL DEF Spec

\* Whatever the file says, no two servers that are opened have one port or one name.
THEOREM ServersAreUnique == Spec => []UniqueServers
<1>1. IInv => UniqueServers
  BY DEF IInv, SieveInv
<1> QED
  BY <1>1, Inductive, PTL

\* Whichever calls fail and whenever the signal comes, what listens is watched.
THEOREM WatchedListeners == Spec => []ListenersAreWatched
<1>1. IInv => ListenersAreWatched
  BY DEF IInv
<1> QED
  BY <1>1, Inductive, PTL

\* No server of the file is in the way of another.
THEOREM ConflictsAreForeign == Spec => PortConflictsAreForeign
<1>1. IInv => (PortIsTaken => Port \in foreign)
  <2> SUFFICES ASSUME IInv, PortIsTaken PROVE Port \in foreign
    OBVIOUS
  <2>1. /\ phase = "opening" /\ tried < Len(kept) /\ sock \in {"created", "bound"}
        /\ Port \in foreign \cup listeners
    BY DEF PortIsTaken, Opening, InUse
  <2>2. listeners = {kept[serverList[i]].port : i \in DOMAIN serverList}
    BY <2>1 DEF IInv, ListenersAreWatched
  <2> QED
    BY <2>1, <2>2, NotInItsOwnWay
<1>2. IInv => [PortIsTaken => Port \in foreign]_vars
  BY <1>1
<1> QED
  BY <1>2, Inductive, PTL DEF PortConflictsAreForeign

\* A server is dropped only for a port or a name that is given twice, and the first of
\* the file never, for any file.
THEOREM DroppedAreDuplicates == Spec => []DropsOnlyDuplicates
<1>1. ReadInv => DropsOnlyDuplicates
  <2> SUFFICES ASSUME ReadInv, phase = "opening"
               PROVE  /\ DistinctNames(configs) => PortsOf(kept) = PortsOf(configs)
                      /\ DistinctPorts(configs) => NamesOf(kept) = NamesOf(configs)
                      /\ kept # <<>> /\ Head(kept) = Head(configs)
    BY DEF DropsOnlyDuplicates
  <2>1. PICK S : configs \in Seq(S)
    BY DEF ReadInv, IsSequence
  <2>2. PICK T : kept \in Seq(T)
    BY DEF ReadInv, IsSequence
  <2>3. checked = Len(configs) /\ configs # <<>> /\ DOMAIN configs = 1 .. checked /\ checked > 0
    BY <2>1 DEF ReadInv
  <2>4. /\ PortsOf(kept) \subseteq PortsOf(configs) /\ NamesOf(kept) \subseteq NamesOf(configs)
    BY <2>3 DEF ReadInv, PortsOf, NamesOf
  <2>5. DistinctNames(configs) => PortsOf(configs) \subseteq PortsOf(kept)
    BY <2>3 DEF ReadInv, PortsOf
  <2>6. DistinctPorts(configs) => NamesOf(configs) \subseteq NamesOf(kept)
    BY <2>3 DEF ReadInv, NamesOf
  <2>7. kept # <<>> /\ Head(kept) = Head(configs)
    BY <2>1, <2>2, <2>3 DEF ReadInv
  <2> QED
    BY <2>4, <2>5, <2>6, <2>7
<1> QED
  BY <1>1, ReadInit, NextRead, PTL DEF Spec

\* A file, however long and however deep, is read as it is written: the servers that are
\* checked are those of its blocks by their depth, each with the last value of each of its
\* own keys and with its own locations, and a file is refused only if a block of it is not
\* valid, none is a server, or one is left open (ConfigParser.cpp:95, :170).
THEOREM FilesAreReadAsWritten == Spec => []ParsedAsWritten
<1>1. ParserInv => ParsedAsWritten
  BY DEF ParserInv, ParsedAsWritten
<1> QED
  BY <1>1, ParserInit, ParserStep, PTL DEF Spec
=============================================================================
