----------------------------- MODULE CgiProcess -----------------------------
(***************************************************************************)
(* The processes behind a CGI answer: executeFile() makes a pipe and forks; *)
(* the child redirects its output and calls execve() while the server goes  *)
(* on.  Descriptors are shared until execve(), and so is the epoll          *)
(* instance.  EventLoop takes all of this for one step.                     *)
(***************************************************************************)
EXTENDS Integers, FiniteSets

CONSTANTS
  Clients,   \* slots of connections
  Pids,      \* bound: the entries of the process table
  MaxPipes,  \* bound: the pipes that are made
  MaxFds,    \* the limit of the server's descriptors
  Programs,  \* the executors: "php", "python"
  Missing    \* those whose interpreter execve() does not find

ASSUME ProgramsAssumption == Programs \subseteq {"php", "python"} /\ Missing \subseteq Programs
ASSUME NamesAssumption == 0 \notin Clients /\ 0 \notin Pids
ASSUME BoundsAssumption == MaxPipes \in Nat /\ MaxFds \in Nat

VARIABLES
  server,   \* is the server process running
  conn,     \* conn[c]: the ClientSocket, its pipe and its getCgiForkPid()
  forking,  \* the client whose executeFile() is between fork() and its end
  fds,      \* descriptors of the server
  cloexec,  \* those of them that are closed by execve()
  epoll,    \* the files the epoll instance watches
  proc,     \* the process table: the children, by pid
  made      \* how many pipes were made

vars == <<server, conn, forking, fds, cloexec, epoll, proc, made>>

-----------------------------------------------------------------------------
(* Descriptors and processes                                               *)

\* A descriptor stands for its file: the one of a client's socket, the ends of a
\* pipe, the output of a child that has been redirected into a pipe.
File(kind, of) == [kind |-> kind, of |-> of]
Epoll     == File("epoll", 0)
Listening == File("listening", 0)
Socket(c) == File("socket", c)
ReadEnd(p)  == File("read", p)
WriteEnd(p) == File("write", p)
Stdout(p)   == File("stdout", p)

Pipes == 1 .. MaxPipes
NoPipe == 0
NoPid == 0
NoClient == 0
NoProcess == [state |-> "none", client |-> NoClient, pipe |-> NoPipe, program |-> "",
              fds |-> {}, cloexec |-> {}]
\* An entry stays for ever: nothing waits for a child.
\* Mutant: the entry is free again.
ZombieReaped(q) == NoProcess
Zombie(q) == [q EXCEPT !.state = "zombie", !.fds = {}, !.cloexec = {}]

Closed == [phase |-> "closed", pipe |-> NoPipe, pid |-> NoPid]

\* A file that is watched is so until it is removed from the instance, or the
\* last descriptor for it is closed, whichever process has it.
Watched(watched, own, table) ==
  {f \in watched : f \in own \/ \E q \in Pids : f \in table[q].fds}

Free == {q \in Pids : proc[q].state = "none"}

-----------------------------------------------------------------------------
(* The server                                                              *)

Idle == server = "running" /\ forking = NoClient
Room(n) == Cardinality(fds) + n <= MaxFds

\* Mutant: the socket stays open in scripts.
AcceptWithoutCloexec(c) ==
  /\ Idle /\ conn[c].phase = "closed" /\ Room(1)
  /\ conn' = [conn EXCEPT ![c].phase = "open"]
  /\ fds' = fds \cup {Socket(c)}
  /\ epoll' = epoll \cup {Socket(c)}
  /\ UNCHANGED <<server, forking, cloexec, proc, made>>
AcceptNewConnection(c) ==
  /\ Idle /\ conn[c].phase = "closed" /\ Room(1)
  /\ conn' = [conn EXCEPT ![c].phase = "open"]
  /\ fds' = fds \cup {Socket(c)}
  /\ cloexec' = cloexec \cup {Socket(c)}
  /\ epoll' = epoll \cup {Socket(c)}
  /\ UNCHANGED <<server, forking, proc, made>>

\* An exception that nobody catches.
Terminate ==
  /\ server' = "terminated"
  /\ fds' = {} /\ cloexec' = {}
  /\ epoll' = Watched(epoll, {}, proc)
  /\ UNCHANGED <<conn, forking, proc, made>>

\* accept() without a descriptor throws outside of every try block.
AcceptFails(c) ==
  /\ Idle /\ conn[c].phase = "closed" /\ ~Room(1)
  /\ Terminate

\* removeConnection() and ~ClientSocket(): the pipe is closed, not removed from
\* the epoll instance.  removeSocket() throws for a socket that is not there.
\* Mutant: the pipe stays open.
ReleaseKeepsPipe(c, own) ==
  /\ conn' = [conn EXCEPT ![c] = Closed]
  /\ fds' = own \ {Socket(c)}
  /\ cloexec' = cloexec \cap fds'
  /\ epoll' = Watched(epoll \ {Socket(c)}, fds', proc)
Release(c, own) ==
  /\ conn' = [conn EXCEPT ![c] = Closed]
  /\ fds' = own \ {Socket(c), ReadEnd(conn[c].pipe)}
  /\ cloexec' = cloexec \cap fds'
  /\ epoll' = Watched(epoll \ {Socket(c)}, fds', proc)

RemoveWith(c, own) ==
  IF Socket(c) \in epoll
  THEN Release(c, own) /\ UNCHANGED <<server, forking, proc>>
  ELSE /\ server' = "terminated"
       /\ fds' = {} /\ cloexec' = {}
       /\ epoll' = Watched(epoll, {}, proc)
       /\ UNCHANGED <<conn, forking, proc>>

\* A peer that hangs up, an exception of a handler, an answer that is out.
RemoveConnection(c) ==
  /\ Idle /\ conn[c].phase # "closed"
  /\ RemoveWith(c, fds) /\ UNCHANGED made

\* pipe() and fork() of executeFile().
Fork(c, program) ==
  /\ Idle /\ conn[c].phase = "open" /\ made < MaxPipes /\ Room(2)
  /\ \E q \in Free :
       LET p == made + 1
           child == [state |-> "forked", client |-> c, pipe |-> p, program |-> program,
                     fds |-> fds \cup {ReadEnd(p), WriteEnd(p)}, cloexec |-> cloexec]
       IN /\ made' = p
          /\ proc' = [proc EXCEPT ![q] = child]
          /\ conn' = [conn EXCEPT ![c] = [phase |-> "forking", pipe |-> p, pid |-> q]]
          /\ fds' = child.fds
  /\ forking' = c
  /\ UNCHANGED <<server, cloexec, epoll>>

\* The process table is full: the exception removes the connection and leaves both
\* ends of the pipe open.  Without a descriptor there is no pipe.
ForkFails(c) ==
  /\ Idle /\ conn[c].phase = "open" /\ Free = {} /\ made < MaxPipes /\ Room(2)
  /\ made' = made + 1
  /\ RemoveWith(c, fds \cup {ReadEnd(made + 1), WriteEnd(made + 1)})

PipeFails(c) ==
  /\ Idle /\ conn[c].phase = "open" /\ ~Room(2)
  /\ RemoveWith(c, fds) /\ UNCHANGED made

\* The rest of executeFile() in the server, with startReadingPipe() and addPipe():
\* a socket that the epoll instance does not have is an exception, and again
\* one in removeConnection().
\* Mutant: the server keeps its copy of the write end.
StartReadingPipeStillWriting ==
  LET p == conn[forking].pipe
  IN /\ server = "running" /\ forking # NoClient
     /\ IF Socket(forking) \in epoll
        THEN /\ cloexec' = cloexec \cup {ReadEnd(p)}
             /\ epoll' = epoll \cup {ReadEnd(p)}
             /\ conn' = [conn EXCEPT ![forking].phase = "reading"]
             /\ forking' = NoClient
             /\ UNCHANGED <<server, fds, proc, made>>
        ELSE Terminate
StartReadingPipe ==
  LET p == conn[forking].pipe
  IN /\ server = "running" /\ forking # NoClient
     /\ IF Socket(forking) \in epoll
        THEN /\ fds' = fds \ {WriteEnd(p)}
             /\ cloexec' = cloexec \cup {ReadEnd(p)}
             /\ epoll' = epoll \cup {ReadEnd(p)}
             /\ conn' = [conn EXCEPT ![forking].phase = "reading"]
             /\ forking' = NoClient
             /\ UNCHANGED <<server, proc, made>>
        ELSE Terminate

Kill(table, q) ==
  IF table[q].state \in {"none", "zombie"} THEN table ELSE [table EXCEPT ![q] = Zombie(@)]

\* removePipe() and kill(); the polling mode of a socket that the epoll instance
\* does not have is an exception that comes before kill().
StopReadingPipe(c) ==
  IF Socket(c) \in epoll
  THEN /\ proc' = Kill(proc, conn[c].pid)
       /\ fds' = fds \ {ReadEnd(conn[c].pipe)}
       /\ cloexec' = cloexec \cap fds'
       /\ epoll' = Watched(epoll \ {ReadEnd(conn[c].pipe)}, fds', proc')
       /\ conn' = [conn EXCEPT ![c] = [@ EXCEPT !.phase = "filled", !.pipe = NoPipe]]
       /\ UNCHANGED <<server, forking, made>>
  ELSE Terminate

\* No process can write to a pipe any more.
EndOfFile(p) ==
  /\ WriteEnd(p) \notin fds
  /\ \A q \in Pids : proc[q].fds \cap {WriteEnd(p), Stdout(p)} = {}

ReadEndOfFile(c) ==
  /\ Idle /\ conn[c].phase = "reading" /\ EndOfFile(conn[c].pipe)
  /\ StopReadingPipe(c)

TimeoutCgi(c) ==
  /\ Idle /\ conn[c].phase = "reading"
  /\ StopReadingPipe(c)

\* The answer is out and the connection is kept.
KeepAlive(c) ==
  /\ Idle /\ conn[c].phase = "filled"
  /\ conn' = [conn EXCEPT ![c].phase = "open"]
  /\ UNCHANGED <<server, forking, fds, cloexec, epoll, proc, made>>

-----------------------------------------------------------------------------
(* A child                                                                 *)

Become(q, process, watched) ==
  /\ proc' = [proc EXCEPT ![q] = process]
  /\ epoll' = Watched(watched, fds, proc')
  /\ UNCHANGED <<server, conn, forking, fds, cloexec, made>>

\* Mutant: the child keeps the end it does not use.
RedirectHalf(q) ==
  /\ proc[q].state = "forked"
  /\ Become(q, [proc[q] EXCEPT
                  !.state = "redirected",
                  !.fds = (@ \ {WriteEnd(proc[q].pipe)}) \cup {Stdout(proc[q].pipe)}], epoll)
Redirect(q) ==
  /\ proc[q].state = "forked"
  /\ Become(q, [proc[q] EXCEPT
                  !.state = "redirected",
                  !.fds = (@ \ {ReadEnd(proc[q].pipe), WriteEnd(proc[q].pipe)})
                            \cup {Stdout(proc[q].pipe)}], epoll)

Exec(q) ==
  /\ proc[q].state = "redirected" /\ proc[q].program \notin Missing
  /\ Become(q, [proc[q] EXCEPT !.state = "script", !.fds = @ \ proc[q].cloexec,
                               !.cloexec = {}], epoll)

\* execve() returns.  PythonExecutor ends the child.  PHPExecutor throws, and the
\* exception reaches handleExistingConnection() in the child, which removes the
\* connection, in the epoll instance it shares with the server, and goes on with
\* the loop; a socket that is not there any more ends the child.
ExecFails(q) ==
  /\ proc[q].state = "redirected" /\ proc[q].program \in Missing
  /\ LET s == Socket(proc[q].client)
     IN IF proc[q].program = "php" /\ s \in epoll
        THEN Become(q, [proc[q] EXCEPT !.state = "serving", !.fds = @ \ {s}], epoll \ {s})
        ELSE Become(q, Zombie(proc[q]), epoll)

ScriptClosesOutput(q) ==
  /\ proc[q].state = "script" /\ Stdout(proc[q].pipe) \in proc[q].fds
  /\ Become(q, [proc[q] EXCEPT !.fds = @ \ {Stdout(proc[q].pipe)}], epoll)

ScriptExits(q) ==
  /\ proc[q].state = "script"
  /\ Become(q, Zombie(proc[q]), epoll)

-----------------------------------------------------------------------------
Init ==
  /\ server = "running"
  /\ conn = [c \in Clients |-> Closed]
  /\ forking = NoClient
  /\ fds = {Epoll, Listening} /\ cloexec = {Epoll, Listening}
  /\ epoll = {Listening}
  /\ proc = [q \in Pids |-> NoProcess]
  /\ made = 0

ServerStep ==
  \/ StartReadingPipe
  \/ \E c \in Clients :
       \/ AcceptNewConnection(c) \/ AcceptFails(c) \/ RemoveConnection(c)
       \/ ForkFails(c) \/ PipeFails(c)
       \/ ReadEndOfFile(c) \/ TimeoutCgi(c) \/ KeepAlive(c)
       \/ \E program \in Programs : Fork(c, program)

\* What a child does by itself up to the end of execve().
ChildStep(q) == Redirect(q) \/ Exec(q) \/ ExecFails(q)

Next ==
  \/ ServerStep
  \/ \E q \in Pids : ChildStep(q) \/ ScriptClosesOutput(q) \/ ScriptExits(q)

Spec == Init /\ [][Next]_vars

\* A child is scheduled until it has called execve(); scripts promise nothing.
FairSpec == Spec /\ \A q \in Pids : WF_vars(ChildStep(q))

-----------------------------------------------------------------------------
(* Properties                                                              *)

Files ==
  {Epoll, Listening} \cup {Socket(c) : c \in Clients}
    \cup {File(kind, p) : kind \in {"read", "write", "stdout"}, p \in Pipes}

Process ==
  [state : {"none", "forked", "redirected", "script", "zombie", "serving"},
   client : Clients \cup {NoClient}, pipe : Pipes \cup {NoPipe}, program : Programs \cup {""},
   fds : SUBSET Files, cloexec : SUBSET Files]

\* Every variable keeps its type.
TypeOK ==
  /\ server \in {"running", "terminated"}
  /\ conn \in [Clients -> [phase : {"closed", "open", "forking", "reading", "filled"},
                           pipe : Pipes \cup {NoPipe}, pid : Pids \cup {NoPid}]]
  /\ forking \in Clients \cup {NoClient}
  /\ fds \in SUBSET Files /\ cloexec \in SUBSET Files /\ epoll \in SUBSET Files
  /\ proc \in [Pids -> Process]
  /\ made \in 0 .. MaxPipes

\* The server waits for the end of a pipe that only the child of that client can
\* write to, and the server itself between fork() and the end of executeFile():
\* no other child, and no pipe that the server forgot, holds an answer back
\* (Executor.cpp:164).
OnlyItsScriptWrites ==
  \A c \in Clients :
    conn[c].phase = "reading" =>
      /\ WriteEnd(conn[c].pipe) \notin fds
      /\ \A q \in Pids :
           proc[q].fds \cap {WriteEnd(conn[c].pipe), Stdout(conn[c].pipe)} # {} => q = conn[c].pid

\* Descriptors of pipes whose fork() failed (Executor.cpp:155).
Leaked == {f \in Files : f.kind \in {"read", "write"} /\ \A q \in Pids : proc[q].pipe # f.of}

\* What the server holds is for a connection it has, or leaked by a failed fork():
\* no sequence of scripts, timeouts and hang-ups uses up its descriptors, without
\* which accept() would end it (ServerSocket.cpp:79).
HoldsWhatItNeeds ==
  fds \subseteq
    {Epoll, Listening} \cup Leaked
      \cup UNION {{Socket(c)} \cup (IF conn[c].phase \in {"forking", "reading"}
                                    THEN {ReadEnd(conn[c].pipe)} ELSE {})
                    \cup (IF forking = c THEN {WriteEnd(conn[c].pipe)} ELSE {})
                   : c \in {k \in Clients : conn[k].phase # "closed"}}

\* A script has its output and what leaked, and no socket of the server: a
\* connection that the server closes is closed for its peer too, however long the
\* scripts of others run (ServerSocket.cpp:94).
ScriptsHoldTheirOutput ==
  \A q \in Pids :
    proc[q].state = "script" => proc[q].fds \subseteq {Stdout(proc[q].pipe)} \cup Leaked

\* What the epoll instance watches belongs to a connection, or to a child that was
\* forked while the connection was there and has not called execve() yet: closing
\* the pipe does not remove it while that child has it too (ClientSocket.cpp:38).
WatchedIsOwnedOrHeld ==
  \A f \in epoll \ {Listening} :
    \/ \E c \in Clients : f = Socket(c) /\ conn[c].phase # "closed"
    \/ \E c \in Clients : f = ReadEnd(conn[c].pipe) /\ conn[c].phase = "reading"
    \/ /\ f.kind = "read"
       /\ \E q \in Pids : proc[q].state \in {"forked", "redirected"} /\ f \in proc[q].fds

\* kill() never ends the script of another client, although the pid it is given was
\* stored when the script was started (ClientSocket.cpp:189).
KillHitsItsOwn ==
  [][\A c \in Clients :
       conn[c].phase = "reading" /\ conn'[c].phase = "filled" =>
         \A q \in Pids : proc'[q] # proc[q] => proc[q].pipe = conn[c].pipe]_vars

Stale(p) == ReadEnd(p) \in epoll /\ \A c \in Clients : conn[c].pipe # p

\* A pipe that is watched for a connection that is gone does not stay so.
StaleRegistrationsEnd == \A p \in Pipes : Stale(p) ~> ~Stale(p)

\* "if a soket hangs up, close it, it has ended its purpose"
\* (ServerSocket.cpp:175): nothing of a connection that is closed is watched, its
\* events carry a pointer to it.
NothingStaleIsWatched == \A p \in Pipes : ~Stale(p)

\* "catch system error such as alloc, read, or write fail, and remove faulty
\* sockets" (ServerSocket.cpp:181): a script that cannot be started costs its own
\* connection at most.
ServerSurvives == server = "running"
=============================================================================
