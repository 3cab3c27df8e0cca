-------------------------- MODULE CgiProcessProofs --------------------------
(***************************************************************************)
(* Proofs about CgiProcess, for any clients, process table, bounds and     *)
(* missing interpreters: types, who can write to a pipe, what the server   *)
(* and the scripts hold, and which process a timeout ends.                 *)
(***************************************************************************)
EXTENDS CgiProcess, TLAPS

-----------------------------------------------------------------------------
(* Files                                                                   *)

LEMMA FileFields ==
  ASSUME NEW kind, NEW of
  PROVE  File(kind, of).kind = kind /\ File(kind, of).of = of
  BY DEF File

LEMMA FilesHasAll ==
  /\ Epoll \in Files /\ Listening \in Files
  /\ \A c \in Clients : Socket(c) \in Files
  /\ \A p \in Pipes : ReadEnd(p) \in Files /\ WriteEnd(p) \in Files /\ Stdout(p) \in Files
  BY DEF Files, Socket, ReadEnd, WriteEnd, Stdout

-----------------------------------------------------------------------------
(* Types                                                                   *)

\* Who is between fork() and the end of executeFile(), and whose child a
\* connection waits for.
Linked ==
  /\ \A c \in Clients : conn[c].phase = "forking" <=> forking = c
  /\ \A c \in Clients :
       conn[c].phase \in {"forking", "reading"} =>
         /\ conn[c].pid \in Pids /\ conn[c].pipe \in 1 .. made
         /\ proc[conn[c].pid].pipe = conn[c].pipe
  /\ \A q \in Pids : proc[q].state = "none" <=> proc[q].pipe = NoPipe

TInv == TypeOK /\ Linked

LEMMA InitTInv == Init => TInv
<1> SUFFICES ASSUME Init
             PROVE  TInv
  OBVIOUS
<1>1. NoProcess \in Process
  BY DEF NoProcess, Process
<1>2. TypeOK
  BY <1>1, FilesHasAll, BoundsAssumption DEF Init, TypeOK, Closed
<1>3. Linked
  BY NamesAssumption DEF Init, Linked, Closed, NoClient, NoProcess
<1> QED
  BY <1>2, <1>3 DEF TInv

\* The steps of the server that leave the children alone.
LEMMA TerminateTInv ==
  ASSUME TInv, Terminate
  PROVE  TInv'
  BY DEF Terminate, Watched, TInv, TypeOK, Linked

LEMMA RemoveWithTInv ==
  ASSUME TInv, NEW c \in Clients, forking = NoClient, NEW own \in SUBSET Files,
         RemoveWith(c, own), made' \in made .. MaxPipes
  PROVE  TInv'
<1>1. CASE Socket(c) \in epoll
  <2>1. /\ conn' = [conn EXCEPT ![c] = Closed] /\ forking' = forking /\ server' = server
        /\ proc' = proc
        /\ fds' \in SUBSET Files /\ cloexec' \in SUBSET Files /\ epoll' \in SUBSET Files
    BY <1>1 DEF RemoveWith, Release, Watched, TInv, TypeOK
  <2>2. made' \in 0 .. MaxPipes /\ 1 .. made \subseteq 1 .. made'
    BY BoundsAssumption DEF TInv, TypeOK
  <2>3. TypeOK'
    BY <2>1, <2>2 DEF TInv, TypeOK, Closed
  <2>4. Linked'
    BY <2>1, <2>2, NamesAssumption DEF TInv, TypeOK, Linked, Closed, NoClient
  <2> QED BY <2>3, <2>4 DEF TInv
<1>2. CASE Socket(c) \notin epoll
  <2>1. /\ conn' = conn /\ forking' = forking /\ server' = "terminated" /\ proc' = proc
        /\ fds' = {} /\ cloexec' = {} /\ epoll' \in SUBSET Files
    BY <1>2 DEF RemoveWith, Watched, TInv, TypeOK
  <2>2. made' \in 0 .. MaxPipes /\ 1 .. made \subseteq 1 .. made'
    BY BoundsAssumption DEF TInv, TypeOK
  <2> QED BY <2>1, <2>2 DEF TInv, TypeOK, Linked
<1> QED
  BY <1>1, <1>2

LEMMA KillTypes ==
  ASSUME TypeOK, NEW q \in Pids
  PROVE  /\ Kill(proc, q) \in [Pids -> Process]
         /\ \A r \in Pids : /\ Kill(proc, q)[r].pipe = proc[r].pipe
                            /\ Kill(proc, q)[r].state = "none" <=> proc[r].state = "none"
<1>1. Zombie(proc[q]) \in Process /\ Zombie(proc[q]).pipe = proc[q].pipe
      /\ Zombie(proc[q]).state = "zombie"
  BY DEF TypeOK, Zombie, Process
<1>2. proc \in [Pids -> Process]
  BY DEF TypeOK
<1>3. CASE proc[q].state \in {"none", "zombie"}
  BY <1>2, <1>3 DEF Kill
<1>4. CASE proc[q].state \notin {"none", "zombie"}
  BY <1>1, <1>2, <1>4 DEF Kill
<1> QED
  BY <1>3, <1>4

LEMMA StopReadingPipeTInv ==
  ASSUME TInv, NEW c \in Clients, conn[c].phase = "reading", forking = NoClient,
         StopReadingPipe(c)
  PROVE  TInv'
<1>1. CASE Socket(c) \in epoll
  <2>1. /\ proc' = Kill(proc, conn[c].pid) /\ conn[c].pid \in Pids
        /\ conn' = [conn EXCEPT ![c] = [conn[c] EXCEPT !.phase = "filled", !.pipe = NoPipe]]
        /\ forking' = forking /\ server' = server /\ made' = made
        /\ fds' \in SUBSET Files /\ cloexec' \in SUBSET Files /\ epoll' \in SUBSET Files
    BY <1>1 DEF StopReadingPipe, Watched, TInv, TypeOK, Linked
  <2>2. TypeOK'
    BY <2>1, KillTypes DEF TInv, TypeOK
  <2>3. Linked'
    <3>1. ASSUME NEW d \in Clients
          PROVE  /\ conn'[d].phase = "forking" <=> forking' = d
                 /\ conn'[d].phase \in {"forking", "reading"} =>
                      /\ conn'[d].pid \in Pids /\ conn'[d].pipe \in 1 .. made'
                      /\ proc'[conn'[d].pid].pipe = conn'[d].pipe
      <4>1. d # c => conn'[d] = conn[d]
        BY <2>1 DEF TInv, TypeOK
      <4>2. conn'[c].phase = "filled"
        BY <2>1 DEF TInv, TypeOK
      <4>3. forking' # c
        BY <2>1, NamesAssumption DEF NoClient
      <4>4. \A r \in Pids : proc'[r].pipe = proc[r].pipe
        BY <2>1, KillTypes DEF TInv
      <4> QED BY <2>1, <4>1, <4>2, <4>3, <4>4 DEF TInv, Linked
    <3>2. \A r \in Pids : proc'[r].state = "none" <=> proc'[r].pipe = NoPipe
      BY <2>1, KillTypes DEF TInv, Linked
    <3> QED BY <3>1, <3>2 DEF Linked
  <2> QED BY <2>2, <2>3 DEF TInv
<1>2. CASE Socket(c) \notin epoll
  BY <1>2, TerminateTInv DEF StopReadingPipe
<1> QED
  BY <1>1, <1>2

LEMMA ForkTInv ==
  ASSUME TInv, NEW c \in Clients, NEW program \in Programs, Fork(c, program)
  PROVE  TInv'
<1> DEFINE p == made + 1
<1>1. PICK q \in Free :
        LET child == [state |-> "forked", client |-> c, pipe |-> p, program |-> program,
                      fds |-> fds \cup {ReadEnd(p), WriteEnd(p)}, cloexec |-> cloexec]
        IN /\ made' = p
           /\ proc' = [proc EXCEPT ![q] = child]
           /\ conn' = [conn EXCEPT ![c] = [phase |-> "forking", pipe |-> p, pid |-> q]]
           /\ fds' = child.fds
  BY DEF Fork
<1>2. q \in Pids /\ p \in Pipes /\ p \in 0 .. MaxPipes /\ 1 .. made \subseteq 1 .. p /\ p \in 1 .. p
  BY BoundsAssumption DEF Fork, Free, Pipes, TInv, TypeOK
<1>3. fds \cup {ReadEnd(p), WriteEnd(p)} \in SUBSET Files
  BY <1>2, FilesHasAll DEF TInv, TypeOK
<1>4. forking' = c /\ forking = NoClient /\ server' = server /\ cloexec' = cloexec /\ epoll' = epoll
  BY DEF Fork, Idle
<1>5. proc[q].state = "none"
  BY <1>1 DEF Free
<1> HIDE DEF p
<1>6. TypeOK'
  BY <1>1, <1>2, <1>3, <1>4 DEF TInv, TypeOK, Process
<1>7. Linked'
  <2>1. ASSUME NEW d \in Clients
        PROVE  /\ conn'[d].phase = "forking" <=> forking' = d
               /\ conn'[d].phase \in {"forking", "reading"} =>
                    /\ conn'[d].pid \in Pids /\ conn'[d].pipe \in 1 .. made'
                    /\ proc'[conn'[d].pid].pipe = conn'[d].pipe
    <3>1. CASE d = c
      BY <1>1, <1>2, <1>4, <3>1 DEF TInv, TypeOK
    <3>2. CASE d # c
      <4>1. conn'[d] = conn[d] /\ forking # d
        BY <1>1, <1>4, <3>2, NamesAssumption DEF TInv, TypeOK, NoClient
      <4>2. \A r \in Pids : r # q => proc'[r] = proc[r]
        BY <1>1 DEF TInv, TypeOK
      <4>3. proc[q].pipe \notin 1 .. made
        BY <1>2, <1>5 DEF TInv, TypeOK, Linked, NoPipe
      <4> QED BY <1>1, <1>2, <1>4, <3>2, <4>1, <4>2, <4>3 DEF TInv, Linked
    <3> QED BY <3>1, <3>2
  <2>2. \A r \in Pids : proc'[r].state = "none" <=> proc'[r].pipe = NoPipe
    BY <1>1, <1>2 DEF TInv, TypeOK, Linked, Pipes, NoPipe
  <2> QED BY <2>1, <2>2 DEF Linked
<1> QED
  BY <1>6, <1>7 DEF TInv

\* The steps of a child change its entry only.
LEMMA BecomeTInv ==
  ASSUME TInv, NEW q \in Pids, NEW process \in Process, process.pipe = proc[q].pipe,
         proc[q].state # "none", process.state # "none", NEW watched \in SUBSET Files, Become(q, process, watched)
  PROVE  TInv'
<1>1. /\ proc' = [proc EXCEPT ![q] = process]
      /\ epoll' \in SUBSET Files
      /\ UNCHANGED <<server, conn, forking, fds, cloexec, made>>
  BY DEF Become, Watched, TInv, TypeOK
<1>2. TypeOK'
  BY <1>1 DEF TInv, TypeOK
<1>3. Linked'
  BY <1>1 DEF TInv, TypeOK, Linked
<1> QED
  BY <1>2, <1>3 DEF TInv

LEMMA NextTInv == TInv /\ [Next]_vars => TInv'
<1> SUFFICES ASSUME TInv, [Next]_vars
             PROVE  TInv'
  OBVIOUS
<1>1. CASE StartReadingPipe
  <2>1. CASE Socket(forking) \in epoll
    <3> DEFINE p == conn[forking].pipe
    <3>1. forking \in Clients
      BY <1>1 DEF StartReadingPipe, TInv, TypeOK
    <3>2. conn[forking].phase = "forking" /\ p \in Pipes
      BY <3>1, BoundsAssumption DEF TInv, TypeOK, Linked, Pipes
    <3>3. ReadEnd(p) \in Files
      BY <3>2, FilesHasAll
    <3>4. /\ conn' = [conn EXCEPT ![forking].phase = "reading"] /\ forking' = NoClient
          /\ fds' = fds \ {WriteEnd(p)}
          /\ cloexec' = cloexec \cup {ReadEnd(p)} /\ epoll' = epoll \cup {ReadEnd(p)}
          /\ UNCHANGED <<server, proc, made>>
      BY <1>1, <2>1 DEF StartReadingPipe
    <3> HIDE DEF p
    <3>5. TypeOK'
      BY <3>1, <3>3, <3>4 DEF TInv, TypeOK
    <3>6. Linked'
      BY <3>1, <3>2, <3>4, NamesAssumption DEF TInv, TypeOK, Linked, NoClient
    <3> QED BY <3>5, <3>6 DEF TInv
  <2>2. CASE Socket(forking) \notin epoll
    BY <1>1, <2>2, TerminateTInv DEF StartReadingPipe
  <2> QED BY <2>1, <2>2
<1>2. ASSUME NEW c \in Clients, AcceptNewConnection(c)
      PROVE  TInv'
  BY <1>2, FilesHasAll DEF AcceptNewConnection, TInv, TypeOK, Linked
<1>3. ASSUME NEW c \in Clients, AcceptFails(c)
      PROVE  TInv'
  BY <1>3, TerminateTInv DEF AcceptFails
<1>4. ASSUME NEW c \in Clients, RemoveConnection(c) \/ PipeFails(c)
      PROVE  TInv'
  <2>1. forking = NoClient /\ RemoveWith(c, fds) /\ made' = made
    BY <1>4 DEF RemoveConnection, PipeFails, Idle
  <2>2. fds \in SUBSET Files /\ made' \in made .. MaxPipes
    BY <2>1, BoundsAssumption DEF TInv, TypeOK
  <2> QED BY <2>1, <2>2, RemoveWithTInv
<1>5. ASSUME NEW c \in Clients, ForkFails(c)
      PROVE  TInv'
  <2>1. /\ forking = NoClient /\ made' = made + 1
        /\ RemoveWith(c, fds \cup {ReadEnd(made + 1), WriteEnd(made + 1)})
    BY <1>5 DEF ForkFails, Idle
  <2>2. made + 1 \in Pipes /\ made' \in made .. MaxPipes
    BY <1>5, <2>1, BoundsAssumption DEF ForkFails, TInv, TypeOK, Pipes
  <2>3. fds \cup {ReadEnd(made + 1), WriteEnd(made + 1)} \in SUBSET Files
    BY <2>2, FilesHasAll DEF TInv, TypeOK
  <2> QED BY <2>1, <2>2, <2>3, RemoveWithTInv
<1>6. ASSUME NEW c \in Clients, ReadEndOfFile(c) \/ TimeoutCgi(c)
      PROVE  TInv'
  BY <1>6, StopReadingPipeTInv DEF ReadEndOfFile, TimeoutCgi, Idle
<1>7. ASSUME NEW c \in Clients, KeepAlive(c)
      PROVE  TInv'
  BY <1>7 DEF KeepAlive, TInv, TypeOK, Linked
<1>8. ASSUME NEW c \in Clients, NEW program \in Programs, Fork(c, program)
      PROVE  TInv'
  BY <1>8, ForkTInv
<1>9. ASSUME NEW q \in Pids, ChildStep(q) \/ ScriptClosesOutput(q) \/ ScriptExits(q)
      PROVE  TInv'
  <2>1. PICK process \in Process, watched \in SUBSET Files :
          /\ process.pipe = proc[q].pipe /\ proc[q].state # "none" /\ process.state # "none"
          /\ Become(q, process, watched)
    <3>1. proc[q] \in Process /\ epoll \in SUBSET Files
      BY DEF TInv, TypeOK
    <3>2. CASE Redirect(q)
      <4>1. proc[q].pipe \in Pipes
        BY <3>1, <3>2 DEF Redirect, TInv, Linked, Process
      <4>2. Stdout(proc[q].pipe) \in Files
        BY <4>1, FilesHasAll
      <4> DEFINE kept == (proc[q].fds \ {ReadEnd(proc[q].pipe), WriteEnd(proc[q].pipe)})
                           \cup {Stdout(proc[q].pipe)}
                 become == [proc[q] EXCEPT !.state = "redirected", !.fds = kept]
      <4>3. kept \in SUBSET Files
        BY <3>1, <4>2 DEF Process
      <4>4. Become(q, become, epoll)
        BY <3>1, <3>2 DEF Redirect
      <4>5. become \in Process /\ become.pipe = proc[q].pipe /\ become.state = "redirected"
        <5> HIDE DEF kept
        <5> QED BY <3>1, <4>3 DEF Process
      <4> HIDE DEF become
      <4> QED BY <3>1, <3>2, <4>4, <4>5 DEF Redirect
    <3>3. CASE Exec(q)
      BY <3>1, <3>3 DEF Exec, Process
    <3>4. CASE ExecFails(q)
      BY <3>1, <3>4 DEF ExecFails, Zombie, Process
    <3>5. CASE ScriptClosesOutput(q)
      BY <3>1, <3>5 DEF ScriptClosesOutput, Process
    <3>6. CASE ScriptExits(q)
      BY <3>1, <3>6 DEF ScriptExits, Zombie, Process
    <3> QED BY <1>9, <3>2, <3>3, <3>4, <3>5, <3>6 DEF ChildStep
  <2> QED BY <2>1, BecomeTInv
<1>10. CASE UNCHANGED vars
  BY <1>10 DEF vars, TInv, TypeOK, Linked
<1> QED
  BY <1>1, <1>2, <1>3, <1>4, <1>5, <1>6, <1>7, <1>8, <1>9, <1>10 DEF Next, ServerStep

\* Every variable keeps its type.
THEOREM TypeCorrect == Spec => []TypeOK
<1>1. TInv => TypeOK
  BY DEF TInv
<1> QED
  BY <1>1, InitTInv, NextTInv, PTL DEF Spec

-----------------------------------------------------------------------------
(* Descriptors                                                             *)

Leak(f) == f.kind \in {"read", "write"} /\ \A q \in Pids : proc[q].pipe # f.of

Bounded(f) == f.kind \in {"read", "write"} => f.of \in 1 .. made

Waiting == {c \in Clients : conn[c].phase \in {"forking", "reading"}}

\* What the server has a descriptor for.
Needed(f) ==
  \/ f \in {Epoll, Listening}
  \/ Leak(f)
  \/ \E c \in Clients : conn[c].phase # "closed" /\ f = Socket(c)
  \/ \E c \in Waiting : f = ReadEnd(conn[c].pipe)
  \/ forking \in Clients /\ f = WriteEnd(conn[forking].pipe)

\* What execve() would leave open in the server.
Open(f) ==
  \/ Leak(f)
  \/ /\ forking \in Clients
     /\ f \in {ReadEnd(conn[forking].pipe), WriteEnd(conn[forking].pipe)}

ServerInv == \A f \in fds : Bounded(f) /\ Needed(f) /\ (f \in cloexec \/ Open(f))

Holds(q, f) ==
  /\ Bounded(f)
  /\ f.kind \in {"write", "stdout"} => Leak(f) \/ f.of = proc[q].pipe
  /\ proc[q].state = "forked" =>
       f \in proc[q].cloexec \/ Leak(f) \/ f \in {ReadEnd(proc[q].pipe), WriteEnd(proc[q].pipe)}
  /\ proc[q].state = "redirected" =>
       f \in proc[q].cloexec \/ Leak(f) \/ f = Stdout(proc[q].pipe)
  /\ proc[q].state = "script" => Leak(f) \/ f = Stdout(proc[q].pipe)
  /\ proc[q].state \notin {"none", "zombie"}

ChildInv == \A q \in Pids : \A f \in proc[q].fds : Holds(q, f)

\* No two connections, and no two children, have one pipe.
Distinct ==
  /\ \A c, d \in Waiting : conn[c].pipe = conn[d].pipe => c = d
  /\ \A q \in Pids : proc[q].pipe <= made
  /\ \A q, r \in Pids : proc[q].pipe # NoPipe /\ proc[q].pipe = proc[r].pipe => q = r

IInv == TInv /\ ServerInv /\ ChildInv /\ Distinct

LEMMA InitIInv == Init => IInv
<1> SUFFICES ASSUME Init
             PROVE  IInv
  OBVIOUS
<1>1. ServerInv
  <2>1. Epoll.kind = "epoll" /\ Listening.kind = "listening"
    BY FileFields DEF Epoll, Listening
  <2> QED BY <2>1 DEF Init, ServerInv, Bounded, Needed
<1>2. ChildInv /\ Distinct
  <2>1. /\ \A q \in Pids : proc[q].fds = {} /\ proc[q].pipe = NoPipe
        /\ Waiting = {} /\ made = 0
    BY DEF Init, NoProcess, Waiting, Closed
  <2>2. NoPipe <= 0
    BY DEF NoPipe
  <2> QED BY <2>1, <2>2 DEF ChildInv, Distinct
<1> QED
  BY <1>1, <1>2, InitTInv DEF IInv

LEMMA PipesAreNumbers ==
  ASSUME TypeOK
  PROVE  made \in Nat /\ \A q \in Pids : proc[q].pipe \in Nat
<1>1. made \in Nat /\ \A q \in Pids : proc[q] \in Process
  BY BoundsAssumption DEF TypeOK
<1>2. \A x \in Process : x.pipe \in Pipes \cup {NoPipe}
  BY DEF Process
<1>3. Pipes \cup {NoPipe} \subseteq Nat
  BY BoundsAssumption DEF Pipes, NoPipe
<1> QED
  BY <1>1, <1>2, <1>3

\* A step that leaves the table alone and forgets no pipe.
LEMMA ChildrenStay ==
  ASSUME IInv, proc' = proc, made' \in Nat, made <= made'
  PROVE  /\ ChildInv'
         /\ \A f : (Leak(f) => Leak(f)') /\ (Bounded(f) => Bounded(f)')
         /\ \A q \in Pids : proc'[q].pipe <= made'
         /\ \A q, r \in Pids : proc'[q].pipe # NoPipe /\ proc'[q].pipe = proc'[r].pipe => q = r
<1>1. made \in Nat /\ \A q \in Pids : proc[q].pipe \in Nat
  BY PipesAreNumbers DEF IInv, TInv
<1>2. \A f : (Leak(f) => Leak(f)') /\ (Bounded(f) => Bounded(f)')
  BY <1>1 DEF Leak, Bounded
<1>3. ChildInv'
  <2> SUFFICES ASSUME NEW q \in Pids, NEW f \in proc[q].fds
               PROVE  Holds(q, f)'
    BY DEF ChildInv
  <2> QED BY <1>2 DEF IInv, ChildInv, Holds
<1> QED
  BY <1>1, <1>2, <1>3 DEF IInv, Distinct

\* What stays needed when only the connection c changes.
LEMMA NeededStays ==
  ASSUME NEW c \in Clients, DOMAIN conn = Clients, forking # c, forking' = forking,
         \A k \in Clients : k # c => conn'[k] = conn[k],
         NEW f, Needed(f), Leak(f) => Leak(f)',
         f = Socket(c) => conn'[c].phase # "closed",
         c \in Waiting => f # ReadEnd(conn[c].pipe)
  PROVE  Needed(f)'
<1>1. CASE f \in {Epoll, Listening} \/ Leak(f)
  BY <1>1 DEF Needed
<1>2. CASE \E k \in Clients : conn[k].phase # "closed" /\ f = Socket(k)
  BY <1>2 DEF Needed
<1>3. CASE \E k \in Waiting : f = ReadEnd(conn[k].pipe)
  BY <1>3 DEF Needed, Waiting
<1>4. CASE forking \in Clients /\ f = WriteEnd(conn[forking].pipe)
  BY <1>4 DEF Needed
<1> QED
  BY <1>1, <1>2, <1>3, <1>4 DEF Needed

LEMMA TerminateIInv ==
  ASSUME IInv, TInv', Terminate
  PROVE  IInv'
<1>1. proc' = proc /\ made' = made /\ fds' = {} /\ conn' = conn
  BY DEF Terminate
<1>2. made \in Nat
  BY BoundsAssumption DEF IInv, TInv, TypeOK
<1>3. ChildInv' /\ Distinct'
  BY <1>1, <1>2, ChildrenStay DEF IInv, Distinct, Waiting
<1> QED
  BY <1>1, <1>3 DEF IInv, ServerInv

LEMMA AcceptIInv ==
  ASSUME IInv, TInv', NEW c \in Clients, AcceptNewConnection(c)
  PROVE  IInv'
<1>1. /\ conn[c].phase = "closed" /\ forking = NoClient /\ proc' = proc /\ made' = made
      /\ conn' = [conn EXCEPT ![c].phase = "open"] /\ forking' = forking
      /\ fds' = fds \cup {Socket(c)} /\ cloexec' = cloexec \cup {Socket(c)}
  BY DEF AcceptNewConnection, Idle
<1>2. made \in Nat /\ DOMAIN conn = Clients /\ conn'[c].phase = "open" /\ forking # c
      /\ \A k \in Clients : k # c => conn'[k] = conn[k]
  BY <1>1, BoundsAssumption, NamesAssumption DEF IInv, TInv, TypeOK, NoClient
<1>3. ChildInv' /\ Distinct' /\ \A f : (Leak(f) => Leak(f)') /\ (Bounded(f) => Bounded(f)')
  <2>1. Waiting' = Waiting /\ c \notin Waiting
    BY <1>1, <1>2 DEF Waiting
  <2> QED BY <1>1, <1>2, <2>1, ChildrenStay DEF IInv, Distinct, Waiting
<1>4. ASSUME NEW f \in fds
      PROVE  Bounded(f)' /\ Needed(f)' /\ (f \in cloexec' \/ Open(f)')
  <2>1. Needed(f)'
    BY <1>1, <1>2, <1>3, NeededStays DEF IInv, ServerInv, Waiting
  <2> QED BY <1>1, <1>2, <1>3, <2>1, NamesAssumption DEF IInv, ServerInv, Open, NoClient
<1>5. Bounded(Socket(c))' /\ Needed(Socket(c))' /\ Socket(c) \in cloexec'
  BY <1>1, <1>2, FileFields DEF Bounded, Needed, Socket
<1> QED
  BY <1>1, <1>3, <1>4, <1>5 DEF IInv, ServerInv

LEMMA RemoveWithIInv ==
  ASSUME IInv, TInv', NEW c \in Clients, forking = NoClient, NEW own, RemoveWith(c, own),
         made' \in Nat, made <= made',
         \A f \in own : f \in fds \/ (Bounded(f)' /\ Leak(f))
  PROVE  IInv'
<1>1. CASE Socket(c) \in epoll
  <2>1. /\ conn' = [conn EXCEPT ![c] = Closed] /\ forking' = forking /\ proc' = proc
        /\ fds' = own \ {Socket(c), ReadEnd(conn[c].pipe)}
        /\ cloexec' = cloexec \cap fds'
    BY <1>1 DEF RemoveWith, Release
  <2>2. /\ DOMAIN conn = Clients /\ conn'[c].phase = "closed" /\ forking # c
        /\ \A k \in Clients : k # c => conn'[k] = conn[k]
    BY <2>1, NamesAssumption DEF IInv, TInv, TypeOK, NoClient, Closed
  <2>3. ChildInv' /\ Distinct' /\ \A f : (Leak(f) => Leak(f)') /\ (Bounded(f) => Bounded(f)')
    <3>1. \A k \in Waiting' : k \in Waiting /\ conn'[k] = conn[k]
      BY <2>2 DEF Waiting
    <3> QED BY <2>1, <3>1, ChildrenStay DEF IInv, Distinct
  <2>4. ASSUME NEW f \in fds'
        PROVE  Bounded(f)' /\ Needed(f)' /\ (f \in cloexec' \/ Open(f)')
    <3>1. CASE f \in fds
      <4>1. Needed(f)'
        BY <2>1, <2>2, <2>3, <2>4, <3>1, NeededStays DEF IInv, ServerInv
      <4>2. f \in cloexec' \/ Open(f)'
        BY <2>1, <2>3, <2>4, <3>1, NamesAssumption DEF IInv, ServerInv, Open, NoClient
      <4> QED BY <2>3, <3>1, <4>1, <4>2 DEF IInv, ServerInv
    <3>2. CASE f \notin fds
      BY <2>1, <2>3, <2>4, <3>2 DEF Needed, Open
    <3> QED BY <3>1, <3>2
  <2> QED BY <2>3, <2>4 DEF IInv, ServerInv
<1>2. CASE Socket(c) \notin epoll
  <2>1. proc' = proc /\ fds' = {} /\ conn' = conn
    BY <1>2 DEF RemoveWith
  <2>2. ChildInv' /\ Distinct'
    BY <2>1, ChildrenStay DEF IInv, Distinct, Waiting
  <2> QED BY <2>1, <2>2 DEF IInv, ServerInv
<1> QED
  BY <1>1, <1>2

LEMMA StartReadingIInv ==
  ASSUME IInv, TInv', StartReadingPipe, Socket(forking) \in epoll
  PROVE  IInv'
<1> DEFINE c == forking
           p == conn[c].pipe
<1>1. /\ c \in Clients /\ proc' = proc /\ made' = made
      /\ conn' = [conn EXCEPT ![c].phase = "reading"] /\ forking' = NoClient
      /\ fds' = fds \ {WriteEnd(p)} /\ cloexec' = cloexec \cup {ReadEnd(p)}
  BY DEF StartReadingPipe, IInv, TInv, TypeOK
<1> HIDE DEF c
<1>2. /\ made \in Nat /\ conn'[c].phase = "reading" /\ conn'[c].pipe = p /\ c \in Waiting
      /\ \A k \in Clients : k # c => conn'[k] = conn[k]
  BY <1>1, BoundsAssumption DEF IInv, TInv, TypeOK, Linked, Waiting, c
<1>3. Waiting' = Waiting /\ \A k \in Waiting : conn'[k].pipe = conn[k].pipe
  BY <1>1, <1>2 DEF Waiting
<1>4. ChildInv' /\ Distinct' /\ \A f : (Leak(f) => Leak(f)') /\ (Bounded(f) => Bounded(f)')
  <2>1. ChildInv' /\ \A f : (Leak(f) => Leak(f)') /\ (Bounded(f) => Bounded(f)')
    BY <1>1, <1>2, ChildrenStay
  <2>2. \A a, b \in Waiting' : conn'[a].pipe = conn'[b].pipe => a = b
    BY <1>3 DEF IInv, Distinct
  <2> QED BY <1>1, <2>1, <2>2 DEF IInv, Distinct
<1>5. ASSUME NEW f \in fds'
      PROVE  Bounded(f)' /\ Needed(f)' /\ (f \in cloexec' \/ Open(f)')
  <2>1. f \in fds /\ f # WriteEnd(p)
    BY <1>1, <1>5
  <2>2. Needed(f)'
    <3>1. CASE f \in {Epoll, Listening} \/ Leak(f)
      BY <1>4, <3>1 DEF Needed
    <3>2. CASE \E k \in Clients : conn[k].phase # "closed" /\ f = Socket(k)
      BY <1>2, <3>2 DEF Needed
    <3>3. CASE \E k \in Waiting : f = ReadEnd(conn[k].pipe)
      BY <1>3, <3>3 DEF Needed
    <3> QED BY <2>1, <3>1, <3>2, <3>3 DEF IInv, ServerInv, Needed, c
  <2>3. f \in cloexec' \/ Leak(f)'
    BY <1>1, <1>4, <2>1 DEF IInv, ServerInv, Open, c
  <2> QED BY <1>4, <2>1, <2>2, <2>3 DEF IInv, ServerInv, Open
<1> QED
  BY <1>4, <1>5 DEF IInv, ServerInv

LEMMA KeepAliveIInv ==
  ASSUME IInv, TInv', NEW c \in Clients, KeepAlive(c)
  PROVE  IInv'
<1>1. /\ conn[c].phase = "filled" /\ forking = NoClient /\ proc' = proc /\ made' = made
      /\ conn' = [conn EXCEPT ![c].phase = "open"]
      /\ UNCHANGED <<forking, fds, cloexec>>
  BY DEF KeepAlive, Idle
<1>2. made \in Nat /\ DOMAIN conn = Clients /\ conn'[c].phase = "open" /\ forking # c
      /\ \A k \in Clients : k # c => conn'[k] = conn[k]
  BY <1>1, BoundsAssumption, NamesAssumption DEF IInv, TInv, TypeOK, NoClient
<1>3. c \notin Waiting /\ Waiting' = Waiting
  BY <1>1, <1>2 DEF Waiting
<1>4. ChildInv' /\ Distinct' /\ \A f : (Leak(f) => Leak(f)') /\ (Bounded(f) => Bounded(f)')
  BY <1>1, <1>2, <1>3, ChildrenStay DEF IInv, Distinct, Waiting
<1>5. ASSUME NEW f \in fds
      PROVE  Bounded(f)' /\ Needed(f)' /\ (f \in cloexec' \/ Open(f)')
  <2>1. Needed(f)'
    BY <1>1, <1>2, <1>3, <1>4, NeededStays DEF IInv, ServerInv
  <2> QED BY <1>1, <1>4, <2>1, NamesAssumption DEF IInv, ServerInv, Open, NoClient
<1> QED
  BY <1>1, <1>4, <1>5 DEF IInv, ServerInv

\* A child that is killed has nothing any more, and its pipe stays in the table.
LEMMA StopReadingIInv ==
  ASSUME IInv, TInv', NEW c \in Clients, conn[c].phase = "reading", forking = NoClient,
         StopReadingPipe(c), Socket(c) \in epoll
  PROVE  IInv'
<1> DEFINE q == conn[c].pid
<1>1. /\ q \in Pids /\ proc' = Kill(proc, q) /\ made' = made /\ forking' = forking
      /\ conn' = [conn EXCEPT ![c] = [conn[c] EXCEPT !.phase = "filled", !.pipe = NoPipe]]
      /\ fds' = fds \ {ReadEnd(conn[c].pipe)} /\ cloexec' = cloexec \cap fds'
  BY DEF StopReadingPipe, IInv, TInv, Linked
<1> HIDE DEF q
<1>2. /\ made \in Nat /\ DOMAIN conn = Clients /\ conn'[c].phase = "filled" /\ forking # c
      /\ \A k \in Clients : k # c => conn'[k] = conn[k]
  BY <1>1, BoundsAssumption, NamesAssumption DEF IInv, TInv, TypeOK, NoClient
<1>3. \A r \in Pids : /\ proc'[r].pipe = proc[r].pipe
                      /\ proc'[r] = proc[r] \/ proc'[r].fds = {}
  <2>1. \A r \in Pids : proc'[r].pipe = proc[r].pipe
    BY <1>1, KillTypes DEF IInv, TInv
  <2>2. proc \in [Pids -> Process] /\ Zombie(proc[q]).fds = {}
    <3>1. proc \in [Pids -> Process]
      BY DEF IInv, TInv, TypeOK
    <3>2. \A x \in Process : Zombie(x).fds = {}
      BY DEF Zombie, Process
    <3> QED BY <1>1, <3>1, <3>2
  <2>3. \A r \in Pids : proc'[r] = proc[r] \/ proc'[r].fds = {}
    BY <1>1, <2>2 DEF Kill
  <2> QED BY <2>1, <2>3
<1>4. \A f : (Leak(f) => Leak(f)') /\ (Bounded(f) => Bounded(f)')
  BY <1>1, <1>3 DEF Leak, Bounded
<1>5. ChildInv'
  <2> SUFFICES ASSUME NEW r \in Pids, NEW f \in proc'[r].fds
               PROVE  Holds(r, f)'
    BY DEF ChildInv
  <2>1. proc'[r] = proc[r] /\ f \in proc[r].fds
    BY <1>3
  <2> QED BY <1>4, <2>1 DEF IInv, ChildInv, Holds
<1>6. Distinct'
  <2>1. \A k \in Waiting' : k \in Waiting /\ conn'[k] = conn[k]
    BY <1>2 DEF Waiting
  <2>2. \A a, b \in Waiting' : conn'[a].pipe = conn'[b].pipe => a = b
    BY <2>1 DEF IInv, Distinct
  <2>3. \A r \in Pids : proc'[r].pipe <= made'
    BY <1>1, <1>3 DEF IInv, Distinct
  <2>4. \A r, t \in Pids : proc'[r].pipe # NoPipe /\ proc'[r].pipe = proc'[t].pipe => r = t
    BY <1>3 DEF IInv, Distinct
  <2> QED BY <2>2, <2>3, <2>4 DEF Distinct
<1>7. ASSUME NEW f \in fds'
      PROVE  Bounded(f)' /\ Needed(f)' /\ (f \in cloexec' \/ Open(f)')
  <2>1. f \in fds /\ f # ReadEnd(conn[c].pipe)
    BY <1>1, <1>7
  <2>2. Needed(f)'
    BY <1>1, <1>2, <1>4, <2>1, NeededStays DEF IInv, ServerInv
  <2> QED BY <1>1, <1>4, <1>7, <2>1, <2>2, NamesAssumption DEF IInv, ServerInv, Open, NoClient
<1> QED
  BY <1>5, <1>6, <1>7 DEF IInv, ServerInv

\* The pipe of a child that is forked is new.
LEMMA ForkIInv ==
  ASSUME IInv, TInv', NEW c \in Clients, NEW program \in Programs, Fork(c, program)
  PROVE  IInv'
<1> DEFINE p == made + 1
           ends == {ReadEnd(p), WriteEnd(p)}
<1>1. PICK q \in Free :
        LET child == [state |-> "forked", client |-> c, pipe |-> p, program |-> program,
                      fds |-> fds \cup ends, cloexec |-> cloexec]
        IN /\ made' = p
           /\ proc' = [proc EXCEPT ![q] = child]
           /\ conn' = [conn EXCEPT ![c] = [phase |-> "forking", pipe |-> p, pid |-> q]]
           /\ fds' = child.fds
  BY DEF Fork
<1>2. /\ q \in Pids /\ p \in Nat /\ made \in Nat /\ p \in 1 .. p /\ 1 .. made \subseteq 1 .. p
      /\ p \notin 1 .. made /\ p # NoPipe
  BY <1>1, BoundsAssumption DEF Free, IInv, TInv, TypeOK, NoPipe
<1>3. /\ conn[c].phase = "open" /\ forking = NoClient /\ forking' = c /\ cloexec' = cloexec
      /\ proc[q].state = "none" /\ proc[q].pipe = NoPipe
  BY <1>1, <1>2 DEF Fork, Idle, Free, IInv, TInv, Linked
<1>4. /\ proc'[q].state = "forked" /\ proc'[q].pipe = p /\ proc'[q].cloexec = cloexec
      /\ proc'[q].fds = fds \cup ends /\ fds' = fds \cup ends
      /\ \A r \in Pids : r # q => proc'[r] = proc[r]
  BY <1>1, <1>2 DEF IInv, TInv, TypeOK
<1>5. /\ conn'[c].phase = "forking" /\ conn'[c].pipe = p
      /\ \A k \in Clients : k # c => conn'[k] = conn[k]
  BY <1>1 DEF IInv, TInv, TypeOK
<1>6. \A e \in ends : e.kind \in {"read", "write"} /\ e.of = p
  BY FileFields DEF ReadEnd, WriteEnd
<1> HIDE DEF p, ends
<1>7. \A f : /\ Bounded(f) => Bounded(f)'
             /\ Bounded(f) /\ Leak(f) => Leak(f)'
  BY <1>1, <1>2, <1>4 DEF Bounded, Leak
<1>8. \A e \in ends : Bounded(e)'
  BY <1>1, <1>2, <1>6 DEF Bounded
<1>9. ASSUME NEW f \in fds
      PROVE  Bounded(f)' /\ Needed(f)' /\ (f \in cloexec \/ Leak(f)')
  <2>1. Bounded(f) /\ Needed(f) /\ (f \in cloexec \/ Leak(f))
    BY <1>3, NamesAssumption DEF IInv, ServerInv, Open, NoClient
  <2>2. Needed(f)'
    <3>1. CASE f \in {Epoll, Listening} \/ Leak(f)
      BY <1>7, <2>1, <3>1 DEF Needed
    <3>2. CASE \E k \in Clients : conn[k].phase # "closed" /\ f = Socket(k)
      BY <1>5, <3>2 DEF Needed
    <3>3. CASE \E k \in Waiting : f = ReadEnd(conn[k].pipe)
      <4>1. PICK k \in Waiting : f = ReadEnd(conn[k].pipe)
        BY <3>3
      <4>2. k \in Waiting' /\ conn'[k] = conn[k]
        BY <1>3, <1>5 DEF Waiting
      <4> QED BY <4>1, <4>2 DEF Needed
    <3> QED BY <1>3, <2>1, <3>1, <3>2, <3>3, NamesAssumption DEF Needed, NoClient
  <2> QED BY <1>7, <2>1, <2>2
<1>10. ASSUME NEW e \in ends
       PROVE  Needed(e)' /\ Open(e)'
  <2>1. c \in Waiting'
    BY <1>5 DEF Waiting
  <2> QED BY <1>3, <1>5, <2>1 DEF Needed, Open, ends
<1>11. ServerInv'
  BY <1>3, <1>4, <1>8, <1>9, <1>10 DEF ServerInv, Open
<1>12. ChildInv'
  <2> SUFFICES ASSUME NEW r \in Pids, NEW f \in proc'[r].fds
               PROVE  Holds(r, f)'
    BY DEF ChildInv
  <2>1. CASE r # q
    <3>1. Holds(r, f) /\ proc'[r] = proc[r]
      BY <1>4, <2>1 DEF IInv, ChildInv
    <3> QED BY <1>7, <3>1 DEF Holds
  <2>2. CASE r = q /\ f \in ends
    <3>1. f.kind \in {"read", "write"} /\ f.of = p /\ Bounded(f)'
      BY <1>6, <1>8, <2>2
    <3> QED BY <1>4, <2>2, <3>1 DEF Holds, ends
  <2>3. CASE r = q /\ f \in fds
    <3>1. Bounded(f)' /\ (f \in cloexec \/ Leak(f)')
      BY <1>9, <2>3
    <3>2. f.kind \in {"write", "stdout"} => Leak(f)'
      <4>1. Needed(f) /\ Bounded(f)
        BY <2>3 DEF IInv, ServerInv
      <4>2. f.kind \in {"write", "stdout"} => Leak(f)
        BY <1>3, <4>1, FileFields, NamesAssumption
           DEF Needed, Epoll, Listening, Socket, ReadEnd, NoClient
      <4> QED BY <1>7, <4>1, <4>2
    <3> QED BY <1>4, <2>3, <3>1, <3>2 DEF Holds
  <2> QED BY <1>4, <2>1, <2>2, <2>3
<1>13. Distinct'
  <2>1. \A k \in Waiting' : k = c \/ (k \in Waiting /\ conn'[k] = conn[k])
    BY <1>5 DEF Waiting
  <2>2. \A k \in Waiting : conn[k].pipe \in 1 .. made
    BY DEF IInv, TInv, Linked, Waiting
  <2>3. \A a, b \in Waiting' : conn'[a].pipe = conn'[b].pipe => a = b
    BY <1>2, <1>5, <2>1, <2>2 DEF IInv, Distinct
  <2>4. \A r \in Pids : proc[r].pipe <= made /\ proc[r].pipe \in Nat
    BY PipesAreNumbers DEF IInv, TInv, Distinct
  <2>5. \A r \in Pids : proc'[r].pipe <= made' /\ (r # q => proc'[r].pipe # p)
    BY <1>1, <1>2, <1>4, <2>4 DEF p
  <2>6. \A r, t \in Pids : proc'[r].pipe # NoPipe /\ proc'[r].pipe = proc'[t].pipe => r = t
    BY <1>2, <1>4, <2>5 DEF IInv, Distinct
  <2> QED BY <2>3, <2>5, <2>6 DEF Distinct
<1> QED
  BY <1>11, <1>12, <1>13 DEF IInv

\* The steps of a child.  What it has it had before, or is its redirected output.
LEMMA BecomeIInv ==
  ASSUME IInv, TInv', NEW q \in Pids, NEW process, process.pipe = proc[q].pipe, NEW watched,
         Become(q, process, watched),
         \A f \in process.fds : proc'[q] = process => Holds(q, f)'
  PROVE  IInv'
<1>1. /\ proc' = [proc EXCEPT ![q] = process]
      /\ UNCHANGED <<conn, forking, fds, cloexec, made>>
  BY DEF Become
<1>2. proc'[q] = process /\ \A r \in Pids : /\ r # q => proc'[r] = proc[r]
                                            /\ proc'[r].pipe = proc[r].pipe
  BY <1>1 DEF IInv, TInv, TypeOK
<1>3. \A f : (Leak(f) => Leak(f)') /\ (Bounded(f) => Bounded(f)')
  BY <1>1, <1>2 DEF Leak, Bounded
<1>4. ServerInv'
  <2> SUFFICES ASSUME NEW f \in fds
               PROVE  Bounded(f)' /\ Needed(f)' /\ (f \in cloexec' \/ Open(f)')
    BY <1>1 DEF ServerInv
  <2>1. Needed(f)'
    BY <1>1, <1>3 DEF IInv, ServerInv, Needed, Waiting
  <2> QED BY <1>1, <1>3, <2>1 DEF IInv, ServerInv, Open
<1>5. ChildInv'
  <2> SUFFICES ASSUME NEW r \in Pids, NEW f \in proc'[r].fds
               PROVE  Holds(r, f)'
    BY DEF ChildInv
  <2>1. CASE r = q
    BY <1>2, <2>1
  <2>2. CASE r # q
    <3>1. Holds(r, f) /\ proc'[r] = proc[r]
      BY <1>2, <2>2 DEF IInv, ChildInv
    <3> QED BY <1>3, <3>1 DEF Holds
  <2> QED BY <2>1, <2>2
<1>6. Distinct'
  <2>1. Waiting' = Waiting
    BY <1>1 DEF Waiting
  <2>2. \A a, b \in Waiting' : conn'[a].pipe = conn'[b].pipe => a = b
    BY <1>1, <2>1 DEF IInv, Distinct
  <2>3. \A r \in Pids : proc'[r].pipe <= made'
    BY <1>1, <1>2 DEF IInv, Distinct
  <2>4. \A r, t \in Pids : proc'[r].pipe # NoPipe /\ proc'[r].pipe = proc'[t].pipe => r = t
    BY <1>2 DEF IInv, Distinct
  <2> QED BY <2>2, <2>3, <2>4 DEF Distinct
<1> QED
  BY <1>4, <1>5, <1>6 DEF IInv

LEMMA ChildIInv ==
  ASSUME IInv, TInv', NEW q \in Pids, ChildStep(q) \/ ScriptClosesOutput(q) \/ ScriptExits(q)
  PROVE  IInv'
<1> DEFINE p == proc[q].pipe
           o == proc[q]
<1>1. /\ o \in Process /\ \A f \in o.fds : Holds(q, f)
      /\ \A process : process.pipe = p =>
           \A watched : Become(q, process, watched) =>
             /\ proc'[q] = process /\ made' = made
             /\ \A f : (Leak(f) => Leak(f)') /\ (Bounded(f) => Bounded(f)')
  <2>1. o \in Process /\ \A f \in o.fds : Holds(q, f)
    BY DEF IInv, TInv, TypeOK, ChildInv
  <2>2. ASSUME NEW process, process.pipe = p, NEW watched, Become(q, process, watched)
        PROVE  /\ proc'[q] = process /\ made' = made
               /\ \A f : (Leak(f) => Leak(f)') /\ (Bounded(f) => Bounded(f)')
    <3>1. proc'[q] = process /\ made' = made
          /\ \A r \in Pids : proc'[r].pipe = proc[r].pipe
      BY <2>2 DEF Become, IInv, TInv, TypeOK
    <3> QED BY <3>1 DEF Leak, Bounded
  <2> QED BY <2>1, <2>2
<1>2. CASE Redirect(q)
  <2> DEFINE kept == (o.fds \ {ReadEnd(p), WriteEnd(p)}) \cup {Stdout(p)}
             b == [o EXCEPT !.state = "redirected", !.fds = kept]
  <2>1. o.state = "forked" /\ Become(q, b, epoll)
    BY <1>2 DEF Redirect
  <2>2. b.pipe = p /\ b.state = "redirected" /\ b.fds = kept /\ b.cloexec = o.cloexec
    <3> HIDE DEF kept
    <3> QED BY <1>1 DEF Process
  <2> HIDE DEF b
  <2>3. ASSUME NEW f \in kept, proc'[q] = b
        PROVE  Holds(q, f)'
    <3>1. CASE f \in o.fds \ {ReadEnd(p), WriteEnd(p)}
      BY <1>1, <2>1, <2>2, <2>3, <3>1 DEF Holds
    <3>2. CASE f = Stdout(p)
      BY <2>2, <2>3, <3>2, FileFields DEF Holds, Stdout, Bounded
    <3> QED BY <3>1, <3>2
  <2> QED BY <2>1, <2>2, <2>3, BecomeIInv
<1>3. CASE Exec(q)
  <2> DEFINE b == [o EXCEPT !.state = "script", !.fds = o.fds \ o.cloexec, !.cloexec = {}]
  <2>1. o.state = "redirected" /\ Become(q, b, epoll)
    BY <1>3 DEF Exec
  <2>2. b.pipe = p /\ b.state = "script" /\ b.fds = o.fds \ o.cloexec
    BY <1>1 DEF Process
  <2> HIDE DEF b
  <2>3. ASSUME NEW f \in b.fds, proc'[q] = b
        PROVE  Holds(q, f)'
    BY <1>1, <2>1, <2>2, <2>3 DEF Holds
  <2> QED BY <2>1, <2>2, <2>3, BecomeIInv
<1>4. CASE ExecFails(q)
  <2> DEFINE s == Socket(o.client)
             b == [o EXCEPT !.state = "serving", !.fds = o.fds \ {s}]
  <2>1. o.state = "redirected"
        /\ (Become(q, b, epoll \ {s}) \/ Become(q, Zombie(o), epoll))
    BY <1>4 DEF ExecFails
  <2>2. b.pipe = p /\ b.state = "serving" /\ b.fds = o.fds \ {s}
    <3> HIDE DEF s
    <3> QED BY <1>1 DEF Process
  <2>3. Zombie(o).pipe = p /\ Zombie(o).fds = {}
    BY <1>1 DEF Zombie, Process
  <2> HIDE DEF b
  <2>4. ASSUME NEW f \in b.fds, proc'[q] = b, Become(q, b, epoll \ {s})
        PROVE  Holds(q, f)'
    BY <1>1, <2>1, <2>2, <2>4 DEF Holds
  <2> QED BY <2>1, <2>2, <2>3, <2>4, BecomeIInv
<1>5. CASE ScriptClosesOutput(q)
  <2> DEFINE b == [o EXCEPT !.fds = o.fds \ {Stdout(p)}]
  <2>1. o.state = "script" /\ Become(q, b, epoll)
    BY <1>5 DEF ScriptClosesOutput
  <2>2. b.pipe = p /\ b.state = "script" /\ b.fds = o.fds \ {Stdout(p)}
    BY <1>1, <2>1 DEF Process
  <2> HIDE DEF b
  <2>3. ASSUME NEW f \in b.fds, proc'[q] = b
        PROVE  Holds(q, f)'
    BY <1>1, <2>1, <2>2, <2>3 DEF Holds
  <2> QED BY <2>1, <2>2, <2>3, BecomeIInv
<1>6. CASE ScriptExits(q)
  <2>1. Zombie(o).pipe = p /\ Zombie(o).fds = {} /\ Become(q, Zombie(o), epoll)
    BY <1>1, <1>6 DEF ScriptExits, Zombie, Process
  <2> QED BY <2>1, BecomeIInv
<1> QED
  BY <1>2, <1>3, <1>4, <1>5, <1>6 DEF ChildStep

LEMMA NextIInv == IInv /\ [Next]_vars => IInv'
<1> SUFFICES ASSUME IInv, [Next]_vars
             PROVE  IInv'
  OBVIOUS
<1>0. TInv'
  BY NextTInv DEF IInv
<1>1. CASE StartReadingPipe
  BY <1>0, <1>1, StartReadingIInv, TerminateIInv DEF StartReadingPipe
<1>2. ASSUME NEW c \in Clients, AcceptNewConnection(c)
      PROVE  IInv'
  BY <1>0, <1>2, AcceptIInv
<1>3. ASSUME NEW c \in Clients, AcceptFails(c)
      PROVE  IInv'
  BY <1>0, <1>3, TerminateIInv DEF AcceptFails
<1>4. ASSUME NEW c \in Clients, RemoveConnection(c) \/ PipeFails(c)
      PROVE  IInv'
  <2>1. forking = NoClient /\ RemoveWith(c, fds) /\ made' = made
    BY <1>4 DEF RemoveConnection, PipeFails, Idle
  <2>2. made \in Nat
    BY PipesAreNumbers DEF IInv, TInv
  <2> QED BY <1>0, <2>1, <2>2, RemoveWithIInv
<1>5. ASSUME NEW c \in Clients, ForkFails(c)
      PROVE  IInv'
  <2> DEFINE p == made + 1
             own == fds \cup {ReadEnd(p), WriteEnd(p)}
  <2>1. forking = NoClient /\ made' = p /\ RemoveWith(c, own)
    BY <1>5 DEF ForkFails, Idle
  <2>2. made \in Nat /\ p \in Nat /\ made <= p /\ p \in 1 .. p
        /\ \A q \in Pids : proc[q].pipe # p
    BY PipesAreNumbers DEF IInv, TInv, Distinct
  <2>3. \A f \in {ReadEnd(p), WriteEnd(p)} : f.kind \in {"read", "write"} /\ f.of = p
    BY FileFields DEF ReadEnd, WriteEnd
  <2> HIDE DEF p
  <2>4. \A f \in {ReadEnd(p), WriteEnd(p)} : Bounded(f)' /\ Leak(f)
    BY <2>1, <2>2, <2>3 DEF Bounded, Leak
  <2>5. \A f \in own : f \in fds \/ (Bounded(f)' /\ Leak(f))
    BY <2>4
  <2> HIDE DEF own
  <2> QED BY <1>0, <2>1, <2>2, <2>5, RemoveWithIInv
<1>6. ASSUME NEW c \in Clients, ReadEndOfFile(c) \/ TimeoutCgi(c)
      PROVE  IInv'
  <2>1. conn[c].phase = "reading" /\ forking = NoClient /\ StopReadingPipe(c)
    BY <1>6 DEF ReadEndOfFile, TimeoutCgi, Idle
  <2>2. Socket(c) \notin epoll => Terminate
    BY <2>1 DEF StopReadingPipe
  <2> QED BY <1>0, <2>1, <2>2, StopReadingIInv, TerminateIInv
<1>7. ASSUME NEW c \in Clients, KeepAlive(c)
      PROVE  IInv'
  BY <1>0, <1>7, KeepAliveIInv
<1>8. ASSUME NEW c \in Clients, NEW program \in Programs, Fork(c, program)
      PROVE  IInv'
  BY <1>0, <1>8, ForkIInv
<1>9. ASSUME NEW q \in Pids, ChildStep(q) \/ ScriptClosesOutput(q) \/ ScriptExits(q)
      PROVE  IInv'
  BY <1>0, <1>9, ChildIInv
<1>10. CASE UNCHANGED vars
  <2>1. \A f : Leak(f)' = Leak(f) /\ Bounded(f)' = Bounded(f) /\ Needed(f)' = Needed(f)
               /\ Open(f)' = Open(f) /\ \A q : Holds(q, f)' = Holds(q, f)
    BY <1>10 DEF vars, Leak, Bounded, Needed, Open, Holds, Waiting
  <2> QED BY <1>0, <1>10, <2>1 DEF vars, IInv, ServerInv, ChildInv, Distinct, Waiting
<1> QED
  BY <1>1, <1>2, <1>3, <1>4, <1>5, <1>6, <1>7, <1>8, <1>9, <1>10 DEF Next, ServerStep

THEOREM Inductive == Spec => []IInv
  BY InitIInv, NextIInv, PTL DEF Spec

-----------------------------------------------------------------------------
(* What is held                                                            *)

LEMMA LeaksAreLeaked ==
  ASSUME NEW f \in Files, Leak(f)
  PROVE  f \in Leaked
  BY DEF Leak, Leaked

\* A pipe that somebody waits for is in the table, and has not leaked.
LEMMA WaitedForIsNoLeak ==
  ASSUME IInv, NEW c \in Waiting
  PROVE  /\ conn[c].pid \in Pids /\ proc[conn[c].pid].pipe = conn[c].pipe
         /\ conn[c].pipe # NoPipe
         /\ ~Leak(ReadEnd(conn[c].pipe)) /\ ~Leak(WriteEnd(conn[c].pipe))
<1>1. /\ conn[c].pid \in Pids /\ proc[conn[c].pid].pipe = conn[c].pipe
      /\ conn[c].pipe \in 1 .. made
  BY DEF IInv, TInv, Linked, Waiting
<1>2. ReadEnd(conn[c].pipe).of = conn[c].pipe /\ WriteEnd(conn[c].pipe).of = conn[c].pipe
  BY FileFields DEF ReadEnd, WriteEnd
<1>3. conn[c].pipe # NoPipe
  BY <1>1, PipesAreNumbers DEF IInv, TInv, NoPipe
<1> QED
  BY <1>1, <1>2, <1>3 DEF Leak

\* Only its own child can write to the pipe of a connection that waits.
THEOREM WritersAreOwn == Spec => []OnlyItsScriptWrites
<1>1. IInv => OnlyItsScriptWrites
  <2> SUFFICES ASSUME IInv, NEW c \in Clients, conn[c].phase = "reading"
               PROVE  /\ WriteEnd(conn[c].pipe) \notin fds
                      /\ \A q \in Pids :
                           proc[q].fds \cap {WriteEnd(conn[c].pipe), Stdout(conn[c].pipe)} # {}
                             => q = conn[c].pid
    BY DEF OnlyItsScriptWrites
  <2> DEFINE p == conn[c].pipe
             w == WriteEnd(p)
             o == Stdout(p)
  <2>1. c \in Waiting
    BY DEF Waiting
  <2>2. w.kind = "write" /\ w.of = p /\ o.kind = "stdout" /\ o.of = p
    BY FileFields DEF WriteEnd, Stdout
  <2>3. w \notin fds
    <3> SUFFICES ASSUME w \in fds
                 PROVE  FALSE
      OBVIOUS
    <3>1. Needed(w) /\ ~Leak(w)
      BY <2>1, WaitedForIsNoLeak DEF IInv, ServerInv
    <3>2. forking \in Clients /\ w = WriteEnd(conn[forking].pipe)
      BY <2>2, <3>1, FileFields DEF Needed, Epoll, Listening, Socket, ReadEnd
    <3>3. conn[forking].phase = "forking" /\ forking \in Waiting /\ conn[forking].pipe = p
      BY <2>2, <3>2, FileFields DEF IInv, TInv, Linked, Waiting, WriteEnd
    <3> QED BY <2>1, <3>3 DEF IInv, Distinct
  <2>4. ASSUME NEW q \in Pids, proc[q].fds \cap {w, o} # {}
        PROVE  q = conn[c].pid
    <3>1. proc[q].pipe = p
      BY <2>1, <2>2, <2>4, WaitedForIsNoLeak DEF IInv, ChildInv, Holds, Leak
    <3> QED BY <2>1, <3>1, WaitedForIsNoLeak DEF IInv, Distinct
  <2> QED BY <2>3, <2>4
<1> QED
  BY <1>1, Inductive, PTL

\* What the server holds is for a connection it has, or leaked by a failed fork().
THEOREM NothingElseIsHeld == Spec => []HoldsWhatItNeeds
<1>1. IInv => HoldsWhatItNeeds
  <2> DEFINE ForConnection(c) ==
               {Socket(c)} \cup (IF conn[c].phase \in {"forking", "reading"}
                                 THEN {ReadEnd(conn[c].pipe)} ELSE {})
                 \cup (IF forking = c THEN {WriteEnd(conn[c].pipe)} ELSE {})
             Connected == {k \in Clients : conn[k].phase # "closed"}
  <2> SUFFICES ASSUME IInv, NEW f \in fds
               PROVE  f \in {Epoll, Listening} \/ f \in Leaked
                        \/ \E c \in Connected : f \in ForConnection(c)
    BY DEF HoldsWhatItNeeds
  <2>1. f \in Files /\ Needed(f)
    BY DEF IInv, TInv, TypeOK, ServerInv
  <2>2. CASE Leak(f)
    BY <2>1, <2>2, LeaksAreLeaked
  <2>3. CASE \E c \in Waiting : f = ReadEnd(conn[c].pipe)
    BY <2>3 DEF Waiting
  <2>4. CASE forking \in Clients /\ f = WriteEnd(conn[forking].pipe)
    <3>1. conn[forking].phase = "forking"
      BY <2>4 DEF IInv, TInv, Linked
    <3> QED BY <2>4, <3>1
  <2> QED BY <2>1, <2>2, <2>3, <2>4 DEF Needed
<1> QED
  BY <1>1, Inductive, PTL

\* A script has its output and what leaked.
THEOREM ScriptsHoldNoSocket == Spec => []ScriptsHoldTheirOutput
<1>1. IInv => ScriptsHoldTheirOutput
  <2> SUFFICES ASSUME IInv, NEW q \in Pids, proc[q].state = "script", NEW f \in proc[q].fds
               PROVE  f = Stdout(proc[q].pipe) \/ f \in Leaked
    BY DEF ScriptsHoldTheirOutput
  <2>1. f \in Files
    <3>1. proc[q] \in Process
      BY DEF IInv, TInv, TypeOK
    <3> QED BY <3>1 DEF Process
  <2> QED BY <2>1, LeaksAreLeaked DEF IInv, ChildInv, Holds
<1> QED
  BY <1>1, Inductive, PTL

\* A timeout ends the child of its own connection.
THEOREM KillsAreOwn == Spec => KillHitsItsOwn
<1> DEFINE Kills == \A c \in Clients :
                      conn[c].phase = "reading" /\ conn'[c].phase = "filled" =>
                        \A q \in Pids : proc'[q] # proc[q] => proc[q].pipe = conn[c].pipe
<1>1. ASSUME IInv, [Next]_vars, NEW c \in Clients, conn[c].phase = "reading",
             conn'[c].phase = "filled", NEW q \in Pids, proc'[q] # proc[q]
      PROVE  proc[q].pipe = conn[c].pipe
  <2>1. c \in Waiting
    BY <1>1 DEF Waiting
  <2>2. PICK d \in Clients : ReadEndOfFile(d) \/ TimeoutCgi(d)
    <3>1. conn' # conn
      BY <1>1
    <3>2. proc' # proc
      BY <1>1
    <3>3. ASSUME NEW d \in Clients, NEW program \in Programs, Fork(d, program)
          PROVE  FALSE
      <4>1. conn'[d].phase = "forking" /\ \A k \in Clients : k # d => conn'[k] = conn[k]
        <5>1. PICK r \in Free :
                conn' = [conn EXCEPT ![d] = [phase |-> "forking", pipe |-> made + 1, pid |-> r]]
          BY <3>3 DEF Fork
        <5> QED BY <1>1, <5>1 DEF IInv, TInv, TypeOK
      <4> QED BY <1>1, <4>1
    <3>4. ASSUME NEW r \in Pids, ChildStep(r) \/ ScriptClosesOutput(r) \/ ScriptExits(r)
          PROVE  FALSE
      BY <3>1, <3>4 DEF ChildStep, Redirect, Exec, ExecFails, ScriptClosesOutput,
                        ScriptExits, Become
    <3>5. ~StartReadingPipe
      BY <3>2 DEF StartReadingPipe, Terminate
    <3>6. ASSUME NEW d \in Clients,
                 \/ AcceptNewConnection(d) \/ AcceptFails(d) \/ RemoveConnection(d)
                 \/ ForkFails(d) \/ PipeFails(d) \/ KeepAlive(d)
          PROVE  FALSE
      BY <3>2, <3>6 DEF AcceptNewConnection, AcceptFails, Terminate, RemoveConnection,
                        ForkFails, PipeFails, RemoveWith, KeepAlive
    <3>7. ~UNCHANGED vars
      BY <3>1 DEF vars
    <3> QED BY <1>1, <3>3, <3>4, <3>5, <3>6, <3>7 DEF Next, ServerStep
  <2>3. StopReadingPipe(d) /\ Socket(d) \in epoll
    BY <1>1, <2>2 DEF ReadEndOfFile, TimeoutCgi, StopReadingPipe, Terminate
  <2>4. d = c
    <3>1. conn' = [conn EXCEPT ![d] = [conn[d] EXCEPT !.phase = "filled", !.pipe = NoPipe]]
      BY <2>3 DEF StopReadingPipe
    <3>2. d # c => conn'[c] = conn[c]
      BY <3>1 DEF IInv, TInv, TypeOK
    <3> QED BY <1>1, <3>2
  <2>5. proc' = Kill(proc, conn[c].pid)
    BY <2>3, <2>4 DEF StopReadingPipe
  <2>6. proc \in [Pids -> Process] /\ conn[c].pid \in Pids
    BY <1>1, <2>1, WaitedForIsNoLeak DEF IInv, TInv, TypeOK
  <2>7. q = conn[c].pid
    BY <1>1, <2>5, <2>6 DEF Kill
  <2> QED BY <1>1, <2>1, <2>7, WaitedForIsNoLeak
<1>2. IInv /\ [Next]_vars => [Kills]_vars
  BY <1>1
<1> QED
  BY <1>2, Inductive, PTL DEF Spec, KillHitsItsOwn

-----------------------------------------------------------------------------
(* What is watched, where php-cgi is found                                 *)

Registered(f) ==
  /\ f.kind \in {"listening", "socket", "read"}
  /\ f.kind = "listening" => f = Listening
  /\ f.kind = "socket" => \E c \in Clients : conn[c].phase # "closed" /\ f = Socket(c)
  /\ f.kind = "read" =>
       /\ \E q \in Pids : proc[q].pipe = f.of /\ f.of # NoPipe
       /\ f \in fds \/ \E q \in Pids : f \in proc[q].fds
       /\ \A c \in Clients : conn[c].phase = "forking" => f # ReadEnd(conn[c].pipe)

EInv ==
  /\ \A f \in epoll : Registered(f)
  /\ server = "running" /\ forking \in Clients => ReadEnd(conn[forking].pipe) \in fds
  /\ \A q \in Pids : proc[q].state # "serving"

LEMMA InitEInv == Init => EInv
<1> SUFFICES ASSUME Init
             PROVE  EInv
  OBVIOUS
<1>1. Listening.kind = "listening"
  BY FileFields DEF Listening
<1> QED
  BY <1>1, NamesAssumption DEF Init, EInv, Registered, NoProcess, NoClient

\* What stays watched is still open, and the connections go on.
LEMMA RegisteredStays ==
  ASSUME EInv,
         \A f \in epoll' : f \in epoll /\ (f \in fds' \/ \E q \in Pids : f \in proc'[q].fds),
         \A q \in Pids : proc'[q].pipe = proc[q].pipe,
         \A k \in Clients : conn[k].phase # "closed" /\ Socket(k) \in epoll' =>
                              conn'[k].phase # "closed",
         \A k \in Clients : conn'[k].phase = "forking" =>
                              conn[k].phase = "forking" /\ conn'[k].pipe = conn[k].pipe
  PROVE  \A f \in epoll' : Registered(f)'
<1> SUFFICES ASSUME NEW f \in epoll'
             PROVE  Registered(f)'
  OBVIOUS
<1>1. Registered(f)
  BY DEF EInv
<1> QED
  BY <1>1 DEF Registered

LEMMA TerminateEInv ==
  ASSUME EInv, Terminate
  PROVE  EInv'
<1>1. /\ server' = "terminated" /\ fds' = {} /\ conn' = conn /\ proc' = proc
      /\ epoll' = Watched(epoll, {}, proc)
  BY DEF Terminate
<1>2. \A f \in epoll' : f \in epoll /\ \E q \in Pids : f \in proc'[q].fds
  BY <1>1 DEF Watched
<1>3. \A f \in epoll' : Registered(f)'
  BY <1>1, <1>2, RegisteredStays
<1> QED
  BY <1>1, <1>3 DEF EInv

LEMMA RemoveWithEInv ==
  ASSUME IInv, EInv, NEW c \in Clients, forking = NoClient, NEW own, RemoveWith(c, own)
  PROVE  EInv'
<1>1. CASE Socket(c) \in epoll
  <2>1. /\ conn' = [conn EXCEPT ![c] = Closed] /\ proc' = proc /\ forking' = NoClient
        /\ epoll' = Watched(epoll \ {Socket(c)}, fds', proc)
    BY <1>1 DEF RemoveWith, Release
  <2>2. conn'[c].phase = "closed" /\ \A k \in Clients : k # c => conn'[k] = conn[k]
    BY <2>1 DEF IInv, TInv, TypeOK, Closed
  <2>3. \A f \in epoll' : /\ f \in epoll /\ f # Socket(c)
                          /\ f \in fds' \/ \E q \in Pids : f \in proc'[q].fds
    BY <2>1 DEF Watched
  <2>4. \A f \in epoll' : Registered(f)'
    BY <2>1, <2>2, <2>3, RegisteredStays
  <2> QED BY <2>1, <2>4, NamesAssumption DEF EInv, NoClient
<1>2. CASE Socket(c) \notin epoll
  <2>1. /\ server' = "terminated" /\ fds' = {} /\ conn' = conn /\ proc' = proc
        /\ epoll' = Watched(epoll, {}, proc)
    BY <1>2 DEF RemoveWith
  <2>2. \A f \in epoll' : f \in epoll /\ \E q \in Pids : f \in proc'[q].fds
    BY <2>1 DEF Watched
  <2>3. \A f \in epoll' : Registered(f)'
    BY <2>1, <2>2, RegisteredStays
  <2> QED BY <2>1, <2>3 DEF EInv
<1> QED
  BY <1>1, <1>2

LEMMA StopReadingEInv ==
  ASSUME IInv, EInv, NEW c \in Clients, conn[c].phase = "reading", forking = NoClient,
         StopReadingPipe(c), Socket(c) \in epoll
  PROVE  EInv'
<1> DEFINE q == conn[c].pid
<1>1. /\ q \in Pids /\ proc' = Kill(proc, q) /\ forking' = NoClient
      /\ conn' = [conn EXCEPT ![c] = [conn[c] EXCEPT !.phase = "filled", !.pipe = NoPipe]]
      /\ epoll' = Watched(epoll \ {ReadEnd(conn[c].pipe)}, fds', proc')
  BY DEF StopReadingPipe, IInv, TInv, Linked
<1> HIDE DEF q
<1>2. conn'[c].phase = "filled" /\ \A k \in Clients : k # c => conn'[k] = conn[k]
  BY <1>1 DEF IInv, TInv, TypeOK
<1>3. \A f \in epoll' : f \in epoll /\ (f \in fds' \/ \E r \in Pids : f \in proc'[r].fds)
  BY <1>1 DEF Watched
<1>4. \A r \in Pids : proc'[r].pipe = proc[r].pipe
  BY <1>1, KillTypes DEF IInv, TInv
<1>5. \A r \in Pids : proc'[r].state # "serving"
  <2>1. proc \in [Pids -> Process]
    BY DEF IInv, TInv, TypeOK
  <2>2. \A x \in Process : Zombie(x).state = "zombie"
    BY DEF Zombie, Process
  <2> QED BY <1>1, <2>1, <2>2 DEF Kill, EInv
<1>6. \A f \in epoll' : Registered(f)'
  BY <1>2, <1>3, <1>4, RegisteredStays
<1> QED
  BY <1>1, <1>5, <1>6, NamesAssumption DEF EInv, NoClient

LEMMA BecomeEInv ==
  ASSUME IInv, EInv, NEW q \in Pids, NEW process, process.pipe = proc[q].pipe,
         process.state # "serving", Become(q, process, epoll)
  PROVE  EInv'
<1>1. /\ proc' = [proc EXCEPT ![q] = process] /\ epoll' = Watched(epoll, fds, proc')
      /\ UNCHANGED <<server, conn, forking, fds, cloexec, made>>
  BY DEF Become
<1>2. \A r \in Pids : /\ proc'[r].pipe = proc[r].pipe
                      /\ proc'[r].state # "serving"
  BY <1>1 DEF IInv, TInv, TypeOK, EInv
<1>3. \A f \in epoll' : f \in epoll /\ (f \in fds' \/ \E r \in Pids : f \in proc'[r].fds)
  BY <1>1 DEF Watched
<1>4. \A f \in epoll' : Registered(f)'
  BY <1>1, <1>2, <1>3, RegisteredStays
<1> QED
  BY <1>1, <1>2, <1>4 DEF EInv

LEMMA StartReadingEInv ==
  ASSUME IInv, TInv', EInv, StartReadingPipe, Socket(forking) \in epoll
  PROVE  EInv'
<1> DEFINE c == forking
           p == conn[c].pipe
<1>1. /\ c \in Clients /\ proc' = proc /\ forking' = NoClient /\ server = "running"
      /\ conn' = [conn EXCEPT ![c].phase = "reading"]
      /\ fds' = fds \ {WriteEnd(p)} /\ epoll' = epoll \cup {ReadEnd(p)}
  BY DEF StartReadingPipe, IInv, TInv, TypeOK
<1>2. ReadEnd(p) \in fds /\ c \in Waiting
  BY <1>1 DEF EInv, IInv, TInv, Linked, Waiting
<1> HIDE DEF c
<1>3. /\ \A k \in Clients : k # c => conn'[k] = conn[k]
      /\ conn'[c].phase = "reading" /\ conn'[c].pipe = p
      /\ \A k \in Clients : conn'[k].phase # "forking"
  BY <1>1, NamesAssumption DEF IInv, TInv, TypeOK, Linked, NoClient
<1>4. WriteEnd(p).kind = "write" /\ ReadEnd(p).kind = "read" /\ ReadEnd(p).of = p
  BY FileFields DEF WriteEnd, ReadEnd
<1>5. ASSUME NEW f \in epoll
      PROVE  Registered(f)'
  <2>1. Registered(f)
    BY <1>5 DEF EInv
  <2>2. f.kind = "read" => f # WriteEnd(p)
    BY <1>4
  <2> QED BY <1>1, <1>3, <2>1, <2>2 DEF Registered
<1>6. ASSUME NEW f, f = ReadEnd(p)
      PROVE  Registered(f)'
  <2>1. f \in fds'
    BY <1>1, <1>2, <1>4, <1>6
  <2>2. \E q \in Pids : proc'[q].pipe = f.of /\ f.of # NoPipe
    BY <1>1, <1>2, <1>4, <1>6, WaitedForIsNoLeak
  <2> QED BY <1>3, <1>4, <1>6, <2>1, <2>2 DEF Registered
<1> QED
  BY <1>1, <1>5, <1>6, NamesAssumption DEF EInv, NoClient

LEMMA ForkEInv ==
  ASSUME IInv, EInv, NEW c \in Clients, NEW program \in Programs, Fork(c, program)
  PROVE  EInv'
<1> DEFINE p == made + 1
<1>1. PICK q \in Free :
        LET child == [state |-> "forked", client |-> c, pipe |-> p, program |-> program,
                      fds |-> fds \cup {ReadEnd(p), WriteEnd(p)}, cloexec |-> cloexec]
        IN /\ made' = p
           /\ proc' = [proc EXCEPT ![q] = child]
           /\ conn' = [conn EXCEPT ![c] = [phase |-> "forking", pipe |-> p, pid |-> q]]
           /\ fds' = child.fds
  BY DEF Fork
<1>2. /\ q \in Pids /\ proc[q].state = "none" /\ proc[q].pipe = NoPipe
      /\ \A r \in Pids : proc[r].pipe # p
  BY <1>1, PipesAreNumbers DEF Free, IInv, TInv, Linked, Distinct
<1>3. conn[c].phase = "open" /\ forking = NoClient /\ forking' = c /\ epoll' = epoll
  BY DEF Fork, Idle
<1>4. /\ proc'[q].state = "forked" /\ proc'[q].pipe = p
      /\ fds' = fds \cup {ReadEnd(p), WriteEnd(p)}
      /\ \A r \in Pids : r # q => proc'[r] = proc[r]
  BY <1>1, <1>2 DEF IInv, TInv, TypeOK
<1>5. /\ conn'[c].phase = "forking" /\ conn'[c].pipe = p
      /\ \A k \in Clients : k # c => conn'[k] = conn[k]
  BY <1>1 DEF IInv, TInv, TypeOK
<1>6. ReadEnd(p).of = p
  BY FileFields DEF ReadEnd
<1> HIDE DEF p
<1>7. ASSUME NEW f \in epoll'
      PROVE  Registered(f)'
  <2>1. Registered(f)
    BY <1>3, <1>7 DEF EInv
  <2>2. f.kind = "read" => \E r \in Pids : proc'[r].pipe = f.of /\ f.of # NoPipe
    BY <1>2, <1>4, <2>1 DEF Registered
  <2>3. f.kind = "read" => f \in fds' \/ \E r \in Pids : f \in proc'[r].fds
    <3>1. proc[q].fds = {}
      BY <1>2 DEF IInv, ChildInv, Holds
    <3> QED BY <1>4, <2>1, <3>1 DEF Registered
  <2>4. f.kind = "read" => f # ReadEnd(p)
    BY <1>2, <1>6, <2>1 DEF Registered
  <2>5. f.kind = "read" =>
          \A k \in Clients : conn'[k].phase = "forking" => f # ReadEnd(conn'[k].pipe)
    BY <1>5, <2>1, <2>4 DEF Registered
  <2>6. f.kind = "socket" => \E k \in Clients : conn'[k].phase # "closed" /\ f = Socket(k)
    BY <1>5, <2>1 DEF Registered
  <2> QED BY <2>1, <2>2, <2>3, <2>5, <2>6 DEF Registered
<1> QED
  BY <1>3, <1>4, <1>5, <1>7 DEF EInv

LEMMA NextEInv ==
  ASSUME "php" \notin Missing
  PROVE  IInv /\ EInv /\ [Next]_vars => EInv'
<1> SUFFICES ASSUME IInv, EInv, [Next]_vars
             PROVE  EInv'
  OBVIOUS
<1>0. TInv'
  BY NextTInv DEF IInv
<1>1. CASE StartReadingPipe
  BY <1>0, <1>1, StartReadingEInv, TerminateEInv DEF StartReadingPipe
<1>2. ASSUME NEW c \in Clients, AcceptNewConnection(c)
      PROVE  EInv'
  <2>1. /\ conn[c].phase = "closed" /\ forking' = NoClient /\ proc' = proc
        /\ conn' = [conn EXCEPT ![c].phase = "open"]
        /\ fds' = fds \cup {Socket(c)} /\ epoll' = epoll \cup {Socket(c)}
    BY <1>2 DEF AcceptNewConnection, Idle
  <2>2. conn'[c].phase = "open" /\ \A k \in Clients : k # c => conn'[k] = conn[k]
    BY <2>1 DEF IInv, TInv, TypeOK
  <2>3. ASSUME NEW f \in epoll
        PROVE  Registered(f)'
    <3>1. Registered(f)
      BY <2>3 DEF EInv
    <3> QED BY <2>1, <2>2, <3>1 DEF Registered
  <2>4. Registered(Socket(c))'
    BY <2>2, FileFields DEF Registered, Socket
  <2> QED BY <2>1, <2>3, <2>4, NamesAssumption DEF EInv, NoClient
<1>3. ASSUME NEW c \in Clients, AcceptFails(c)
      PROVE  EInv'
  BY <1>3, TerminateEInv DEF AcceptFails
<1>4. ASSUME NEW c \in Clients, RemoveConnection(c) \/ PipeFails(c) \/ ForkFails(c)
      PROVE  EInv'
  BY <1>4, RemoveWithEInv DEF RemoveConnection, PipeFails, ForkFails, Idle
<1>5. ASSUME NEW c \in Clients, ReadEndOfFile(c) \/ TimeoutCgi(c)
      PROVE  EInv'
  <2>1. conn[c].phase = "reading" /\ forking = NoClient /\ StopReadingPipe(c)
    BY <1>5 DEF ReadEndOfFile, TimeoutCgi, Idle
  <2>2. Socket(c) \notin epoll => Terminate
    BY <2>1 DEF StopReadingPipe
  <2> QED BY <2>1, <2>2, StopReadingEInv, TerminateEInv
<1>6. ASSUME NEW c \in Clients, KeepAlive(c)
      PROVE  EInv'
  <2>1. /\ conn' = [conn EXCEPT ![c].phase = "open"] /\ forking' = NoClient
        /\ UNCHANGED <<fds, epoll, proc>>
    BY <1>6 DEF KeepAlive, Idle
  <2>2. conn'[c].phase = "open" /\ \A k \in Clients : k # c => conn'[k] = conn[k]
    BY <2>1 DEF IInv, TInv, TypeOK
  <2>3. ASSUME NEW f \in epoll
        PROVE  Registered(f)'
    <3>1. Registered(f)
      BY <2>3 DEF EInv
    <3> QED BY <2>1, <2>2, <3>1 DEF Registered
  <2> QED BY <2>1, <2>3, NamesAssumption DEF EInv, NoClient
<1>7. ASSUME NEW c \in Clients, NEW program \in Programs, Fork(c, program)
      PROVE  EInv'
  BY <1>7, ForkEInv
<1>8. ASSUME NEW q \in Pids, ChildStep(q) \/ ScriptClosesOutput(q) \/ ScriptExits(q)
      PROVE  EInv'
  <2>1. PICK process : /\ process.pipe = proc[q].pipe /\ process.state # "serving"
                       /\ Become(q, process, epoll)
    <3>1. proc[q] \in Process
      BY DEF IInv, TInv, TypeOK
    <3>2. CASE Redirect(q)
      <4> DEFINE kept == (proc[q].fds \ {ReadEnd(proc[q].pipe), WriteEnd(proc[q].pipe)})
                           \cup {Stdout(proc[q].pipe)}
                 b == [proc[q] EXCEPT !.state = "redirected", !.fds = kept]
      <4>1. Become(q, b, epoll)
        BY <3>2 DEF Redirect
      <4>2. b.pipe = proc[q].pipe /\ b.state = "redirected"
        <5> HIDE DEF kept
        <5> QED BY <3>1 DEF Process
      <4> HIDE DEF b
      <4> QED BY <4>1, <4>2
    <3>3. CASE Exec(q)
      BY <3>1, <3>3 DEF Exec, Process
    <3>4. CASE ExecFails(q)
      <4>1. proc[q].program # "php" /\ Become(q, Zombie(proc[q]), epoll)
        BY <3>4 DEF ExecFails
      <4>2. Zombie(proc[q]).pipe = proc[q].pipe /\ Zombie(proc[q]).state = "zombie"
        BY <3>1 DEF Zombie, Process
      <4> QED BY <4>1, <4>2
    <3>5. CASE ScriptClosesOutput(q)
      BY <3>1, <3>5 DEF ScriptClosesOutput, Process
    <3>6. CASE ScriptExits(q)
      BY <3>1, <3>6 DEF ScriptExits, Zombie, Process
    <3> QED BY <1>8, <3>2, <3>3, <3>4, <3>5, <3>6 DEF ChildStep
  <2> QED BY <2>1, BecomeEInv
<1>9. CASE UNCHANGED vars
  <2>1. \A f \in epoll : Registered(f)' = Registered(f)
    BY <1>9 DEF vars, Registered
  <2> QED BY <1>9, <2>1 DEF vars, EInv
<1> QED
  BY <1>1, <1>2, <1>3, <1>4, <1>5, <1>6, <1>7, <1>8, <1>9 DEF Next, ServerStep

\* If php-cgi is found, what is watched belongs to a connection, or is held by a
\* child before its execve().
THEOREM WatchedIsOwned ==
  ASSUME "php" \notin Missing
  PROVE  Spec => []WatchedIsOwnedOrHeld
<1>1. IInv /\ EInv => WatchedIsOwnedOrHeld
  <2> SUFFICES ASSUME IInv, EInv, NEW f \in epoll \ {Listening}
               PROVE  \/ \E c \in Clients : f = Socket(c) /\ conn[c].phase # "closed"
                      \/ \E c \in Clients : f = ReadEnd(conn[c].pipe) /\ conn[c].phase = "reading"
                      \/ /\ f.kind = "read"
                         /\ \E q \in Pids : /\ proc[q].state \in {"forked", "redirected"}
                                            /\ f \in proc[q].fds
    BY DEF WatchedIsOwnedOrHeld
  <2>1. Registered(f)
    BY DEF EInv
  <2>2. CASE f.kind = "socket"
    BY <2>1, <2>2 DEF Registered
  <2>3. CASE f.kind = "read" /\ f \in fds
    <3>1. Needed(f) /\ ~Leak(f)
      BY <2>1, <2>3 DEF Registered, Leak, IInv, ServerInv
    <3>2. PICK c \in Waiting : f = ReadEnd(conn[c].pipe)
      BY <2>3, <3>1, FileFields DEF Needed, Epoll, Listening, Socket, WriteEnd
    <3> QED BY <2>1, <2>3, <3>2 DEF Registered, Waiting
  <2>4. CASE f.kind = "read" /\ \E q \in Pids : f \in proc[q].fds
    <3>1. PICK q \in Pids : f \in proc[q].fds
      BY <2>4
    <3>2. Holds(q, f) /\ ~Leak(f) /\ f # Stdout(proc[q].pipe)
      BY <2>1, <2>4, <3>1, FileFields DEF Registered, Leak, IInv, ChildInv, Stdout
    <3>3. proc[q].state \in {"none", "forked", "redirected", "script", "zombie", "serving"}
      BY DEF IInv, TInv, TypeOK, Process
    <3> QED BY <2>4, <3>1, <3>2, <3>3 DEF Holds, EInv
  <2> QED BY <2>1, <2>2, <2>3, <2>4 DEF Registered
<1>2. IInv /\ EInv /\ [Next]_vars => EInv'
  BY NextEInv
<1> QED
  BY <1>1, <1>2, Inductive, InitEInv, PTL DEF Spec
=============================================================================
