--------------------------- MODULE HttpConnection ---------------------------
(***************************************************************************)
(* What the server promises each connection, whatever epoll reports and in *)
(* whatever order: the abstract specification EventLoop implements.        *)
(*                                                                         *)
(* A connection slot is free, receiving a request, executing a CGI script  *)
(* or answering.  It has expired once the server has given up on it, and   *)
(* is hung up once the peer has reset it.  Many slots may move in the same *)
(* step (ServerSocket::timeoutIdleClients visits them all).                *)
(***************************************************************************)
CONSTANT Conns

VARIABLES stage, expired, hungUp, serving
vars == <<stage, expired, hungUp, serving>>

Stages == {"free", "receiving", "executing", "answering"}

TypeOK ==
  /\ stage \in [Conns -> Stages]
  /\ expired \in [Conns -> BOOLEAN]
  /\ hungUp \in [Conns -> BOOLEAN]
  /\ serving \in BOOLEAN

Init ==
  /\ stage = [c \in Conns |-> "free"]
  /\ expired = [c \in Conns |-> FALSE]
  /\ hungUp = [c \in Conns |-> FALSE]
  /\ serving = TRUE

Accept(c) ==
  /\ stage[c] = "free" /\ stage'[c] = "receiving"
  /\ expired'[c] = FALSE
  /\ serving

\* A script is started for a parsed request, and once only as long as the peer
\* is there: a second start needs a peer that has hung up.
Execute(c) ==
  /\ \/ stage[c] = "receiving"
     \/ stage[c] = "answering" /\ hungUp[c]
  /\ stage'[c] = "executing"
  /\ ~expired[c] /\ ~expired'[c]

\* The answer is ready, perhaps the one that tells of a timeout.
Answer(c) ==
  /\ stage[c] # "free" /\ stage'[c] = "answering"
  /\ expired[c] => expired'[c]

\* Only a connection that has not expired serves another request.
KeepAlive(c) ==
  /\ stage[c] = "answering" /\ stage'[c] = "receiving"
  /\ ~expired[c] /\ ~expired'[c]

\* A script is not abandoned while the peer waits for it, unless the server
\* is shutting down.
Close(c) ==
  /\ stage[c] # "free" /\ stage'[c] = "free"
  /\ (stage[c] = "executing" /\ serving) => hungUp[c]
  /\ ~expired'[c]

Stay(c) == stage'[c] = stage[c] /\ expired'[c] = expired[c]

Move(c) ==
  /\ \/ Stay(c) \/ Accept(c) \/ Execute(c) \/ Answer(c) \/ KeepAlive(c) \/ Close(c)
  /\ (hungUp[c] /\ stage[c] # "free") => hungUp'[c] \/ stage'[c] = "free"

Next ==
  /\ stage' \in [Conns -> Stages]
  /\ expired' \in [Conns -> BOOLEAN]
  /\ hungUp' \in [Conns -> BOOLEAN]
  /\ serving' \in BOOLEAN /\ (serving' => serving)
  /\ \A c \in Conns : Move(c)

Spec == Init /\ [][Next]_vars
=============================================================================
