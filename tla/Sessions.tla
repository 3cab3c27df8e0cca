------------------------------ MODULE Sessions ------------------------------
(***************************************************************************)
(* Sessions: how requests of several connections create and present them,  *)
(* the session map of a server's ServerConf, and the cookies of its        *)
(* answers.                                                                *)
(***************************************************************************)
EXTENDS Integers

CONSTANTS
  Users,         \* browsers, each with a jar of cookies
  Connections,   \* slots of connections
  Owner,         \* Owner[c] is the user of connection c
  MaxSecond,     \* bound: seconds that pass
  Rand,          \* Rand[t]: what rand() gives after srand(t)
  Others,        \* numbers that cookies of other servers of the same host may hold
  SessionFirst   \* bound: browsers put session_id before those

ASSUME SessionsAssumption ==
  /\ MaxSecond \in Nat /\ SessionFirst \in BOOLEAN
  /\ Owner \in [Connections -> Users]
  /\ Rand \in [0 .. MaxSecond -> Nat \ {0}] /\ Others \subseteq Nat

VARIABLES
  now,       \* std::time()
  sessions,  \* the session map: the cookies of each session, by key
  conn,      \* conn[c]: the Request of a connection
  jar,       \* jar[u]: the session_id a browser has, or 0
  given      \* history: <<u, t>> if a session was made for u in second t

vars == <<now, sessions, conn, jar, given>>

Seconds == 0 .. MaxSecond
Keys == {"session_id", "other"}

-----------------------------------------------------------------------------
(* The session map                                                         *)

NoCookies == [key \in {} |-> 0]

\* map::insert() leaves a key that is there alone.
Insert(map, key, value) ==
  [k \in DOMAIN map \cup {key} |-> IF k \in DOMAIN map THEN map[k] ELSE value]

\* operator[] makes the entry it does not find.
Find(map, id) == Insert(map, id, NoCookies)

\* The key is what stands before the first "=", the value the rest: its first number
\* stands for it.
\* Mutant: no session is made for a cookie.
AddCookieToKnown(map, id, key, value) ==
  IF id \in DOMAIN map THEN [map EXCEPT ![id] = Insert(@, key, value)] ELSE map
AddCookie(map, id, key, value) ==
  [Find(map, id) EXCEPT ![id] = Insert(@, key, value)]

\* Mutant: the same seed at every call.
GeneratePseudoRandomNumberUnseeded == Rand[0]
GeneratePseudoRandomNumber == Rand[now]

-----------------------------------------------------------------------------
(* The headers of a request                                                *)

SessionHeader == [name |-> "Session", pairs |-> <<>>]
CookieHeader(pairs) == [name |-> "Cookie", pairs |-> pairs]
Pair(key, value) == [key |-> key, value |-> value]

\* What a browser sends: all its cookies in one header, those of this server and
\* those of others, and "Session: yes" where app.js asks for a session.
CookieHeaders(u) ==
  LET own == Pair("session_id", jar[u])
  IN IF jar[u] = 0 THEN {<<Pair("other", n)>> : n \in Others}
     ELSE {<<own>>} \cup {<<own, Pair("other", n)>> : n \in Others}
            \cup (IF SessionFirst THEN {} ELSE {<<Pair("other", n), own>> : n \in Others})

RequestHeaders(u) ==
  LET cookies == {CookieHeader(pairs) : pairs \in CookieHeaders(u)}
  IN {<<h>> : h \in cookies} \cup {<<h, SessionHeader>> : h \in cookies}
       \cup {<<SessionHeader, h>> : h \in cookies}
       \cup (IF jar[u] = 0 THEN {<<>>, <<SessionHeader>>} ELSE {})

Parsing(id, map) == [session |-> id, map |-> map, made |-> FALSE]

\* A header that holds session_id anywhere is taken for one that begins with it:
\* the number after its first "=" is the session.
\* Mutant: a session is made although there is one.
AddAsHeaderVarAlways(r, header) ==
  CASE header.name = "Cookie" /\ (\E i \in DOMAIN header.pairs : header.pairs[i].key = "session_id") ->
         LET first == header.pairs[1]
         IN [r EXCEPT !.session = first.value,
                      !.map = AddCookie(@, first.value, first.key, first.value)]
    [] header.name = "Session" ->
         LET id == GeneratePseudoRandomNumber
         IN [session |-> id, map |-> AddCookie(r.map, id, "session_id", id), made |-> TRUE]
    [] OTHER -> r
AddAsHeaderVar(r, header) ==
  CASE header.name = "Cookie" /\ (\E i \in DOMAIN header.pairs : header.pairs[i].key = "session_id") ->
         LET first == header.pairs[1]
         IN [r EXCEPT !.session = first.value,
                      !.map = AddCookie(@, first.value, first.key, first.value)]
    [] header.name = "Session" /\ r.session = 0 ->
         LET id == GeneratePseudoRandomNumber
         IN [session |-> id, map |-> AddCookie(r.map, id, "session_id", id), made |-> TRUE]
    [] OTHER -> r

\* At most two of the headers matter.
ParseHeaders(r, headers) ==
  CASE headers = <<>> -> r
    [] DOMAIN headers = 1 .. 1 -> AddAsHeaderVar(r, headers[1])
    [] DOMAIN headers = 1 .. 2 -> AddAsHeaderVar(AddAsHeaderVar(r, headers[1]), headers[2])

-----------------------------------------------------------------------------
(* Actions                                                                 *)

\* session is _sessionId, presented the one of the request's cookie (history).
NewConnection == [phase |-> "waiting", session |-> 0, presented |-> 0]
Closed == [NewConnection EXCEPT !.phase = "closed"]

Init ==
  /\ now = 0
  /\ sessions = [id \in {} |-> NoCookies]
  /\ conn = [c \in Connections |-> Closed]
  /\ jar = [u \in Users |-> 0]
  /\ given = {}

AcceptNewConnection(c) ==
  /\ conn[c].phase = "closed"
  /\ conn' = [conn EXCEPT ![c] = NewConnection]
  /\ UNCHANGED <<now, sessions, jar, given>>

ReceiveHeaders(c, headers) ==
  /\ conn[c].phase = "waiting"
  /\ LET r == ParseHeaders(Parsing(conn[c].session, sessions), headers)
     IN /\ sessions' = r.map
        /\ conn' = [conn EXCEPT ![c] = [phase |-> "answering", session |-> r.session,
                                        presented |-> jar[Owner[c]]]]
        /\ given' = IF r.made THEN given \cup {<<Owner[c], now>>} ELSE given
  /\ UNCHANGED <<now, jar>>

\* createHTTPHeaders() looks the session up, also that of a request without one, and
\* sends its cookies; then the Request is reset, except for its session.
SetCookies(c) ==
  LET cookies == Find(sessions, conn[c].session)[conn[c].session]
  IN IF conn[c].session = 0 THEN NoCookies ELSE cookies

Answer(c) ==
  /\ conn[c].phase = "answering"
  /\ sessions' = Find(sessions, conn[c].session)
  /\ jar' = IF "session_id" \in DOMAIN SetCookies(c)
            THEN [jar EXCEPT ![Owner[c]] = SetCookies(c)["session_id"]] ELSE jar
  /\ conn' = [conn EXCEPT ![c] = [@ EXCEPT !.phase = "waiting", !.presented = 0]]
  /\ UNCHANGED <<now, given>>

\* Also in the middle of a request.
RemoveConnection(c) ==
  /\ conn[c].phase # "closed"
  /\ conn' = [conn EXCEPT ![c] = Closed]
  /\ UNCHANGED <<now, sessions, jar, given>>

\* A user who has no connection deletes the cookies.
ForgetCookies(u) ==
  /\ jar[u] # 0 /\ \A c \in Connections : Owner[c] = u => conn[c].phase = "closed"
  /\ jar' = [jar EXCEPT ![u] = 0]
  /\ UNCHANGED <<now, sessions, conn, given>>

\* The server is started again: sessions are kept in memory only.
Restart ==
  /\ sessions' = [id \in {} |-> NoCookies]
  /\ conn' = [c \in Connections |-> Closed]
  /\ UNCHANGED <<now, jar, given>>

Tick ==
  /\ now < MaxSecond
  /\ now' = now + 1
  /\ UNCHANGED <<sessions, conn, jar, given>>

Next ==
  \/ \E c \in Connections :
       \/ AcceptNewConnection(c) \/ Answer(c) \/ RemoveConnection(c)
       \/ \E headers \in RequestHeaders(Owner[c]) : ReceiveHeaders(c, headers)
  \/ \E u \in Users : ForgetCookies(u)
  \/ Restart \/ Tick

Spec == Init /\ [][Next]_vars

-----------------------------------------------------------------------------
(* Properties                                                              *)

\* Every variable keeps its type.
TypeOK ==
  /\ now \in Seconds
  /\ DOMAIN sessions \subseteq Nat
  /\ \A id \in DOMAIN sessions :
       /\ DOMAIN sessions[id] \subseteq Keys
       /\ \A key \in DOMAIN sessions[id] : sessions[id][key] \in Nat
  /\ conn \in [Connections -> [phase : {"closed", "waiting", "answering"},
                               session : Nat, presented : Nat]]
  /\ jar \in [Users -> Nat]
  /\ given \subseteq Users \X Seconds

\* The session of a request is in the map, under the cookie that names it: the
\* answer will name the session the request was handled under, after any sequence
\* of requests, lost connections and restarts (Request.cpp:333, Response.cpp:184).
SessionIsKnown ==
  \A c \in Connections :
    conn[c].phase # "closed" /\ conn[c].session # 0 =>
      /\ conn[c].session \in DOMAIN sessions
      /\ "session_id" \in DOMAIN sessions[conn[c].session]
      /\ sessions[conn[c].session]["session_id"] = conn[c].session

\* A browser that presents a session is answered with the same one, also after a
\* restart, and whatever other connections of it do meanwhile.
PresentedSessionIsKept ==
  [][\A c \in Connections :
       Answer(c) /\ conn[c].presented # 0 =>
         jar'[Owner[c]] = conn[c].presented]_vars

\* Two users are in one session only if it was made for both of them in one second
\* (Session.cpp:22), or the generator gave one number for two seconds.
SharedOnlyWithinASecond ==
  \A c, d \in Connections :
    conn[c].session # 0 /\ conn[c].session = conn[d].session =>
      \E s, t \in Seconds :
        /\ <<Owner[c], s>> \in given /\ <<Owner[d], t>> \in given
        /\ Rand[s] = conn[c].session /\ Rand[t] = conn[c].session
=============================================================================
